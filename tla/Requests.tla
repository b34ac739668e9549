------------------------------ MODULE Requests ------------------------------
(***************************************************************************)
(* How a request is let in on a route of a listener (the listener's own,   *)
(* a preview, a schedule): verifyAuth walks the auth configurations of the *)
(* route, then the arguments are collected from the path, the request, the *)
(* body and the query. One request; nothing is shared with another.        *)
(***************************************************************************)
EXTENDS Integers, Sequences, SequencesExt, TLC

CONSTANTS
    None,
    Routes,     \* the routes considered: [kind, own, listener]
    Incoming    \* the requests considered

(* A route has the auth list of its plugin, None when there is none, and that
   of its listener. An auth configuration:
     [apiKeys, basicAuth, basicAuthUser, queryAuth, queryAuthKey, authHeaders]
   with authHeaders a sequence of [header, method, transform]. A request:
     [timeParses, basic, headers, query, params, method, length, type, body, broken]
   with body what can be read of it, and broken when reading it to its end fails.
   Names of arguments are sequences of parts: <<"_query_", "a">> is _query_a. *)

AuthHeaders ==
    [header : STRING, method : {"", "hmac-sha256"}, transform : {None, "trim", "decode", "cut"}]
AuthConfigs ==
    [apiKeys : Seq(STRING \ {"nonsense"}), basicAuth : BOOLEAN, basicAuthUser : STRING \cup {None},
     queryAuth : BOOLEAN, queryAuthKey : Seq(STRING) \cup {None}, authHeaders : Seq(AuthHeaders)]

NoArgs == [n \in {} |-> None]
RequestKey == <<"__qvRequest">>
TimeKey == <<"__qvScheduleTime">>
PayloadLength == <<"__qvPayloadArrayLength">>
Index(i) == <<ToString(i - 1)>>

\* The shapes of what is considered. A key that happens to be what a decoder makes of
\* some other text is left out. Indices are written differently from each other and
\* from the names that qValet adds.
ShapesAssumption ==
    /\ None # <<>> /\ None \notin {"trim", "decode", "cut"}
    /\ \A r \in Routes :
            r.own \in Seq(AuthConfigs) \cup {None} /\ r.listener \in Seq(AuthConfigs)
    /\ \A r \in Incoming :
        /\ r.basic = None \/ r.basic \in [user : STRING, password : STRING]
        /\ \A h \in DOMAIN r.headers : r.headers[h] \in [text : Seq(STRING), layers : Nat]
        /\ DOMAIN r.query \subseteq Seq(STRING)
        /\ \A n \in DOMAIN r.query : r.query[n] \in Seq(STRING) \ {<<>>}
        /\ r.body # None /\ r.length \in Int /\ r.broken \in BOOLEAN
        /\ r.body.kind \in {"object", "array", "malformed"}
        /\ r.body.kind = "array" => \A i, j \in DOMAIN r.body.elements :
                /\ Index(i) = Index(j) => i = j
                /\ Index(i) \notin {RequestKey, PayloadLength}
ASSUME ShapesAssumption

VARIABLES
    route, request,
    pc,
    config,     \* index into the auth list
    header,     \* index into the auth headers of that configuration
    key,        \* index into its keys
    value,      \* headerValue: the header's value, as transformed so far
    body,       \* what a read of c.Request.Body gives: the payload or None
    args        \* the arguments, none before they are extracted

vars == <<route, request, pc, config, header, key, value, body, args>>

\* Variant: an empty list of the plugin counts as none.
authConfigs_NotEmpty == IF route.own \in {None, <<>>} THEN route.listener ELSE route.own

\* A plugin's list, even an empty one, replaces that of the listener.
authConfigs == IF route.own = None THEN route.listener ELSE route.own

Init ==
    /\ route \in Routes
    /\ request \in Incoming
    /\ pc = "enter"
    /\ config = 1
    /\ header = 1
    /\ key = 1
    /\ value = None
    /\ body = request.body
    /\ args = NoArgs

Ends(code) == pc' = code /\ UNCHANGED <<route, request, config, header, key, value, body, args>>

\* The schedule route reads its time before anything else.
Enter ==
    /\ pc = "enter"
    /\ Ends(IF route.kind = "schedule" /\ ~request.timeParses THEN "400"
            ELSE IF authConfigs = <<>> THEN "args"
            ELSE "basic")
-----------------------------------------------------------------------------
(* verifyAuth.                                                             *)

auth == authConfigs[config]
KeysOf(c) == Range(c.apiKeys)

DefaultUser == "qv"
User(c) == IF c.basicAuthUser = None THEN DefaultUser ELSE c.basicAuthUser

\* Variant: the name of the user is not compared.
BasicMatches_AnyUser(c) ==
    c.basicAuth /\ request.basic # None /\ request.basic.password \in KeysOf(c)

BasicMatches(c) ==
    /\ c.basicAuth
    /\ request.basic # None
    /\ request.basic.user = User(c)
    /\ request.basic.password \in KeysOf(c)

DefaultQueryKey == <<"__qvApiKey">>
QueryKey(c) == IF c.queryAuthKey = None THEN DefaultQueryKey ELSE c.queryAuthKey

\* c.Query: the first value, and the empty string for a parameter that is not there.
QueryValue(n) == IF n \in DOMAIN request.query THEN Head(request.query[n]) ELSE ""

QueryMatches(c) == c.queryAuth /\ QueryValue(QueryKey(c)) \in KeysOf(c)

Basic ==
    /\ pc = "basic"
    /\ Ends(IF BasicMatches(auth) THEN "args" ELSE "query")

\* On to the auth headers of the configuration.
Query ==
    /\ pc = "query"
    /\ IF QueryMatches(auth)
       THEN Ends("args")
       ELSE /\ pc' = "header"
            /\ header' = 1
            /\ UNCHANGED <<route, request, config, key, value, body, args>>

(* A header's value is [text, layers]: the text that is to be found, under so
   many layers (a prefix, an encoding). A transform removes all of them ("trim",
   as replace does), one of them ("decode": of a text without a layer it makes
   nonsense, of the empty text the empty text; "cut": it fails on a text without
   a layer), or there is none.  *)
Plain(text) == [text |-> text, layers |-> 0]
Empty == Plain(<<"">>)
Nonsense == Plain(<<"nonsense">>)

\* GetHeader of a header that is not there gives the empty string.
HeaderValue(h) == IF h \in DOMAIN request.headers THEN request.headers[h] ELSE Empty

BeginHeader ==
    /\ pc = "header"
    /\ header <= Len(auth.authHeaders)
    /\ value' = HeaderValue(auth.authHeaders[header].header)
    /\ key' = 1
    /\ pc' = "key"
    /\ UNCHANGED <<route, request, config, header, body, args>>

TransformFails(t, v) == t = "cut" /\ v.layers = 0
Transform(t, v) ==
    CASE t = None -> v
      [] t = "trim" -> Plain(v.text)
      [] t \in {"decode", "cut"} ->
            IF v.layers > 0 THEN [v EXCEPT !.layers = @ - 1]
            ELSE IF v = Empty THEN Empty ELSE Nonsense

\* authHMACSHA256 of a payload and a key.
HMAC(payload, k) == Plain(<<"hmac", payload, k>>)
ExpectedOf(method, payload, k) ==
    IF method = "hmac-sha256" THEN HMAC(payload, k) ELSE Plain(<<k>>)

\* Variant: what has been read is not put back.
BodyAfter_Drained(method) == IF method = "hmac-sha256" THEN None ELSE body

\* The body is read for a hash, once, and put back for later usage.
BodyAfter(method) == body

\* The hash needs the whole body.
BodyFails(method) == method = "hmac-sha256" /\ request.broken

\* One key against the value, which is replaced by its transformation.
TryKey ==
    LET h == auth.authHeaders[header]
        transformed == Transform(h.transform, value)
    IN  /\ pc = "key"
        /\ key <= Len(auth.apiKeys)
        /\ ~TransformFails(h.transform, value) /\ ~BodyFails(h.method)
        /\ value' = transformed
        /\ body' = BodyAfter(h.method)
        /\ IF transformed = ExpectedOf(h.method, request.body.id, auth.apiKeys[key])
           THEN pc' = "args" /\ key' = key
           ELSE pc' = "key" /\ key' = key + 1
        /\ UNCHANGED <<route, request, config, header, args>>

\* An error of the transform ends verifyAuth, whatever is left to try.
TransformError ==
    /\ pc = "key"
    /\ key <= Len(auth.apiKeys)
    /\ TransformFails(auth.authHeaders[header].transform, value)
    /\ Ends("401")

\* So does an error of reading the body.
BodyError ==
    LET h == auth.authHeaders[header]
    IN  /\ pc = "key"
        /\ key <= Len(auth.apiKeys)
        /\ ~TransformFails(h.transform, value) /\ BodyFails(h.method)
        /\ Ends("401")

NextHeader ==
    /\ pc = "key"
    /\ key > Len(auth.apiKeys)
    /\ header' = header + 1
    /\ pc' = "header"
    /\ UNCHANGED <<route, request, config, key, value, body, args>>

\* Variant: the last configuration is taken for the one after it.
NextConfig_TooFar ==
    /\ pc = "header"
    /\ header > Len(auth.authHeaders)
    /\ config' = config + 1
    /\ pc' = IF config <= Len(authConfigs) THEN "basic" ELSE "401"
    /\ UNCHANGED <<route, request, header, key, value, body, args>>

\* Variant: a configuration that does not match ends the search.
NextConfig_GivesUp ==
    /\ pc = "header"
    /\ header > Len(auth.authHeaders)
    /\ Ends("401")

NextConfig ==
    /\ pc = "header"
    /\ header > Len(auth.authHeaders)
    /\ IF config = Len(authConfigs)
       THEN Ends("401")
       ELSE /\ config' = config + 1
            /\ pc' = "basic"
            /\ UNCHANGED <<route, request, header, key, value, body, args>>
-----------------------------------------------------------------------------
(* ExtractArgsFromGinContext.                                              *)

Structured == {"json", "plain", "", "yaml"}
Forms == {"form", "multipart"}

\* A body that announces no length, empty or sent in chunks, is not looked at.
HasBody == request.length > 0

Parses(payload) == payload # None /\ payload.kind # "malformed"

Unreadable ==
    /\ HasBody
    /\ \/ request.type \notin Structured \cup Forms
       \/ request.type \in Structured /\ ~Parses(body)

\* Values that are set after others replace those of the same name.
Single(n, v) == [m \in {n} |-> v]
Onto(later, earlier) ==
    [n \in DOMAIN later \cup DOMAIN earlier |->
        IF n \in DOMAIN later THEN later[n] ELSE earlier[n]]

\* An object is taken as it is; the elements of an array are named by their index.
ElementArgs(elements) ==
    [n \in {Index(i) : i \in DOMAIN elements} |->
        elements[CHOOSE i \in DOMAIN elements : Index(i) = n]]
StructuredArgs(payload) ==
    IF payload.kind = "array"
    THEN Onto(Single(PayloadLength, <<"length", Len(payload.elements)>>),
              ElementArgs(payload.elements))
    ELSE payload.fields

\* The errors of ParseMultipartForm are ignored: what was not understood, or could
\* not be read to its end, is missing. net/http reads a form that is not multipart for
\* some methods only.
\* (A name that is in the query as well takes its value from there, below.)
FormArgs(payload) ==
    IF \/ payload = None \/ request.broken
       \/ payload.kind # "object"
       \/ request.type = "form" /\ request.method \notin {"POST", "PUT", "PATCH"}
    THEN NoArgs
    ELSE payload.fields

BodyArgs ==
    IF ~HasBody THEN NoArgs
    ELSE IF request.type \in Structured THEN StructuredArgs(body) ELSE FormArgs(body)

ListName(n) == <<"_query_">> \o n

\* Every parameter of the query gives its last value and, under another name, all
\* its values. They are walked in any order: names of both kinds that are the
\* same, lists of them in listWins, keep either.
QueryArgs(listWins) ==
    LET q == request.query
        lists == {ListName(n) : n \in DOMAIN q}
    IN  [n \in lists \cup DOMAIN q |->
            IF n \in lists /\ (n \in listWins \/ n \notin DOMAIN q)
            THEN <<"all", q[Tail(n)]>> ELSE <<"one", Last(q[n])>>]

\* The path first, then the request, the body and the query over it.
Collected(listWins) ==
    Onto(QueryArgs(listWins),
         Onto(BodyArgs, Onto(Single(RequestKey, <<"request", request.method>>), request.params)))

\* The schedule route removes the parameter that carries its time.
Kept(collected) ==
    IF route.kind = "schedule"
    THEN [n \in DOMAIN collected \ {TimeKey} |-> collected[n]] ELSE collected

ExtractFails ==
    /\ pc = "args"
    /\ Unreadable
    /\ Ends("400")

Extract ==
    /\ pc = "args"
    /\ ~Unreadable
    /\ \E listWins \in SUBSET DOMAIN request.query : args' = Kept(Collected(listWins))
    /\ pc' = "handle"
    /\ UNCHANGED <<route, request, config, header, key, value, body>>

Next ==
    \/ Enter
    \/ Basic
    \/ Query
    \/ BeginHeader
    \/ TryKey
    \/ TransformError
    \/ BodyError
    \/ NextHeader
    \/ NextConfig
    \/ ExtractFails
    \/ Extract

Spec == Init /\ [][Next]_vars
-----------------------------------------------------------------------------
(* Properties.                                                             *)

TypeOK ==
    /\ pc \in {"enter", "basic", "query", "header", "key", "args", "handle", "400", "401"}
    /\ config \in Nat \ {0}
    /\ header \in Nat \ {0} /\ key \in Nat \ {0}
    /\ authConfigs # <<>> => config <= Len(authConfigs)
    /\ pc = "header" => header <= Len(auth.authHeaders) + 1
    /\ pc = "key" => header <= Len(auth.authHeaders) /\ key <= Len(auth.apiKeys) + 1
    /\ body \in {request.body, None}
    /\ pc # "handle" => args = NoArgs

\* The request carries a key of c where c looks for one: as the password of its own
\* user, as the first value of the parameter of its query, or, under whatever layers,
\* as the text that the key makes for one of its headers.
HoldsAKey(c) ==
    \/ /\ c.basicAuth
       /\ \E k \in KeysOf(c) : request.basic = [user |-> User(c), password |-> k]
    \/ /\ c.queryAuth
       /\ QueryKey(c) \in DOMAIN request.query
       /\ Head(request.query[QueryKey(c)]) \in KeysOf(c)
    \/ \E h \in Range(c.authHeaders) : \E k \in KeysOf(c) :
            /\ h.header \in DOMAIN request.headers
            /\ request.headers[h.header].text = ExpectedOf(h.method, request.body.id, k).text

\* c has an empty key (say, of an environment variable that is not set), which is what
\* an absent parameter, or an absent header that is not hashed, is equal to.
AsksForNothing(c) ==
    /\ "" \in KeysOf(c)
    /\ \/ c.queryAuth /\ QueryKey(c) \notin DOMAIN request.query
       \/ \E h \in Range(c.authHeaders) :
            h.method = "" /\ h.header \notin DOMAIN request.headers

LetsIn(c) == HoldsAKey(c) \/ AsksForNothing(c)

Authenticated == pc \in {"args", "handle"}

\* verifyAuth lets a request through only if it carries a key of the list that
\* belongs to the route, in a place where this configuration allows it: no mix of
\* the user of one configuration with the key of another, no hash of another body.
\* Only a configuration with an empty key is content with a request that lacks the
\* parameter or the header it looks for.
AcceptedRequestsHoldAKey ==
    Authenticated /\ authConfigs # <<>> => \E i \in DOMAIN authConfigs : LetsIn(authConfigs[i])

\* What k applications of a transform make of a value.
Transformed(t, v, k) ==
    IF k = 0 \/ t = None THEN v
    ELSE IF t = "trim" THEN Plain(v.text)
    ELSE IF k <= v.layers THEN [v EXCEPT !.layers = @ - k]
    ELSE IF v.text = Empty.text THEN Empty ELSE Nonsense

\* Header number h of c gives what key number k expects, after one transformation for
\* each key up to it.
IsFound(c, h, k) ==
    LET t == c.authHeaders[h].transform
        m == c.authHeaders[h].method
        v == HeaderValue(c.authHeaders[h].header)
    IN  /\ t = "cut" => k <= v.layers
        /\ ~BodyFails(m)
        /\ Transformed(t, v, k) = ExpectedOf(m, request.body.id, c.apiKeys[k])

\* A request is refused for one of three reasons: everything was tried; a transform
\* that cuts was to be applied, for one key after another, more often than the header
\* has layers; or the body, which a hash needs, cannot be read. And nothing matches
\* that comes before this place in the lists of configurations, headers and keys, each
\* key against the header as the keys before it have left it.
RefusedRequestsHoldNone ==
    pc = "401" =>
        /\ \/ config = Len(authConfigs) /\ header > Len(auth.authHeaders)
           \/ /\ header <= Len(auth.authHeaders)
              /\ LET h == auth.authHeaders[header]
                 IN  \/ h.transform = "cut" /\ key > HeaderValue(h.header).layers
                     \/ BodyFails(h.method)
        /\ \A i \in 1..config :
            LET c == authConfigs[i]
            IN  /\ ~BasicMatches(c)
                /\ ~QueryMatches(c)
                /\ \A h \in DOMAIN c.authHeaders : \A k \in DOMAIN c.apiKeys :
                        i < config \/ h < header \/ (h = header /\ k < key) => ~IsFound(c, h, k)

\* Who is let in on the route of a plugin with a list of its own is let in by one of
\* its configurations, whatever those of its listener say; nobody has to authenticate
\* if that list is empty ("No, this is not a bug"); and a plugin without a list is not
\* less protected than its listener.
OwnListDecides ==
    /\ route.own = <<>> => pc # "401"
    /\ route.own \notin {None, <<>>} /\ Authenticated =>
            \E i \in DOMAIN route.own : LetsIn(route.own[i])
    /\ route.own = None /\ route.listener # <<>> /\ Authenticated =>
            \E i \in DOMAIN route.listener : LetsIn(route.listener[i])

\* The argument n is there with one of the values.
IsGiven(n, values) == n \in DOMAIN args /\ args[n] \in values

\* What the listener is given: for a name in the query its last value (or all the
\* values of the name it lists), else what the body says, whoever has read it
\* before, be it an object or an array, else the request, else the path.
ArgumentsAreTheRequests ==
    pc = "handle" =>
        LET q == request.query
            b == request.body
            bodyCounts == /\ request.length > 0 /\ b.kind = "object"
                          /\ request.type \in Forms => ~request.broken
                          /\ request.type = "form" => request.method \in {"POST", "PUT", "PATCH"}
            bodyLists == request.length > 0 /\ b.kind = "array" /\ request.type \notin Forms
            hidden == IF route.kind = "schedule" THEN {TimeKey} ELSE {}
            Listed(n) == {<<"all", q[m]>> : m \in {l \in DOMAIN q : ListName(l) = n}}
            \* Where the query does not say more, n has this value.
            Otherwise(n, v) == n \notin DOMAIN q \cup hidden => IsGiven(n, {v} \cup Listed(n))
        IN  /\ hidden \cap DOMAIN args = {}
            /\ \A n \in DOMAIN q \ hidden : IsGiven(n, {<<"one", Last(q[n])>>} \cup Listed(n))
            /\ bodyCounts => \A n \in DOMAIN b.fields : Otherwise(n, b.fields[n])
            /\ bodyLists => /\ \A i \in DOMAIN b.elements : Otherwise(Index(i), b.elements[i])
                            /\ Otherwise(PayloadLength, <<"length", Len(b.elements)>>)
            /\ ~bodyCounts => Otherwise(RequestKey, <<"request", request.method>>)
            /\ \A n \in DOMAIN request.params \ hidden : n \in DOMAIN args
=============================================================================
