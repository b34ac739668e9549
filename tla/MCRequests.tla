----------------------------- MODULE MCRequests -----------------------------
(***************************************************************************)
(* The routes and the requests that TLC considers. Two keys, one   *)
(* of them empty in some; a listener with one configuration of each kind   *)
(* or two of them in either order; plugins without, with an empty and with *)
(* their own list.                                                         *)
(***************************************************************************)
EXTENDS Requests

Auth(basic, user, query, headers) ==
    [apiKeys |-> <<"k1", "k2">>, basicAuth |-> basic, basicAuthUser |-> user,
     queryAuth |-> query, queryAuthKey |-> None, authHeaders |-> headers]
AuthHeader(name, method, transform) ==
    [header |-> name, method |-> method, transform |-> transform]

ByBasic == Auth(TRUE, None, FALSE, <<>>)
ByUser == [Auth(TRUE, "user", FALSE, <<>>) EXCEPT !.apiKeys = <<"k2">>]
ByQuery == Auth(FALSE, None, TRUE, <<>>)
ByHeader(method, transform) ==
    Auth(FALSE, None, FALSE, <<AuthHeader("other", "", None), AuthHeader("x", method, transform)>>)
Hashed == ByHeader("hmac-sha256", "trim")

\* The second key is that of an environment variable that is not set.
Unset(c) == [c EXCEPT !.apiKeys = <<"k1", "">>]

AuthLists ==
    {<<>>, <<ByBasic>>, <<ByQuery, ByUser>>, <<ByUser, Hashed>>, <<Hashed, ByQuery>>}
    \cup {<<ByHeader(m, t)>> : m \in {"", "hmac-sha256"}, t \in {None, "trim", "decode"}}
    \cup {<<ByHeader("", "cut"), ByBasic>>, <<ByBasic, ByHeader("", "cut")>>}
    \cup {<<Unset(c)>> : c \in {ByBasic, ByQuery, Hashed, ByHeader("", "decode")}}

MCRoutes ==
    [kind : {"listener"}, own : {None}, listener : AuthLists]
    \cup [kind : {"schedule"}, own : {None, <<>>, <<Hashed>>}, listener : {<<ByBasic>>}]

Object(id, fields) == [id |-> id, kind |-> "object", fields |-> fields]
Body == Object("p", <<"a">> :> <<"one", "x">> @@ <<"_query_", "a">> :> <<"one", "y">>)
Sized(method, length, type, content) ==
    [method |-> method, length |-> length, type |-> type, body |-> content, broken |-> FALSE]
Nothing == Object("nothing", [n \in {} |-> None])

Array == [id |-> "p", kind |-> "array", elements |-> <<<<"one", "x">>>>]
Malformed == [id |-> "p", kind |-> "malformed"]

Whole ==
    {Sized("GET", 0, "", Nothing), Sized("POST", -1, "json", Body)}
    \cup {Sized("POST", 1, t, Body) : t \in {"json", "yaml", "form", "multipart", "image"}}
    \cup {Sized("GET", 1, "form", Body), Sized("PUT", 1, "form", Body),
          Sized("POST", 1, "json", Array), Sized("POST", 1, "json", Malformed)}

\* What is left of a body may still be an object, in YAML more easily than in JSON.
Bodies ==
    Whole \cup {[b EXCEPT !.broken = TRUE] :
                    b \in {w \in Whole : w.body = Malformed \/ w.type \in {"yaml", "multipart"}}}

Layered(text, n) == [text |-> text, layers |-> n]
NoHeaders == [h \in {} |-> None]
Headers ==
    {NoHeaders}
    \cup {"x" :> Layered(<<k>>, n) : k \in {"k1", "k2", ""}, n \in 0..2}
    \cup {"x" :> Layered(<<"hmac", p, k>>, 1) : p \in {"p", "nothing"}, k \in {"k2", ""}}

Queries ==
    {[n \in {} |-> None],
     <<"a">> :> <<"1", "2">> @@ <<"_query_", "a">> :> <<"3">>,
     <<"__qvApiKey">> :> <<"k1", "k2">>,
     <<"__qvApiKey">> :> <<"">>}

Credentials ==
    {[basic |-> None, headers |-> h] : h \in Headers}
    \cup {[basic |-> [user |-> u, password |-> k], headers |-> NoHeaders] :
            u \in {"qv", "user"}, k \in {"k1", "k2", "other", ""}}

Times == <<"a">> :> <<"one", "path">> @@ TimeKey :> <<"one", "time">>
Request(b, c, q, t) == b @@ c @@ [query |-> q, timeParses |-> t, params |-> Times]

\* Every credential with a body that is hashed, every body with a few credentials.
MCIncoming ==
    {Request(Sized("POST", 1, "json", Body), c, q, TRUE) : c \in Credentials, q \in Queries}
    \cup {Request(b, c, q, TRUE) : b \in Bodies, q \in Queries,
            c \in {d \in Credentials : IF d.basic # None THEN d.basic.password = "k2"
                       ELSE "x" \in DOMAIN d.headers /\ d.headers["x"].text[1] = "hmac"}}
    \cup {Request(b, [basic |-> None, headers |-> NoHeaders], [n \in {} |-> None], FALSE) :
            b \in Bodies}
=============================================================================
