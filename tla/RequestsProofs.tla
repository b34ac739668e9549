--------------------------- MODULE RequestsProofs ----------------------------
(***************************************************************************)
(* What Requests guarantees for any routes and requests: who is let in     *)
(* carries a key, and who is refused has had everything tried that comes   *)
(* before the place where verifyAuth gave up.                              *)
(***************************************************************************)
EXTENDS Requests, TLAPS

-----------------------------------------------------------------------------
(* The inductive invariant.                                                *)

Searching == {"basic", "query", "header", "key"}
Refused == "401"

\* The search is at a configuration and at a header that exist.
PlaceInv ==
    /\ route \in Routes /\ request \in Incoming
    /\ pc \in Searching \cup {"enter", "args", "handle", "400", Refused}
    /\ config \in Nat \ {0} /\ header \in Nat \ {0} /\ key \in Nat \ {0}
    /\ pc = "enter" => config = 1
    /\ pc \in Searching \cup {Refused} => config \in DOMAIN authConfigs
    /\ pc = "key" => header \in DOMAIN auth.authHeaders

IsValue(v) == v = [text |-> v.text, layers |-> v.layers] /\ v.layers \in Nat

\* A key sees what the transformations for the keys before it have left of the header;
\* one that cuts has not failed for any of them.
ValueInv ==
    pc = "key" =>
        LET t == auth.authHeaders[header].transform
            own == HeaderValue(auth.authHeaders[header].header)
        IN  /\ value = Transformed(t, own, key - 1)
            /\ t = "cut" => key <= own.layers + 1

\* No key among the first so many of a header, and no header among the first so many
\* of a configuration, has matched.
NoKeyOf(c, h, keys) == \A k \in DOMAIN c.apiKeys : k < keys => ~IsFound(c, h, k)
NoHeaderOf(c, headers) ==
    \A h \in DOMAIN c.authHeaders : h < headers => \A k \in DOMAIN c.apiKeys : ~IsFound(c, h, k)

NothingIn(c) ==
    ~BasicMatches(c) /\ ~QueryMatches(c) /\ NoHeaderOf(c, Len(c.authHeaders) + 1)

TriedInv ==
    pc \in Searching \cup {Refused} =>
        /\ \A i \in DOMAIN authConfigs : i < config => NothingIn(authConfigs[i])
        /\ pc # "basic" => ~BasicMatches(auth)
        /\ pc \notin {"basic", "query"} => ~QueryMatches(auth) /\ NoHeaderOf(auth, header)
        /\ pc = "key" => NoKeyOf(auth, header, key)
        /\ pc = Refused => header > Len(auth.authHeaders) \/ NoKeyOf(auth, header, key)

\* The search has ended after the last header of the last configuration, at a transform
\* that fails, or at a body that cannot be read.
EndInv ==
    pc = Refused =>
        \/ config = Len(authConfigs) /\ header > Len(auth.authHeaders)
        \/ /\ header <= Len(auth.authHeaders)
           /\ LET h == auth.authHeaders[header]
              IN  \/ h.transform = "cut" /\ key > HeaderValue(h.header).layers
                  \/ BodyFails(h.method)

\* The body is still there to be read, and the arguments are what was collected from
\* a body that could be read.
ArgsInv ==
    /\ body = request.body
    /\ pc # "handle" => args = NoArgs
    /\ pc = "handle" =>
            /\ ~Unreadable
            /\ \E listWins \in SUBSET DOMAIN request.query : args = Kept(Collected(listWins))

IInv ==
    /\ PlaceInv
    /\ ValueInv
    /\ TriedInv
    /\ EndInv
    /\ ArgsInv
    /\ TypeOK
    /\ AcceptedRequestsHoldAKey
-----------------------------------------------------------------------------
(* Lemmas.                                                                 *)

LEMMA Shapes ==
    ASSUME PlaceInv
    PROVE  /\ route.own = None \/ route.own \in Seq(AuthConfigs)
           /\ authConfigs \in Seq(AuthConfigs)
           /\ authConfigs # <<>> => 1 \in DOMAIN authConfigs
           /\ request.basic # None => request.basic \in [user : STRING, password : STRING]
           /\ \A h \in DOMAIN request.headers : IsValue(request.headers[h])
           /\ \A n \in DOMAIN request.query : request.query[n] \in Seq(STRING) \ {<<>>}
BY ShapesAssumption DEF ShapesAssumption, PlaceInv, authConfigs, IsValue

LEMMA ShapeOfAuth ==
    ASSUME PlaceInv, NEW i \in DOMAIN authConfigs
    PROVE  /\ authConfigs[i] \in AuthConfigs
           /\ authConfigs[i].authHeaders \in Seq(AuthHeaders)
           /\ authConfigs[i].apiKeys \in Seq(STRING \ {"nonsense"})
           /\ \A h \in DOMAIN authConfigs[i].authHeaders :
                    authConfigs[i].authHeaders[h] \in AuthHeaders
<1>1. authConfigs[i] \in AuthConfigs
    BY Shapes
<1>2. /\ authConfigs[i].authHeaders \in Seq(AuthHeaders)
      /\ authConfigs[i].apiKeys \in Seq(STRING \ {"nonsense"})
    BY <1>1 DEF AuthConfigs
<1>3. \A h \in DOMAIN authConfigs[i].authHeaders : authConfigs[i].authHeaders[h] \in AuthHeaders
    BY <1>2
<1> QED BY <1>1, <1>2, <1>3

LEMMA ShapeOfHeader ==
    ASSUME PlaceInv, NEW h
    PROVE  IsValue(HeaderValue(h))
BY Shapes DEF HeaderValue, Empty, Plain, IsValue

\* One transformation after k others makes k + 1 of them.
LEMMA OneMore ==
    ASSUME NEW t \in {None, "trim", "decode", "cut"}, NEW v, IsValue(v), NEW k \in Nat
    PROVE  Transform(t, Transformed(t, v, k)) = Transformed(t, v, k + 1)
<1> DEFINE u == Transformed(t, v, k)
<1>0. /\ None # "trim" /\ None # "decode" /\ None # "cut"
      /\ k + 1 # 0 /\ v.layers \in Nat /\ v = [text |-> v.text, layers |-> v.layers]
    BY ShapesAssumption DEF ShapesAssumption, IsValue
<1>1. CASE t = None
    BY <1>0, <1>1 DEF Transform, Transformed
<1>2. CASE t = "trim"
    <2>1. u.text = v.text
        BY <1>0, <1>2 DEF Transformed, Plain
    <2> QED BY <1>0, <1>2, <2>1 DEF Transform, Transformed
<1>3. CASE t \in {"decode", "cut"}
    <2>1. /\ t # None /\ t # "trim"
          /\ Transform(t, u) = IF u.layers > 0 THEN [u EXCEPT !.layers = @ - 1]
                                ELSE IF u = Empty THEN Empty ELSE Nonsense
        BY <1>0, <1>3 DEF Transform
    <2>2. /\ Nonsense.layers = 0 /\ Empty.layers = 0 /\ Empty = Plain(Empty.text)
        BY DEF Nonsense, Empty, Plain
    <2>3. Nonsense # Empty
        <3>1. Nonsense.text[1] = "nonsense" /\ Empty.text[1] = ""
            BY DEF Nonsense, Empty, Plain
        <3> QED BY <3>1
    <2>4. CASE k < v.layers
        <3>1. u = [text |-> v.text, layers |-> v.layers - k]
            BY <1>0, <2>1, <2>4 DEF Transformed
        <3>2. Transformed(t, v, k + 1) = [text |-> v.text, layers |-> v.layers - (k + 1)]
            BY <1>0, <2>1, <2>4 DEF Transformed
        <3> QED BY <1>0, <2>1, <2>4, <3>1, <3>2
    <2>5. CASE k = v.layers
        <3>1. u = Plain(v.text)
            BY <1>0, <2>1, <2>5 DEF Transformed, Plain
        <3>2. Transformed(t, v, k + 1) = IF v.text = Empty.text THEN Empty ELSE Nonsense
            BY <1>0, <2>1, <2>5 DEF Transformed
        <3>3. Plain(v.text).layers = 0 /\ Plain(v.text).text = v.text
            BY DEF Plain
        <3> QED BY <2>1, <2>2, <3>1, <3>2, <3>3
    <2>6. CASE k > v.layers
        <3>1. u = IF v.text = Empty.text THEN Empty ELSE Nonsense
            BY <1>0, <2>1, <2>6 DEF Transformed
        <3>2. Transformed(t, v, k + 1) = IF v.text = Empty.text THEN Empty ELSE Nonsense
            BY <1>0, <2>1, <2>6 DEF Transformed
        <3> QED BY <2>1, <2>2, <2>3, <3>1, <3>2
    <2> QED BY <1>0, <2>4, <2>5, <2>6
<1> QED BY <1>1, <1>2, <1>3

\* The text of a header stays or is spoilt.
LEMMA TextStays ==
    ASSUME NEW t, NEW v, IsValue(v), NEW k \in Nat
    PROVE  Transformed(t, v, k).text \in {v.text, Nonsense.text}
<1>1. /\ [v EXCEPT !.layers = @ - k].text = v.text
      /\ Plain(v.text).text = v.text /\ Empty.text = <<"">>
    BY DEF IsValue, Plain, Empty
<1> QED BY <1>1 DEF Transformed

\* Where nothing is left of the layers, the next cut fails.
LEMMA CutFails ==
    ASSUME NEW v, IsValue(v), NEW k \in Nat, k <= v.layers
    PROVE  TransformFails("cut", Transformed("cut", v, k)) <=> k = v.layers
<1>1. None # "cut"
    BY ShapesAssumption DEF ShapesAssumption
<1>2. Transformed("cut", v, k) = [text |-> v.text, layers |-> v.layers - k]
    BY <1>1 DEF Transformed, IsValue
<1> QED BY <1>2 DEF TransformFails, IsValue

\* No key gives the text of a value that a transform has spoilt.
LEMMA ExpectedIsNotNonsense ==
    ASSUME NEW method, NEW payload, NEW k \in STRING \ {"nonsense"}
    PROVE  ExpectedOf(method, payload, k).text # Nonsense.text
<1>1. <<"hmac", payload, k>> # <<"nonsense">>
    <2>1. Len(<<"hmac", payload, k>>) = 3 /\ Len(<<"nonsense">>) = 1
        OBVIOUS
    <2> QED BY <2>1
<1>2. <<k>> # <<"nonsense">>
    <2>1. <<k>>[1] = k /\ <<"nonsense">>[1] = "nonsense"
        OBVIOUS
    <2> QED BY <2>1
<1> QED BY <1>1, <1>2 DEF ExpectedOf, HMAC, Plain, Nonsense

\* The credentials that verifyAuth accepts are those the property speaks of.
LEMMA BasicLetsIn ==
    ASSUME PlaceInv, NEW c, BasicMatches(c)
    PROVE  LetsIn(c)
<1>1. request.basic = [user |-> User(c), password |-> request.basic.password]
    BY Shapes DEF BasicMatches
<1> QED BY <1>1 DEF BasicMatches, HoldsAKey, LetsIn

LEMMA QueryLetsIn ==
    ASSUME NEW c, QueryMatches(c)
    PROVE  LetsIn(c)
BY DEF QueryMatches, QueryValue, HoldsAKey, AsksForNothing, LetsIn

\* A header with the text that a key makes lets in; if it is not there, the key is empty.
LEMMA HeaderLetsIn ==
    ASSUME NEW c, NEW h \in Range(c.authHeaders), NEW k \in KeysOf(c),
           h.method \in {"", "hmac-sha256"},
           HeaderValue(h.header).text = ExpectedOf(h.method, request.body.id, k).text
    PROVE  LetsIn(c)
<1>1. CASE h.header \in DOMAIN request.headers
    BY <1>1 DEF HeaderValue, HoldsAKey, LetsIn
<1>2. CASE h.header \notin DOMAIN request.headers
    <2>1. ExpectedOf(h.method, request.body.id, k).text = <<"">>
        BY <1>2 DEF HeaderValue, Empty, Plain
    <2>2. CASE h.method = "hmac-sha256"
        <3>1. <<"hmac", request.body.id, k>> = <<"">>
            BY <2>1, <2>2 DEF ExpectedOf, HMAC, Plain
        <3>2. Len(<<"hmac", request.body.id, k>>) = 3 /\ Len(<<"">>) = 1
            OBVIOUS
        <3> QED BY <3>1, <3>2
    <2>3. CASE h.method # "hmac-sha256"
        <3>1. <<k>> = <<"">>
            BY <2>1, <2>3 DEF ExpectedOf, Plain
        <3>2. k = ""
            BY <3>1
        <3> QED BY <1>2, <3>2, <2>3 DEF AsksForNothing, LetsIn
    <2> QED BY <2>2, <2>3
<1> QED BY <1>1, <1>2

-----------------------------------------------------------------------------
(* The arguments.                                                          *)

\* A name is found again behind the prefix of its list.
LEMMA ListNameIsPlain ==
    ASSUME NEW n \in Seq(STRING)
    PROVE  Tail(ListName(n)) = n
<1> DEFINE p == <<"_query_">>
           S == STRING \cup {"_query_"}
<1>1. p \in Seq(S) /\ Len(p) = 1 /\ n \in Seq(S)
    OBVIOUS
<1>2. /\ p \o n \in Seq(S) /\ Len(p \o n) = 1 + Len(n)
      /\ \A i \in 1..Len(n) : (p \o n)[i + 1] = n[i]
    BY <1>1
<1>3. /\ Tail(p \o n) \in Seq(S) /\ Len(Tail(p \o n)) = Len(n)
      /\ \A i \in 1..Len(n) : Tail(p \o n)[i] = n[i]
    BY <1>2
<1>4. Tail(p \o n) = n
    BY <1>3
<1> QED BY <1>4 DEF ListName

\* The elements of an array are found under their indices.
LEMMA ElementsByIndex ==
    ASSUME NEW elements,
           \A i, j \in DOMAIN elements : Index(i) = Index(j) => i = j
    PROVE  /\ DOMAIN ElementArgs(elements) = {Index(i) : i \in DOMAIN elements}
           /\ \A i \in DOMAIN elements : ElementArgs(elements)[Index(i)] = elements[i]
<1>1. ASSUME NEW i \in DOMAIN elements PROVE ElementArgs(elements)[Index(i)] = elements[i]
    <2>1. (CHOOSE j \in DOMAIN elements : Index(j) = Index(i)) = i
        OBVIOUS
    <2> QED BY <2>1 DEF ElementArgs
<1> QED BY <1>1 DEF ElementArgs

\* What the query says of a name: its last value, or all values of the name it lists.
LEMMA QueryArgsAre ==
    ASSUME PlaceInv, NEW listWins
    PROVE  LET q == request.query
               listed == {ListName(m) : m \in DOMAIN q}
               Listed(n) == {<<"all", q[m]>> : m \in {l \in DOMAIN q : ListName(l) = n}}
           IN  /\ DOMAIN QueryArgs(listWins) = listed \cup DOMAIN q
               /\ \A n \in DOMAIN q :
                    QueryArgs(listWins)[n] \in {<<"one", Last(q[n])>>} \cup Listed(n)
               /\ \A n \in listed \ DOMAIN q : QueryArgs(listWins)[n] \in Listed(n)
<1> DEFINE q == request.query
           listed == {ListName(m) : m \in DOMAIN q}
           Listed(n) == {<<"all", q[m]>> : m \in {l \in DOMAIN q : ListName(l) = n}}
<1>1. \A m \in DOMAIN q : Tail(ListName(m)) = m
    BY ShapesAssumption, ListNameIsPlain DEF ShapesAssumption, PlaceInv
<1>2. \A n \in listed : <<"all", q[Tail(n)]>> \in Listed(n)
    BY <1>1
<1> HIDE DEF Listed
<1>3. /\ DOMAIN QueryArgs(listWins) = listed \cup DOMAIN q
      /\ \A n \in DOMAIN q : QueryArgs(listWins)[n] \in {<<"one", Last(q[n])>>} \cup Listed(n)
      /\ \A n \in listed \ DOMAIN q : QueryArgs(listWins)[n] \in Listed(n)
    BY <1>2 DEF QueryArgs
<1> QED BY <1>3 DEF Listed

\* What the path, the request and the body give under a name stays unless the query
\* has the name, or lists it.
Below == Onto(BodyArgs, Onto(Single(RequestKey, <<"request", request.method>>), request.params))

LEMMA CollectedKeeps ==
    ASSUME PlaceInv, NEW listWins, NEW n, n \notin DOMAIN request.query, n \in DOMAIN Below
    PROVE  LET q == request.query
               Listed == {<<"all", q[m]>> : m \in {l \in DOMAIN q : ListName(l) = n}}
           IN  /\ n \in DOMAIN Collected(listWins)
               /\ Collected(listWins)[n] \in {Below[n]} \cup Listed
<1> DEFINE Listed == {<<"all", request.query[m]>> :
                            m \in {l \in DOMAIN request.query : ListName(l) = n}}
<1>1. Collected(listWins) = Onto(QueryArgs(listWins), Below)
    BY DEF Collected, Below
<1>2. n \in DOMAIN QueryArgs(listWins) => QueryArgs(listWins)[n] \in Listed
    BY QueryArgsAre
<1> QED BY <1>1, <1>2 DEF Onto

-----------------------------------------------------------------------------
(* The steps.                                                              *)

LEMMA InitInv == Init => IInv
<1> SUFFICES ASSUME Init PROVE IInv
    OBVIOUS
<1> QED
    BY Shapes
       DEF Init, IInv, PlaceInv, ValueInv, TriedInv, EndInv, ArgsInv, TypeOK,
           AcceptedRequestsHoldAKey, Authenticated, Searching, Refused

\* Nothing that the search is about changes with a step.
LEMMA SameRequest ==
    ASSUME Next
    PROVE  route' = route /\ request' = request
BY DEF Next, Enter, Basic, Query, BeginHeader, TryKey, TransformError, BodyError, NextHeader,
       NextConfig, ExtractFails, Extract, Ends

LEMMA PlaceStep ==
    ASSUME PlaceInv, Next
    PROVE  PlaceInv'
<1> USE DEF Searching, Refused
<1>1. authConfigs' = authConfigs /\ authConfigs \in Seq(AuthConfigs)
    BY SameRequest, Shapes DEF authConfigs
<1>2. CASE Enter
    BY <1>1, <1>2, Shapes DEF PlaceInv, Enter, Ends
<1>3. CASE Basic \/ Query \/ TransformError \/ BodyError \/ ExtractFails \/ Extract
    BY <1>1, <1>3 DEF PlaceInv, Basic, Query, TransformError, BodyError, ExtractFails, Extract, Ends
<1>4. CASE BeginHeader
    <2>1. header \in DOMAIN auth.authHeaders
        BY <1>4, ShapeOfAuth DEF PlaceInv, BeginHeader, auth
    <2> QED BY <1>1, <1>4, <2>1 DEF PlaceInv, BeginHeader, auth
<1>5. CASE TryKey
    BY <1>1, <1>5 DEF PlaceInv, TryKey, auth
<1>6. CASE NextHeader
    BY <1>1, <1>6 DEF PlaceInv, NextHeader
<1>7. CASE NextConfig
    BY <1>1, <1>7 DEF PlaceInv, NextConfig, Ends
<1> QED BY <1>2, <1>3, <1>4, <1>5, <1>6, <1>7 DEF Next

\* Where the search stands in the headers.
LEMMA AtAKey ==
    ASSUME PlaceInv, pc = "key", key <= Len(auth.apiKeys)
    PROVE  LET h == auth.authHeaders[header]
           IN  /\ h \in Range(auth.authHeaders) /\ h \in AuthHeaders
               /\ h.transform \in {None, "trim", "decode", "cut"}
               /\ h.method \in {"", "hmac-sha256"}
               /\ key \in DOMAIN auth.apiKeys /\ key \in Nat \ {0} /\ key - 1 \in Nat
               /\ auth.apiKeys[key] \in KeysOf(auth) /\ auth.apiKeys[key] \in STRING \ {"nonsense"}
               /\ IsValue(HeaderValue(h.header))
<1>1. /\ config \in DOMAIN authConfigs /\ header \in DOMAIN auth.authHeaders
      /\ key \in Nat \ {0}
    BY DEF PlaceInv, Searching
<1>2. /\ auth.authHeaders[header] \in AuthHeaders
      /\ auth.apiKeys \in Seq(STRING \ {"nonsense"})
    BY <1>1, ShapeOfAuth DEF auth
<1>3. /\ auth.authHeaders[header].transform \in {None, "trim", "decode", "cut"}
      /\ auth.authHeaders[header].method \in {"", "hmac-sha256"}
    BY <1>2 DEF AuthHeaders
<1>4. key \in DOMAIN auth.apiKeys /\ key - 1 \in Nat
    BY <1>1, <1>2
<1>5. auth.apiKeys[key] \in KeysOf(auth) /\ auth.apiKeys[key] \in STRING \ {"nonsense"}
    BY <1>2, <1>4 DEF KeysOf, Range
<1>6. auth.authHeaders[header] \in Range(auth.authHeaders)
    BY <1>1 DEF Range
<1> QED BY <1>1, <1>2, <1>3, <1>4, <1>5, <1>6, ShapeOfHeader

\* One key of a header: what a failed comparison says of it, and what a match says.
LEMMA KeyTried ==
    ASSUME PlaceInv, ValueInv, TryKey
    PROVE  LET h == auth.authHeaders[header]
               own == HeaderValue(h.header)
           IN  /\ value' = Transformed(h.transform, own, key)
               /\ h.transform = "cut" => key <= own.layers
               /\ pc' = "args" => LetsIn(auth)
               /\ pc' = "key" => ~IsFound(auth, header, key)
<1> DEFINE h == auth.authHeaders[header]
           own == HeaderValue(h.header)
           expected == ExpectedOf(h.method, request.body.id, auth.apiKeys[key])
<1>0. key \in Nat
    BY DEF PlaceInv
<1>1. /\ pc = "key" /\ key <= Len(auth.apiKeys)
      /\ value' = Transform(h.transform, value)
      /\ ~TransformFails(h.transform, value) /\ ~BodyFails(h.method)
      /\ pc' = IF value' = expected THEN "args" ELSE "key"
    BY DEF TryKey
<1>2. /\ h \in Range(auth.authHeaders)
      /\ h.transform \in {None, "trim", "decode", "cut"} /\ h.method \in {"", "hmac-sha256"}
      /\ key \in Nat /\ key - 1 \in Nat
      /\ auth.apiKeys[key] \in KeysOf(auth) /\ auth.apiKeys[key] \in STRING \ {"nonsense"}
      /\ IsValue(own)
    BY <1>1, AtAKey
<1>3. /\ value = Transformed(h.transform, own, key - 1)
      /\ h.transform = "cut" => key <= own.layers + 1
    BY <1>1 DEF ValueInv
<1>4. value' = Transformed(h.transform, own, key)
    <2>1. Transform(h.transform, Transformed(h.transform, own, key - 1))
            = Transformed(h.transform, own, (key - 1) + 1)
        <3>1. h.transform \in {None, "trim", "decode", "cut"} /\ IsValue(own) /\ key - 1 \in Nat
            BY <1>2
        <3> HIDE DEF h, own
        <3> QED BY <3>1, OneMore
    <2>2. (key - 1) + 1 = key
        BY <1>0
    <2> QED BY <1>1, <1>3, <2>1, <2>2
<1>5. ASSUME h.transform = "cut" PROVE key <= own.layers
    <2> HIDE DEF own
    <2>1. own.layers \in Nat /\ key - 1 <= own.layers
        <3>1. own.layers \in Nat
            BY <1>2 DEF IsValue
        <3>2. key <= own.layers + 1
            BY <1>3, <1>5
        <3> QED BY <1>0, <3>1, <3>2
    <2>2. TransformFails("cut", Transformed("cut", own, key - 1)) <=> key - 1 = own.layers
        BY <1>2, <2>1, CutFails
    <2>3. key - 1 # own.layers
        BY <1>1, <1>3, <1>5, <2>2
    <2> QED BY <1>0, <2>1, <2>3
<1>6. ASSUME value' = expected PROVE LetsIn(auth)
    <2>1. expected.text # Nonsense.text
        BY <1>2, ExpectedIsNotNonsense
    <2>2. Transformed(h.transform, own, key).text \in {own.text, Nonsense.text}
        BY <1>2, TextStays
    <2>3. own.text = expected.text
        BY <1>4, <1>6, <2>1, <2>2
    <2> QED BY <1>2, <2>3, HeaderLetsIn
<1>7. ASSUME value' # expected PROVE ~IsFound(auth, header, key)
    BY <1>4, <1>7 DEF IsFound
<1> QED BY <1>1, <1>4, <1>5, <1>6, <1>7

LEMMA ValueStep ==
    ASSUME PlaceInv, ValueInv, Next
    PROVE  ValueInv'
<1>1. authConfigs' = authConfigs /\ route' = route /\ request' = request
    BY SameRequest DEF authConfigs
<1>2. \A x : HeaderValue(x)' = HeaderValue(x)
    BY <1>1 DEF HeaderValue
<1>3. CASE BeginHeader
    <2>1. auth' = auth /\ header' = header /\ key' = 1
        BY <1>1, <1>3 DEF BeginHeader, auth
    <2> DEFINE h == auth.authHeaders[header]
    <2>2. IsValue(HeaderValue(h.header))
        BY ShapeOfHeader
    <2>3. /\ value' = HeaderValue(h.header)
          /\ HeaderValue(h.header).layers \in Nat
          /\ Transformed(h.transform, HeaderValue(h.header), 1 - 1) = HeaderValue(h.header)
        BY <1>3, <2>2 DEF BeginHeader, Transformed, IsValue
    <2>4. auth'.authHeaders[header'] = h /\ HeaderValue(h.header)' = HeaderValue(h.header)
        BY <1>1, <2>1 DEF HeaderValue
    <2> QED BY <2>1, <2>3, <2>4 DEF ValueInv
<1>4. CASE TryKey
    <2>1. auth' = auth /\ header' = header /\ (pc' = "key" => key' = key + 1) /\ key \in Nat \ {0}
        BY <1>1, <1>4 DEF TryKey, auth, PlaceInv
    <2> DEFINE h == auth.authHeaders[header]
               own == HeaderValue(h.header)
    <2>2. auth'.authHeaders[header'] = h /\ own' = own
        BY <1>1, <2>1 DEF HeaderValue
    <2>3. IsValue(own)
        BY ShapeOfHeader
    <2>4. /\ value' = Transformed(h.transform, own, key)
          /\ h.transform = "cut" => key <= own.layers
        BY <1>4, KeyTried
    <2>5. ASSUME pc' = "key"
          PROVE  /\ value' = Transformed(h.transform, own, key' - 1)
                 /\ h.transform = "cut" => key' <= own.layers + 1
        BY <2>1, <2>3, <2>4, <2>5 DEF IsValue
    <2> QED BY <2>2, <2>5 DEF ValueInv
<1>5. CASE ~(BeginHeader \/ TryKey)
    BY <1>5 DEF Next, ValueInv, Enter, Basic, Query, TransformError, BodyError, NextHeader,
       NextConfig, ExtractFails, Extract, Ends
<1> QED BY <1>3, <1>4, <1>5

\* What has been tried stays tried.
LEMMA SameMatches ==
    ASSUME route' = route, request' = request, NEW c
    PROVE  /\ BasicMatches(c)' = BasicMatches(c)
           /\ QueryMatches(c)' = QueryMatches(c)
           /\ LetsIn(c)' = LetsIn(c)
           /\ \A h, k : IsFound(c, h, k)' = IsFound(c, h, k)
BY DEF BasicMatches, QueryMatches, QueryValue, LetsIn, HoldsAKey, AsksForNothing, IsFound,
       BodyFails, HeaderValue

LEMMA TriedStep ==
    ASSUME PlaceInv, ValueInv, TriedInv, Next
    PROVE  TriedInv'
<1> USE DEF Searching, Refused
<1>1. authConfigs' = authConfigs /\ authConfigs \in Seq(AuthConfigs)
    BY SameRequest, Shapes DEF authConfigs
<1>2. \A c : /\ NothingIn(c)' = NothingIn(c)
             /\ BasicMatches(c)' = BasicMatches(c) /\ QueryMatches(c)' = QueryMatches(c)
             /\ \A n : NoHeaderOf(c, n)' = NoHeaderOf(c, n)
             /\ \A h, n : NoKeyOf(c, h, n)' = NoKeyOf(c, h, n)
    BY SameRequest, SameMatches DEF NothingIn, NoHeaderOf, NoKeyOf
<1>3. config' = config => auth' = auth
    BY <1>1 DEF auth
<1>4. CASE Enter
    BY <1>1, <1>2, <1>4 DEF TriedInv, PlaceInv, Enter, Ends
<1>5. CASE Basic
    BY <1>1, <1>2, <1>3, <1>5 DEF TriedInv, Basic, Ends
<1>6. CASE Query
    <2>1. NoHeaderOf(auth, 1)
        BY <1>6, ShapeOfAuth DEF Query, PlaceInv, NoHeaderOf, auth
    <2> QED BY <1>1, <1>2, <1>3, <1>6, <2>1 DEF TriedInv, Query, Ends
<1>7. CASE BeginHeader
    <2>1. NoKeyOf(auth, header, 1)
        BY <1>7, ShapeOfAuth DEF BeginHeader, PlaceInv, NoKeyOf, auth
    <2> QED BY <1>1, <1>2, <1>3, <1>7, <2>1 DEF TriedInv, BeginHeader
<1>8. CASE TryKey
    <2>1. pc' = "key" => NoKeyOf(auth, header, key + 1)
        BY <1>8, KeyTried, ShapeOfAuth DEF TryKey, TriedInv, PlaceInv, NoKeyOf, auth
    <2> QED BY <1>1, <1>2, <1>3, <1>8, <2>1 DEF TriedInv, TryKey
<1>9. CASE NextHeader
    <2>1. NoHeaderOf(auth, header + 1)
        BY <1>9, ShapeOfAuth DEF NextHeader, TriedInv, PlaceInv, NoHeaderOf, NoKeyOf, auth
    <2> QED BY <1>1, <1>2, <1>3, <1>9, <2>1 DEF TriedInv, NextHeader
<1>10. CASE NextConfig
    <2>1. NothingIn(auth)
        BY <1>10, ShapeOfAuth DEF NextConfig, TriedInv, PlaceInv, NothingIn, NoHeaderOf, auth
    <2>2. \A i \in DOMAIN authConfigs : i < config + 1 => NothingIn(authConfigs[i])
        BY <1>1, <1>10, <2>1 DEF NextConfig, TriedInv, PlaceInv, auth
    <2>3. CASE config = Len(authConfigs)
        BY <1>1, <1>2, <1>3, <1>10, <2>3 DEF NextConfig, TriedInv, Ends
    <2>4. CASE config # Len(authConfigs)
        BY <1>1, <1>2, <1>10, <2>2, <2>4 DEF NextConfig, TriedInv
    <2> QED BY <2>3, <2>4
<1>11. CASE TransformError \/ BodyError
    BY <1>1, <1>2, <1>3, <1>11 DEF TriedInv, TransformError, BodyError, Ends
<1>12. CASE ExtractFails \/ Extract
    BY <1>12 DEF TriedInv, ExtractFails, Extract, Ends
<1> QED BY <1>4, <1>5, <1>6, <1>7, <1>8, <1>9, <1>10, <1>11, <1>12 DEF Next

LEMMA EndStep ==
    ASSUME PlaceInv, ValueInv, EndInv, Next
    PROVE  EndInv'
<1>1. authConfigs' = authConfigs
    BY SameRequest DEF authConfigs
<1>2. CASE NextConfig
    BY <1>1, <1>2 DEF EndInv, NextConfig, Ends, auth, Refused
<1>3. CASE TransformError \/ BodyError
    <2> DEFINE h == auth.authHeaders[header]
               own == HeaderValue(h.header)
    <2>1. header <= Len(auth.authHeaders) /\ config \in DOMAIN authConfigs
        <3>1. config \in DOMAIN authConfigs /\ header \in DOMAIN auth.authHeaders
            BY <1>3 DEF TransformError, BodyError, PlaceInv, Searching
        <3>2. auth.authHeaders \in Seq(AuthHeaders)
            BY <3>1, ShapeOfAuth DEF auth
        <3> QED BY <3>1, <3>2
    <2>2. /\ pc = "key" /\ key <= Len(auth.apiKeys)
          /\ TransformFails(h.transform, value) \/ BodyFails(h.method)
        BY <1>3 DEF TransformError, BodyError
    <2>3. /\ header' = header /\ key' = key /\ auth' = auth /\ own' = own
          /\ BodyFails(h.method)' = BodyFails(h.method)
        BY <1>1, <1>3, SameRequest
           DEF TransformError, BodyError, Ends, auth, HeaderValue, BodyFails
    <2>4. ASSUME TransformFails(h.transform, value)
          PROVE  h.transform = "cut" /\ key > own.layers
        <3>1. h.transform = "cut" /\ TransformFails("cut", value)
            BY <2>4 DEF TransformFails
        <3>2. /\ IsValue(own) /\ own.layers \in Nat
              /\ key \in Nat \ {0} /\ key - 1 \in Nat
            BY <2>2, AtAKey DEF IsValue
        <3>3. value = Transformed("cut", own, key - 1) /\ key - 1 <= own.layers
            BY <2>2, <3>1, <3>2 DEF ValueInv
        <3>4. TransformFails("cut", Transformed("cut", own, key - 1)) <=> key - 1 = own.layers
            BY <3>2, <3>3, CutFails
        <3> QED BY <3>1, <3>2, <3>3, <3>4
    <2>5. /\ header <= Len(auth.authHeaders)
          /\ (h.transform = "cut" /\ key > own.layers) \/ BodyFails(h.method)
        BY <2>1, <2>2, <2>4
    <2>6. auth'.authHeaders[header'] = h
        BY <2>3
    <2>7. HeaderValue(auth.authHeaders[header].header)' = own
        BY <2>3
    <2>8. BodyFails(auth.authHeaders[header].method)' = BodyFails(h.method)
        BY <2>3
    <2>9. /\ header' <= Len(auth'.authHeaders)
          /\ \/ auth'.authHeaders[header'].transform = "cut"
                /\ key' > (HeaderValue(auth.authHeaders[header].header)').layers
             \/ BodyFails(auth.authHeaders[header].method)'
        BY <2>3, <2>5, <2>6, <2>7, <2>8
    <2> QED BY <2>9 DEF EndInv
<1>4. CASE ~(NextConfig \/ TransformError \/ BodyError)
    BY <1>4 DEF Next, EndInv, Enter, Basic, Query, BeginHeader, TryKey, NextHeader, ExtractFails,
       Extract, Ends, Refused
<1> QED BY <1>2, <1>3, <1>4

LEMMA AcceptedStep ==
    ASSUME PlaceInv, ValueInv, AcceptedRequestsHoldAKey, Next
    PROVE  AcceptedRequestsHoldAKey'
<1>1. authConfigs' = authConfigs
    BY SameRequest DEF authConfigs
<1>2. ASSUME Authenticated', authConfigs # <<>>
      PROVE  \E i \in DOMAIN authConfigs : LetsIn(authConfigs[i])
    <2>1. CASE Authenticated
        BY <1>2, <2>1 DEF AcceptedRequestsHoldAKey
    <2>2. CASE Basic
        BY <1>2, <2>2, BasicLetsIn
           DEF Basic, Ends, Authenticated, PlaceInv, Searching, auth
    <2>3. CASE Query
        BY <1>2, <2>3, QueryLetsIn
           DEF Query, Ends, Authenticated, PlaceInv, Searching, auth
    <2>4. CASE TryKey
        BY <1>2, <2>4, KeyTried DEF TryKey, Authenticated, PlaceInv, Searching, auth
    <2>5. CASE ~(Authenticated \/ Basic \/ Query \/ TryKey)
        BY <1>2, <2>5 DEF Next, Authenticated, Enter, BeginHeader, TransformError, BodyError,
           NextHeader, NextConfig, ExtractFails, Extract, Ends
    <2> QED BY <2>1, <2>2, <2>3, <2>4, <2>5
<1> QED BY <1>1, <1>2, SameRequest, SameMatches DEF AcceptedRequestsHoldAKey

LEMMA ArgsStep ==
    ASSUME ArgsInv, Next
    PROVE  ArgsInv'
<1>1. route' = route /\ request' = request /\ body' = body
    <2>1. CASE TryKey
        BY <2>1 DEF TryKey, BodyAfter
    <2>2. CASE ~TryKey
        BY <2>2 DEF Next, Enter, Basic, Query, BeginHeader, TransformError, BodyError, NextHeader,
           NextConfig, ExtractFails, Extract, Ends
    <2> QED BY <2>1, <2>2, SameRequest
<1>2. Unreadable' = Unreadable /\ \A w : Kept(Collected(w))' = Kept(Collected(w))
    BY <1>1 DEF Unreadable, HasBody, Kept, Collected, QueryArgs, BodyArgs, FormArgs
<1>3. CASE Extract
    BY <1>1, <1>2, <1>3 DEF ArgsInv, Extract
<1>4. CASE ~Extract
    <2>1. pc # "handle" /\ pc' # "handle" /\ args' = args
        BY <1>4 DEF Next, Enter, Basic, Query, BeginHeader, TryKey, TransformError, BodyError,
           NextHeader, NextConfig, ExtractFails, Ends
    <2> QED BY <1>1, <2>1 DEF ArgsInv, NoArgs
<1> QED BY <1>3, <1>4

LEMMA TypeStep ==
    ASSUME PlaceInv, ArgsInv, TypeOK, Next
    PROVE  TypeOK'
<1> USE DEF Searching, Refused
<1>1. authConfigs' = authConfigs /\ authConfigs \in Seq(AuthConfigs)
    BY SameRequest, Shapes DEF authConfigs
<1>2. config' = config => auth' = auth
    BY <1>1 DEF auth
<1>3. PlaceInv' /\ ArgsInv'
    BY PlaceStep, ArgsStep
<1>4. authConfigs' # <<>> => config' <= Len(authConfigs')
    BY <1>1, <1>3 DEF Next, TypeOK, PlaceInv, Enter, Basic, Query, BeginHeader, TryKey,
       TransformError, BodyError, NextHeader, NextConfig, ExtractFails, Extract, Ends
<1>5. ASSUME pc' = "header" PROVE header' <= Len(auth'.authHeaders) + 1
    <2>1. /\ auth \in AuthConfigs /\ auth.authHeaders \in Seq(AuthHeaders)
          /\ pc \in {"query", "key"} /\ (Query \/ NextHeader)
        BY <1>5, ShapeOfAuth DEF Next, PlaceInv, Enter, Basic, Query, BeginHeader, TryKey,
           TransformError, BodyError, NextHeader, NextConfig, ExtractFails, Extract, Ends, auth
    <2>2. CASE Query
        BY <1>2, <1>5, <2>1, <2>2 DEF Query, Ends
    <2>3. CASE NextHeader
        BY <1>2, <1>5, <2>1, <2>3 DEF NextHeader, TypeOK
    <2> QED BY <2>1, <2>2, <2>3
<1>6. ASSUME pc' = "key" PROVE header' <= Len(auth'.authHeaders) /\ key' <= Len(auth'.apiKeys) + 1
    <2>1. auth.apiKeys \in Seq(STRING \ {"nonsense"}) /\ (BeginHeader \/ TryKey)
        BY <1>6, ShapeOfAuth DEF Next, PlaceInv, Enter, Basic, Query, BeginHeader, TryKey,
           TransformError, BodyError, NextHeader, NextConfig, ExtractFails, Extract, Ends, auth
    <2>2. CASE BeginHeader
        BY <1>2, <1>6, <2>1, <2>2 DEF BeginHeader
    <2>3. CASE TryKey
        BY <1>2, <1>6, <2>1, <2>3 DEF TryKey, TypeOK
    <2> QED BY <2>1, <2>2, <2>3
<1> QED BY <1>3, <1>4, <1>5, <1>6, SameRequest DEF TypeOK, PlaceInv, ArgsInv

LEMMA StepInv == IInv /\ [Next]_vars => IInv'
<1> SUFFICES ASSUME IInv, [Next]_vars PROVE IInv'
    OBVIOUS
<1>1. CASE Next
    BY <1>1, PlaceStep, ValueStep, TriedStep, EndStep, ArgsStep, TypeStep, AcceptedStep DEF IInv
<1>2. CASE UNCHANGED vars
    <2>1. authConfigs' = authConfigs /\ auth' = auth
        BY <1>2 DEF vars, authConfigs, auth
    <2>2. PlaceInv' /\ ValueInv' /\ EndInv'
        BY <1>2, <2>1 DEF vars, IInv, PlaceInv, ValueInv, EndInv, HeaderValue, BodyFails
    <2>3. \A c : /\ NothingIn(c)' = NothingIn(c) /\ LetsIn(c)' = LetsIn(c)
                 /\ BasicMatches(c)' = BasicMatches(c) /\ QueryMatches(c)' = QueryMatches(c)
                 /\ \A n : NoHeaderOf(c, n)' = NoHeaderOf(c, n)
                 /\ \A h, n : NoKeyOf(c, h, n)' = NoKeyOf(c, h, n)
        BY <1>2, SameMatches DEF vars, NothingIn, NoHeaderOf, NoKeyOf
    <2>4. TriedInv' /\ AcceptedRequestsHoldAKey'
        BY <1>2, <2>1, <2>3
           DEF vars, IInv, TriedInv, AcceptedRequestsHoldAKey, Authenticated
    <2>5. Unreadable' = Unreadable /\ \A w : Kept(Collected(w))' = Kept(Collected(w))
        BY <1>2 DEF vars, Unreadable, HasBody, Kept, Collected, QueryArgs, BodyArgs, FormArgs
    <2>6. ArgsInv' /\ TypeOK'
        BY <1>2, <2>1, <2>5 DEF vars, IInv, ArgsInv, TypeOK, NoArgs
    <2> QED BY <2>2, <2>4, <2>6 DEF IInv
<1> QED BY <1>1, <1>2

-----------------------------------------------------------------------------
(* Theorems.                                                               *)

\* IInv holds in every reachable state, for all routes and requests of these shapes.
THEOREM Invariance == Spec => []IInv
BY InitInv, StepInv, PTL DEF Spec

\* The indices of verifyAuth stay within the lists they walk.
THEOREM TypeCorrect == Spec => []TypeOK
<1>1. IInv => TypeOK
    BY DEF IInv
<1> QED BY <1>1, Invariance, PTL

\* Whoever is let in on a route that has a list of auth configurations carries a key
\* of one of them in a place where that one allows it, or lacks what one with an empty
\* key looks for (verifyAuth).
THEOREM AcceptedHoldAKey == Spec => []AcceptedRequestsHoldAKey
<1>1. IInv => AcceptedRequestsHoldAKey
    BY DEF IInv
<1> QED BY <1>1, Invariance, PTL

\* A request is refused at the end of the lists, at a transform that fails, or at a
\* body that cannot be read, and nothing that comes before this place matches: no user,
\* no parameter, no key against a header as the keys before it have left it (verifyAuth).
THEOREM RefusedHoldNone == Spec => []RefusedRequestsHoldNone
<1>1. ASSUME IInv, pc = "401" PROVE RefusedRequestsHoldNone
    <2>1. /\ config \in DOMAIN authConfigs /\ config \in Nat
          /\ DOMAIN authConfigs = 1..Len(authConfigs) /\ Len(authConfigs) \in Nat
        BY <1>1, Shapes DEF IInv, PlaceInv, Refused
    <2>2. ASSUME NEW i \in 1..config
          PROVE  LET c == authConfigs[i]
                 IN  /\ ~BasicMatches(c) /\ ~QueryMatches(c)
                     /\ \A h \in DOMAIN c.authHeaders : \A k \in DOMAIN c.apiKeys :
                            i < config \/ h < header \/ (h = header /\ k < key)
                                => ~IsFound(c, h, k)
        <3>1. CASE i < config
            <4>1. i \in DOMAIN authConfigs /\ NothingIn(authConfigs[i])
                BY <1>1, <2>1, <3>1 DEF IInv, TriedInv, Refused
            <4>2. authConfigs[i].authHeaders \in Seq(AuthHeaders)
                BY <1>1, <4>1, ShapeOfAuth DEF IInv
            <4>3. \A h \in DOMAIN authConfigs[i].authHeaders :
                        h < Len(authConfigs[i].authHeaders) + 1
                BY <4>2
            <4> QED BY <4>1, <4>3 DEF NothingIn, NoHeaderOf
        <3>2. CASE i = config
            <4>1. /\ ~BasicMatches(auth) /\ ~QueryMatches(auth) /\ NoHeaderOf(auth, header)
                  /\ header > Len(auth.authHeaders) \/ NoKeyOf(auth, header, key)
                BY <1>1 DEF IInv, TriedInv, Refused
            <4>2. auth.authHeaders \in Seq(AuthHeaders)
                BY <1>1, <2>1, ShapeOfAuth DEF IInv, auth
            <4>3. header \in DOMAIN auth.authHeaders => NoKeyOf(auth, header, key)
                BY <4>1, <4>2
            <4> QED BY <2>1, <3>2, <4>1, <4>3 DEF NoHeaderOf, NoKeyOf, auth
        <3> QED BY <2>1, <3>1, <3>2
    <2> QED BY <1>1, <2>2 DEF IInv, EndInv, Refused, RefusedRequestsHoldNone
<1>2. IInv => RefusedRequestsHoldNone
    BY <1>1 DEF RefusedRequestsHoldNone
<1> QED BY <1>2, Invariance, PTL

\* The listener is given what the query, the body, the request and the path say, in
\* that order, however often the body was read before (ExtractArgsFromGinContext).
THEOREM ArgumentsAreGiven == Spec => []ArgumentsAreTheRequests
<1>1. ASSUME IInv, pc = "handle" PROVE ArgumentsAreTheRequests
    <2> DEFINE q == request.query
               b == request.body
               bodyCounts == /\ request.length > 0 /\ b.kind = "object"
                             /\ request.type \in Forms => ~request.broken
                             /\ request.type = "form" => request.method \in {"POST", "PUT", "PATCH"}
               bodyLists == request.length > 0 /\ b.kind = "array" /\ request.type \notin Forms
               hidden == IF route.kind = "schedule" THEN {TimeKey} ELSE {}
               Listed(n) == {<<"all", q[m]>> : m \in {l \in DOMAIN q : ListName(l) = n}}
               Otherwise(n, v) == n \notin DOMAIN q \cup hidden => IsGiven(n, {v} \cup Listed(n))
               onRequest == Onto(Single(RequestKey, <<"request", request.method>>), request.params)
    <2>1. PICK w \in SUBSET DOMAIN q : args = Kept(Collected(w))
        BY <1>1 DEF IInv, ArgsInv
    <2>2. /\ PlaceInv /\ body = b /\ ~Unreadable
          /\ b # None /\ request.length \in Int
        BY <1>1, ShapesAssumption DEF IInv, ArgsInv, PlaceInv, ShapesAssumption
    <2>3. /\ DOMAIN args = DOMAIN Collected(w) \ hidden
          /\ \A n \in DOMAIN args : args[n] = Collected(w)[n]
        BY <2>1 DEF Kept
    <2>4. Collected(w) = Onto(QueryArgs(w), Below)
        BY DEF Collected, Below
    <2>5. ASSUME NEW n \in DOMAIN q \ hidden PROVE IsGiven(n, {<<"one", Last(q[n])>>} \cup Listed(n))
        <3>1. /\ n \in DOMAIN QueryArgs(w)
              /\ QueryArgs(w)[n] \in {<<"one", Last(q[n])>>} \cup Listed(n)
            BY <2>2, QueryArgsAre
        <3>2. n \in DOMAIN Collected(w) /\ Collected(w)[n] = QueryArgs(w)[n]
            BY <2>4, <3>1 DEF Onto
        <3> QED BY <2>3, <3>1, <3>2 DEF IsGiven
    <2>6. ASSUME NEW n \in DOMAIN Below PROVE Otherwise(n, Below[n])
        BY <2>2, <2>3, CollectedKeeps DEF IsGiven
    <2>7. /\ DOMAIN BodyArgs \subseteq DOMAIN Below
          /\ \A n \in DOMAIN BodyArgs : Below[n] = BodyArgs[n]
        BY DEF Onto, Below
    <2>8. \A n \in DOMAIN onRequest \ DOMAIN BodyArgs : n \in DOMAIN Below /\ Below[n] = onRequest[n]
        BY DEF Onto, Below
    <2>9. ASSUME bodyCounts, NEW n \in DOMAIN b.fields PROVE Otherwise(n, b.fields[n])
        <3>1. BodyArgs = b.fields
            BY <2>2, <2>9
               DEF BodyArgs, HasBody, StructuredArgs, FormArgs, Unreadable, Forms, Structured
        <3> QED BY <2>6, <2>7, <3>1
    <2>10. ASSUME bodyLists
           PROVE  /\ \A i \in DOMAIN b.elements : Otherwise(Index(i), b.elements[i])
                  /\ Otherwise(PayloadLength, <<"length", Len(b.elements)>>)
        <3> DEFINE length == Single(PayloadLength, <<"length", Len(b.elements)>>)
        <3>1. BodyArgs = Onto(length, ElementArgs(b.elements))
            BY <2>2, <2>10 DEF BodyArgs, HasBody, StructuredArgs, Unreadable
        <3>2. /\ \A i, j \in DOMAIN b.elements : Index(i) = Index(j) => i = j
              /\ \A i \in DOMAIN b.elements : Index(i) # PayloadLength
            BY <2>2, <2>10, ShapesAssumption DEF ShapesAssumption, PlaceInv
        <3>3. DOMAIN length = {PayloadLength} /\ length[PayloadLength] = <<"length", Len(b.elements)>>
            BY DEF Single
        <3>4. \A i \in DOMAIN b.elements :
                    Index(i) \in DOMAIN BodyArgs /\ BodyArgs[Index(i)] = b.elements[i]
            <4>1. \A i \in DOMAIN b.elements : /\ Index(i) \in DOMAIN ElementArgs(b.elements)
                                              /\ ElementArgs(b.elements)[Index(i)] = b.elements[i]
                BY <3>2, ElementsByIndex
            <4> QED BY <3>1, <3>2, <3>3, <4>1 DEF Onto
        <3>5. /\ PayloadLength \in DOMAIN BodyArgs
              /\ BodyArgs[PayloadLength] = <<"length", Len(b.elements)>>
            BY <3>1, <3>3 DEF Onto
        <3>6. \A i \in DOMAIN b.elements : Otherwise(Index(i), b.elements[i])
            BY <2>6, <2>7, <3>4
        <3>7. Otherwise(PayloadLength, <<"length", Len(b.elements)>>)
            BY <2>6, <2>7, <3>5
        <3> QED BY <3>6, <3>7
    <2>11. ASSUME ~bodyCounts PROVE Otherwise(RequestKey, <<"request", request.method>>)
        <3>1. ASSUME request.length <= 0 \/ request.type \notin Structured
              PROVE  RequestKey \notin DOMAIN BodyArgs
            <4>1. BodyArgs = NoArgs
                BY <2>2, <2>11, <3>1 DEF BodyArgs, HasBody, FormArgs, Unreadable, Forms
            <4> QED BY <4>1 DEF NoArgs
        <3>2. ASSUME request.length > 0, request.type \in Structured
              PROVE  RequestKey \notin DOMAIN BodyArgs
            <4>1. b.kind = "array"
                BY <2>2, <2>11, <3>2, ShapesAssumption
                   DEF ShapesAssumption, PlaceInv, Unreadable, HasBody, Parses, Structured, Forms
            <4>2. BodyArgs = Onto(Single(PayloadLength, <<"length", Len(b.elements)>>),
                                  ElementArgs(b.elements))
                BY <2>2, <3>2, <4>1 DEF BodyArgs, HasBody, StructuredArgs
            <4>3. DOMAIN BodyArgs = {PayloadLength} \cup {Index(i) : i \in DOMAIN b.elements}
                BY <4>2 DEF Onto, Single, ElementArgs
            <4>4. \A i \in DOMAIN b.elements : Index(i) # RequestKey
                BY <2>2, <4>1, ShapesAssumption DEF ShapesAssumption, PlaceInv
            <4>5. RequestKey # PayloadLength
                <5>1. RequestKey[1] # PayloadLength[1]
                    BY DEF RequestKey, PayloadLength
                <5> QED BY <5>1
            <4> QED BY <4>3, <4>4, <4>5
        <3>3. RequestKey \notin DOMAIN BodyArgs
            BY <2>2, <3>1, <3>2
        <3>4. /\ RequestKey \in DOMAIN onRequest
              /\ onRequest[RequestKey] = <<"request", request.method>>
            BY DEF Onto, Single
        <3> QED BY <2>6, <2>8, <3>3, <3>4
    <2>12. ASSUME NEW n \in DOMAIN request.params \ hidden PROVE n \in DOMAIN args
        BY <2>3, <2>4, <2>12 DEF Onto, Below
    <2>13. hidden \cap DOMAIN args = {}
        BY <2>3
    <2> QED BY <1>1, <2>5, <2>9, <2>10, <2>11, <2>12, <2>13 DEF ArgumentsAreTheRequests
<1>2. IInv => ArgumentsAreTheRequests
    BY <1>1 DEF ArgumentsAreTheRequests
<1> QED BY <1>2, Invariance, PTL

\* A plugin's own list, even an empty one, takes the place of its listener's: its own
\* configurations are asked, and only those (GetAuthConfigs and MountRoutes).
THEOREM OwnListIsTheList == Spec => []OwnListDecides
<1>1. IInv => OwnListDecides
    BY ShapesAssumption
       DEF ShapesAssumption, IInv, PlaceInv, Refused, OwnListDecides, AcceptedRequestsHoldAKey,
           authConfigs
<1> QED BY <1>1, Invariance, PTL
=============================================================================
