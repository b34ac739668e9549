---------------------------- MODULE Notifications ----------------------------
(***************************************************************************)
(* The /sns routes of the listeners of a port: the handler that            *)
(* GetSNSRequestHandler makes runs in a goroutine of its own, under the    *)
(* timeout middleware, and answers through the gin context of its request. *)
(* A handler that outlives the timeout goes on with that context while     *)
(* gin, which keeps the contexts of a port in a pool, may already have     *)
(* given it to another request.                                            *)
(*                                                                         *)
(* A message may be delivered any number of times, to a listener with or   *)
(* without credentials and output plugin. Verification, the subscription   *)
(* request and the listener succeed or fail, and take any time. The plugin *)
(* sets no certCacheDuration: its cache stays empty.                       *)
(***************************************************************************)
EXTENDS Naturals, FiniteSets

CONSTANTS
    Deliveries,     \* the requests to the route
    Contexts,       \* the gin contexts in the pool or in use
    None            \* no delivery, no context

ASSUME ConstantsAssumption ==
    /\ None \notin Deliveries \cup Contexts
    /\ "timeout" \notin Deliveries

VARIABLES
    type,       \* type[d]: the X-Amz-Sns-Message-Type header of d
    pc,         \* pc[d]: where the handler of d is
    result,     \* result[d]: what the handler's inner function returns
    wait,       \* wait[d]: what the timeout middleware of d does
    context,    \* context[d]: the gin context of d
    user,       \* user[x]: the delivery whose response context x writes
    aborted,    \* aborted[x]: c.IsAborted()
    status,     \* status[d]: the status line of the response to d
    author      \* author[d]: which handler wrote it, or "timeout"

\* History: whether a listener has handled the notification d, or the subscription
\* that d announced was confirmed.
VARIABLE processed

vars == <<type, pc, result, wait, context, user, aborted, status, author, processed>>

\* What code that holds context x writes goes to the request that x serves now;
\* the first status is the one that counts. Nobody receives what is written once
\* that request has ended.
Write(x, who, code) ==
    LET d == user[x] IN
    IF d # None /\ status[d] = "none"
    THEN /\ status' = [status EXCEPT ![d] = code]
         /\ author' = [author EXCEPT ![d] = who]
    ELSE UNCHANGED <<status, author>>

Returns(d, outcome) ==
    /\ result' = [result EXCEPT ![d] = outcome]
    /\ pc' = [pc EXCEPT ![d] = "check"]

Goto(d, place) == pc' = [pc EXCEPT ![d] = place]

response == <<status, author>>
request == <<type, context>>
middleware == <<wait, user, aborted>>
-----------------------------------------------------------------------------
Init ==
    /\ type = [d \in Deliveries |-> "none"]
    /\ pc = [d \in Deliveries |-> "none"]
    /\ result = [d \in Deliveries |-> "none"]
    /\ wait = [d \in Deliveries |-> "none"]
    /\ context = [d \in Deliveries |-> None]
    /\ user = [x \in Contexts |-> None]
    /\ aborted = [x \in Contexts |-> FALSE]
    /\ status = [d \in Deliveries |-> "none"]
    /\ author = [d \in Deliveries |-> None]
    /\ processed = [d \in Deliveries |-> FALSE]

\* gin takes a context from its pool and resets it; the middleware starts the
\* handler and waits for it. Credentials, body and header are read at once.
Deliver(d, x, kind) ==
    /\ wait[d] = "none"
    /\ user[x] = None
    /\ context' = [context EXCEPT ![d] = x]
    /\ user' = [user EXCEPT ![x] = d]
    /\ aborted' = [aborted EXCEPT ![x] = FALSE]
    /\ type' = [type EXCEPT ![d] = kind]
    /\ wait' = [wait EXCEPT ![d] = "waiting"]
    /\ \/ Returns(d, "unauthorized")
       \/ Returns(d, "error")
       \/ kind # "other" /\ Goto(d, "verify") /\ UNCHANGED result
    /\ UNCHANGED <<response, processed>>
-----------------------------------------------------------------------------
(* The handler: handleNotification and handleSubscriptionConfirmation.     *)

\* Variant: an error of the verification is logged and forgotten.
VerifyFails_Forgotten(d) ==
    /\ pc[d] = "verify"
    /\ Returns(d, "ok")
    /\ UNCHANGED <<request, middleware, response, processed>>

\* The certificate cannot be fetched or parsed, or the signature does not match.
VerifyFails(d) ==
    /\ pc[d] = "verify"
    /\ Returns(d, "error")
    /\ UNCHANGED <<request, middleware, response, processed>>

Verified(d) ==
    /\ pc[d] = "verify"
    /\ Goto(d, IF type[d] = "notification" THEN "execute" ELSE "confirm")
    /\ UNCHANGED <<request, result, middleware, response, processed>>

\* The SubscribeURL is requested.
Confirm(d, ok) ==
    /\ pc[d] = "confirm"
    /\ Returns(d, IF ok THEN "ok" ELSE "error")
    /\ processed' = [processed EXCEPT ![d] = ok]
    /\ UNCHANGED <<request, middleware, response>>

\* HandleRequest fails before its output plugins are asked: it writes nothing.
ExecuteFails(d) ==
    /\ pc[d] = "execute"
    /\ Returns(d, "error")
    /\ UNCHANGED <<request, middleware, response, processed>>

\* HandleRequest succeeds, without an output plugin.
Execute(d) ==
    /\ pc[d] = "execute"
    /\ processed' = [processed EXCEPT ![d] = TRUE]
    /\ Returns(d, "ok")
    /\ UNCHANGED <<request, middleware, response>>

\* HandleRequest executes the command and an output plugin writes the response
\* with a status of its own or, if that fails, with 500. Neither aborts.
ExecuteWithOutput(d, code, ok) ==
    /\ pc[d] = "execute"
    /\ processed' = [processed EXCEPT ![d] = TRUE]
    /\ Write(context[d], d, IF ok THEN code ELSE "500")
    /\ Returns(d, IF ok THEN "ok" ELSE "error")
    /\ UNCHANGED <<request, middleware>>
-----------------------------------------------------------------------------
(* WrapRequest and the timeout middleware.                                 *)

\* Variant: an error without a status of its own has none.
CodeOf_NoDefault(outcome) ==
    IF outcome = "ok" THEN "200" ELSE IF outcome = "unauthorized" THEN "401" ELSE "0"

CodeOf(outcome) ==
    IF outcome = "ok" THEN "200" ELSE IF outcome = "unauthorized" THEN "401" ELSE "400"

\* A context that was aborted, as by the timeout, is left alone.
CheckAborted(d) ==
    /\ pc[d] = "check"
    /\ Goto(d, IF aborted[context[d]] THEN "end" ELSE "answer")
    /\ UNCHANGED <<request, result, middleware, response, processed>>

\* AbortWithStatus or AbortWithError.
Answer(d) ==
    /\ pc[d] = "answer"
    /\ Write(context[d], d, CodeOf(result[d]))
    /\ aborted' = [aborted EXCEPT ![context[d]] = TRUE]
    /\ Goto(d, "end")
    /\ UNCHANGED <<request, result, wait, user, processed>>

\* The request has ended: gin puts the context back into its pool.
Release(d, how) ==
    /\ wait' = [wait EXCEPT ![d] = how]
    /\ user' = [user EXCEPT ![context[d]] = None]

\* Variant: the middleware does not wait for the handler.
HandlerEnds_NotAwaited(d) ==
    /\ wait[d] = "waiting"
    /\ Release(d, "ended")
    /\ UNCHANGED <<request, pc, result, aborted, response, processed>>

\* The handler signals its end in time.
HandlerEnds(d) ==
    /\ wait[d] = "waiting"
    /\ pc[d] = "end"
    /\ Release(d, "ended")
    /\ UNCHANGED <<request, pc, result, aborted, response, processed>>

\* Variant: the timeout covers the verification only.
TimesOut_Verifying(d) ==
    /\ wait[d] = "waiting"
    /\ pc[d] = "verify"
    /\ Write(context[d], "timeout", "408")
    /\ aborted' = [aborted EXCEPT ![context[d]] = TRUE]
    /\ Release(d, "timedOut")
    /\ UNCHANGED <<request, pc, result, processed>>

\* requestTimeout is over, and is noticed even if the handler has just ended.
TimesOut(d) ==
    /\ wait[d] = "waiting"
    /\ Write(context[d], "timeout", "408")
    /\ aborted' = [aborted EXCEPT ![context[d]] = TRUE]
    /\ Release(d, "timedOut")
    /\ UNCHANGED <<request, pc, result, processed>>
-----------------------------------------------------------------------------
Handler(d) ==
    \/ VerifyFails(d)
    \/ Verified(d)
    \/ \E ok \in BOOLEAN : Confirm(d, ok)
    \/ ExecuteFails(d)
    \/ Execute(d)
    \/ \E ok \in BOOLEAN, code \in {"200", "400"} : ExecuteWithOutput(d, code, ok)
    \/ CheckAborted(d)
    \/ Answer(d)

Types == {"notification", "subscription", "other"}

Next ==
    \E d \in Deliveries :
        \/ \E x \in Contexts, kind \in Types : Deliver(d, x, kind)
        \/ Handler(d)
        \/ HandlerEnds(d)
        \/ TimesOut(d)

Spec == Init /\ [][Next]_vars

\* The timer of every request fires. Nothing is assumed about handlers: what they
\* wait for may take for ever.
FairSpec == Spec /\ \A d \in Deliveries : WF_vars(TimesOut(d))
-----------------------------------------------------------------------------
(* Properties.                                                             *)

TypeOK ==
    /\ type \in [Deliveries -> Types \cup {"none"}]
    /\ pc \in [Deliveries -> {"none", "verify", "execute", "confirm", "check", "answer", "end"}]
    /\ result \in [Deliveries -> {"none", "ok", "error", "unauthorized"}]
    /\ wait \in [Deliveries -> {"none", "waiting", "ended", "timedOut"}]
    /\ context \in [Deliveries -> Contexts \cup {None}]
    /\ user \in [Contexts -> Deliveries \cup {None}]
    /\ aborted \in [Contexts -> BOOLEAN]
    /\ status \in [Deliveries -> {"none", "200", "400", "401", "408", "500"}]
    /\ author \in [Deliveries -> Deliveries \cup {None, "timeout"}]
    /\ processed \in [Deliveries -> BOOLEAN]

\* The only handlers that can answer the request of another delivery are those
\* the timeout has left behind: contexts are mixed up in no other way.
OnlyLateHandlersMixUp ==
    \A d \in Deliveries : author[d] \in Deliveries \ {d} =>
        /\ wait[author[d]] = "timedOut"
        /\ context[author[d]] = context[d]

\* A success is reported by a handler that has come to the end of its own message
\* (the listener has handled it, or its subscription is confirmed), never by the
\* middleware. Told so by the handler of its own delivery, a topic need not send the
\* message again; told so by a late handler, it takes one message for the other.
SuccessMeansProcessed ==
    \A d \in Deliveries : status[d] = "200" => author[d] \in Deliveries /\ processed[author[d]]

\* A topic gets an answer whatever the handler waits for. Its own handler, one
\* that is late, or the timeout has written it.
EveryDeliveryIsAnswered ==
    \A d \in Deliveries :
        wait[d] = "waiting" ~> wait[d] \in {"ended", "timedOut"} /\ status[d] # "none"
=============================================================================
