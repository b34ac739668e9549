------------------------ MODULE NotificationsProofs -------------------------
(***************************************************************************)
(* What Notifications guarantees for any number of deliveries and of gin   *)
(* contexts: a response is written by its own handler, by its timeout, or  *)
(* by a handler that a timeout has left behind, and a handler tells of a   *)
(* success only if there was one.                                          *)
(***************************************************************************)
EXTENDS Notifications, TLAPS

-----------------------------------------------------------------------------
(* The inductive invariant.                                                *)

\* The deliveries that are being waited for and the contexts in use belong to each
\* other; a handler whose delivery has ended in time has ended.
ContextInv ==
    /\ \A d \in Deliveries :
        /\ wait[d] = "none" => pc[d] = "none" /\ author[d] = None
        /\ wait[d] # "none" => pc[d] # "none" /\ context[d] \in Contexts
        /\ wait[d] = "waiting" => user[context[d]] = d
        /\ wait[d] = "ended" => pc[d] = "end"
    /\ \A x \in Contexts :
        user[x] # None => wait[user[x]] = "waiting" /\ context[user[x]] = x

\* A handler has written a response only after it has verified its message,
\* and returns a success only for what has been processed.
ResultInv ==
    \A d \in Deliveries :
        /\ pc[d] \in {"none", "verify", "confirm"} => \A e \in Deliveries : author[e] # d
        /\ result[d] = "ok" => processed[d]

IInv ==
    /\ TypeOK
    /\ ContextInv
    /\ ResultInv
    /\ OnlyLateHandlersMixUp
    /\ SuccessMeansProcessed
-----------------------------------------------------------------------------
(* Lemmas.                                                                 *)

Codes == {"200", "400", "401", "408", "500"}

\* A write concerns one response, and only if it has not been written.
LEMMA WriteOne ==
    ASSUME TypeOK, NEW x \in Contexts, NEW who \in Deliveries \cup {"timeout"}, NEW code \in Codes,
           Write(x, who, code)
    PROVE  /\ status' \in [Deliveries -> {"none"} \cup Codes]
           /\ author' \in [Deliveries -> Deliveries \cup {None, "timeout"}]
           /\ \A d \in Deliveries :
                \/ status'[d] = status[d] /\ author'[d] = author[d]
                \/ user[x] = d /\ status'[d] = code /\ author'[d] = who
BY DEF TypeOK, Write, Codes

\* A handler that still runs serves its own request or has been left behind.
LEMMA WhoseContext ==
    ASSUME TypeOK, ContextInv, NEW d \in Deliveries, pc[d] \notin {"none", "end"}
    PROVE  /\ context[d] \in Contexts
           /\ \A e \in Deliveries : user[context[d]] = e =>
                /\ context[e] = context[d]
                /\ e = d \/ wait[d] = "timedOut"
BY ConstantsAssumption DEF TypeOK, ContextInv

\* What a running handler writes mixes up contexts only if it is late.
LEMMA HandlerWrites ==
    ASSUME IInv, NEW d \in Deliveries, pc[d] \notin {"none", "end"}, NEW code \in Codes,
           Write(context[d], d, code), UNCHANGED <<wait, context>>
    PROVE  OnlyLateHandlersMixUp'
<1>1. /\ context[d] \in Contexts
      /\ \A e \in Deliveries : user[context[d]] = e =>
            context[e] = context[d] /\ (e = d \/ wait[d] = "timedOut")
  BY WhoseContext DEF IInv
<1>2. \A e \in Deliveries :
        \/ status'[e] = status[e] /\ author'[e] = author[e]
        \/ user[context[d]] = e /\ status'[e] = code /\ author'[e] = d
  BY <1>1, WriteOne DEF IInv
<1> QED BY <1>1, <1>2 DEF IInv, OnlyLateHandlersMixUp

LEMMA InitInv == Init => IInv
BY ConstantsAssumption
DEF Init, IInv, TypeOK, ContextInv, ResultInv, OnlyLateHandlersMixUp, SuccessMeansProcessed

\* A context is taken from the pool for a request that is new.
LEMMA DeliverInv ==
    ASSUME IInv, NEW d \in Deliveries, NEW x \in Contexts, NEW kind \in Types, Deliver(d, x, kind)
    PROVE  IInv'
<1>1. TypeOK'
  BY DEF IInv, TypeOK, Types, Deliver, Returns, Goto, response
<1>2. ContextInv'
  BY ConstantsAssumption DEF IInv, TypeOK, ContextInv, Deliver, Returns, Goto, response
<1>3. ResultInv'
  BY DEF IInv, TypeOK, ContextInv, ResultInv, Deliver, Returns, Goto, response
<1>4. OnlyLateHandlersMixUp'
  BY ConstantsAssumption
  DEF IInv, TypeOK, ContextInv, OnlyLateHandlersMixUp, Deliver, response
<1>5. SuccessMeansProcessed'
  BY DEF IInv, SuccessMeansProcessed, Deliver, response
<1> QED BY <1>1, <1>2, <1>3, <1>4, <1>5 DEF IInv

\* A handler goes on, or returns, without having written anything.
LEMMA SilentHandlerInv ==
    ASSUME IInv, NEW d \in Deliveries,
           \/ VerifyFails(d) \/ Verified(d) \/ ExecuteFails(d) \/ Execute(d) \/ CheckAborted(d)
           \/ \E ok \in BOOLEAN : Confirm(d, ok)
    PROVE  IInv'
<1> USE DEF VerifyFails, Verified, ExecuteFails, Execute, CheckAborted, Confirm, Returns, Goto,
            request, middleware, response
<1>1. TypeOK'
  <2>1. CASE VerifyFails(d)
    BY <2>1 DEF IInv, TypeOK
  <2>2. CASE ExecuteFails(d)
    BY <2>2 DEF IInv, TypeOK
  <2>3. CASE Execute(d)
    BY <2>3 DEF IInv, TypeOK
  <2>4. CASE Verified(d)
    BY <2>4 DEF IInv, TypeOK
  <2>5. CASE CheckAborted(d)
    BY <2>5 DEF IInv, TypeOK
  <2>6. ASSUME NEW ok \in BOOLEAN, Confirm(d, ok) PROVE TypeOK'
    BY <2>6 DEF IInv, TypeOK
  <2> QED BY <2>1, <2>2, <2>3, <2>4, <2>5, <2>6
<1>2. ContextInv'
  BY DEF IInv, TypeOK, ContextInv
<1>3. ResultInv'
  BY DEF IInv, TypeOK, ResultInv
<1>4. OnlyLateHandlersMixUp'
  BY DEF IInv, OnlyLateHandlersMixUp
<1>5. SuccessMeansProcessed'
  BY DEF IInv, TypeOK, ResultInv, SuccessMeansProcessed
<1> QED BY <1>1, <1>2, <1>3, <1>4, <1>5 DEF IInv

\* An output plugin writes with the status it was configured for.
LEMMA ExecuteWithOutputInv ==
    ASSUME IInv, NEW d \in Deliveries, NEW code \in {"200", "400"}, NEW ok \in BOOLEAN,
           ExecuteWithOutput(d, code, ok)
    PROVE  IInv'
<1> DEFINE written == IF ok THEN code ELSE "500"
<1>1. /\ pc[d] = "execute" /\ Write(context[d], d, written) /\ written \in Codes
      /\ processed' = [processed EXCEPT ![d] = TRUE]
      /\ Returns(d, IF ok THEN "ok" ELSE "error")
      /\ UNCHANGED <<type, context, wait, user, aborted>>
  BY DEF ExecuteWithOutput, Codes, request, middleware
<1>2. context[d] \in Contexts
  BY <1>1, WhoseContext DEF IInv
<1>3. /\ status' \in [Deliveries -> {"none"} \cup Codes]
      /\ author' \in [Deliveries -> Deliveries \cup {None, "timeout"}]
      /\ \A e \in Deliveries :
            \/ status'[e] = status[e] /\ author'[e] = author[e]
            \/ user[context[d]] = e /\ status'[e] = written /\ author'[e] = d
  BY <1>1, <1>2, WriteOne DEF IInv
<1>4. TypeOK'
  <2>1. processed' \in [Deliveries -> BOOLEAN] /\ aborted' \in [Contexts -> BOOLEAN]
    BY <1>1 DEF IInv, TypeOK
  <2>2. /\ pc' \in [Deliveries -> {"none", "verify", "execute", "confirm", "check", "answer", "end"}]
        /\ result' \in [Deliveries -> {"none", "ok", "error", "unauthorized"}]
    BY <1>1 DEF IInv, TypeOK, Returns
  <2> QED BY <1>1, <1>3, <2>1, <2>2 DEF IInv, TypeOK, Codes
<1>5. ContextInv'
  BY <1>1, <1>2, <1>3, ConstantsAssumption DEF IInv, TypeOK, ContextInv, Returns
<1>6. ResultInv'
  BY <1>1, <1>3 DEF IInv, TypeOK, ResultInv, Returns
<1>7. OnlyLateHandlersMixUp'
  BY <1>1, HandlerWrites
<1>8. SuccessMeansProcessed'
  BY <1>1, <1>3 DEF IInv, TypeOK, SuccessMeansProcessed
<1> QED BY <1>4, <1>5, <1>6, <1>7, <1>8 DEF IInv

\* WrapRequest answers with the result of the handler.
LEMMA AnswerInv ==
    ASSUME IInv, NEW d \in Deliveries, Answer(d)
    PROVE  IInv'
<1>1. /\ pc[d] = "answer" /\ Write(context[d], d, CodeOf(result[d])) /\ CodeOf(result[d]) \in Codes
      /\ pc' = [pc EXCEPT ![d] = "end"]
      /\ UNCHANGED <<type, context, result, wait, user, processed>>
  BY DEF Answer, CodeOf, Codes, Goto, request
<1>2. context[d] \in Contexts
  BY <1>1, WhoseContext DEF IInv
<1>3. /\ status' \in [Deliveries -> {"none"} \cup Codes]
      /\ author' \in [Deliveries -> Deliveries \cup {None, "timeout"}]
      /\ \A e \in Deliveries :
            \/ status'[e] = status[e] /\ author'[e] = author[e]
            \/ user[context[d]] = e /\ status'[e] = CodeOf(result[d]) /\ author'[e] = d
  BY <1>1, <1>2, WriteOne DEF IInv
<1>4. TypeOK'
  <2>1. aborted' \in [Contexts -> BOOLEAN]
    BY DEF Answer, IInv, TypeOK
  <2>2. pc' \in [Deliveries -> {"none", "verify", "execute", "confirm", "check", "answer", "end"}]
    BY <1>1 DEF IInv, TypeOK
  <2> QED BY <1>1, <1>3, <2>1, <2>2 DEF IInv, TypeOK, Codes
<1>5. ContextInv'
  BY <1>1, <1>2, <1>3, ConstantsAssumption DEF IInv, TypeOK, ContextInv
<1>6. ResultInv'
  BY <1>1, <1>3 DEF IInv, TypeOK, ResultInv
<1>7. OnlyLateHandlersMixUp'
  BY <1>1, HandlerWrites
<1>8. SuccessMeansProcessed'
  BY <1>1, <1>3 DEF IInv, ResultInv, SuccessMeansProcessed, CodeOf
<1> QED BY <1>4, <1>5, <1>6, <1>7, <1>8 DEF IInv

\* The request ends with its handler.
LEMMA HandlerEndsInv ==
    ASSUME IInv, NEW d \in Deliveries, HandlerEnds(d)
    PROVE  IInv'
<1>1. TypeOK'
  BY DEF IInv, TypeOK, ContextInv, HandlerEnds, Release, request, response
<1>2. ContextInv'
  BY ConstantsAssumption DEF IInv, TypeOK, ContextInv, HandlerEnds, Release, request, response
<1>3. ResultInv' /\ SuccessMeansProcessed'
  BY DEF IInv, ResultInv, SuccessMeansProcessed, HandlerEnds, response
<1>4. OnlyLateHandlersMixUp'
  BY DEF IInv, TypeOK, OnlyLateHandlersMixUp, HandlerEnds, Release, request, response
<1> QED BY <1>1, <1>2, <1>3, <1>4 DEF IInv

\* The request ends with its timeout, which leaves its handler behind.
LEMMA TimesOutInv ==
    ASSUME IInv, NEW d \in Deliveries, TimesOut(d)
    PROVE  IInv'
<1>1. /\ wait[d] = "waiting" /\ Write(context[d], "timeout", "408") /\ "408" \in Codes
      /\ wait' = [wait EXCEPT ![d] = "timedOut"] /\ user' = [user EXCEPT ![context[d]] = None]
      /\ UNCHANGED <<type, context, pc, result, processed>>
  BY DEF TimesOut, Release, Codes, request
<1>2. context[d] \in Contexts /\ user[context[d]] = d
  BY <1>1 DEF IInv, ContextInv
<1>3. /\ status' \in [Deliveries -> {"none"} \cup Codes]
      /\ author' \in [Deliveries -> Deliveries \cup {None, "timeout"}]
      /\ \A e \in Deliveries :
            \/ status'[e] = status[e] /\ author'[e] = author[e]
            \/ e = d /\ status'[e] = "408" /\ author'[e] = "timeout"
  BY <1>1, <1>2, WriteOne DEF IInv
<1>4. TypeOK'
  <2>1. aborted' \in [Contexts -> BOOLEAN]
    BY DEF TimesOut, IInv, TypeOK
  <2> QED BY <1>1, <1>3, <2>1 DEF IInv, TypeOK, Codes
<1>5. ContextInv'
  BY <1>1, <1>2, <1>3, ConstantsAssumption DEF IInv, TypeOK, ContextInv
<1>6. ResultInv'
  BY <1>1, <1>3, ConstantsAssumption DEF IInv, ResultInv
<1>7. OnlyLateHandlersMixUp'
  BY <1>1, <1>3, ConstantsAssumption DEF IInv, TypeOK, OnlyLateHandlersMixUp
<1>8. SuccessMeansProcessed'
  BY <1>1, <1>3 DEF IInv, SuccessMeansProcessed
<1> QED BY <1>4, <1>5, <1>6, <1>7, <1>8 DEF IInv
-----------------------------------------------------------------------------
(* Theorems.                                                               *)

\* The inductive invariant holds in every reachable state.
THEOREM Invariance == Spec => []IInv
<1>1. IInv /\ [Next]_vars => IInv'
  <2> SUFFICES ASSUME IInv, [Next]_vars PROVE IInv'
    OBVIOUS
  <2>1. CASE UNCHANGED vars
    BY <2>1
    DEF vars, IInv, TypeOK, ContextInv, ResultInv, OnlyLateHandlersMixUp, SuccessMeansProcessed
  <2>2. ASSUME NEW d \in Deliveries, Handler(d) PROVE IInv'
    BY <2>2, SilentHandlerInv, ExecuteWithOutputInv, AnswerInv DEF Handler
  <2> QED BY <2>1, <2>2, DeliverInv, HandlerEndsInv, TimesOutInv DEF Next
<1> QED BY InitInv, <1>1, PTL DEF Spec

\* Every variable keeps its type: there is a status for every outcome.
THEOREM TypeCorrect == Spec => []TypeOK
<1>1. IInv => TypeOK
  BY DEF IInv
<1> QED BY <1>1, Invariance, PTL

\* Only a handler that its timeout has left behind can answer somebody else, and only
\* the request that has its context now.
THEOREM MixUpsAreLate == Spec => []OnlyLateHandlersMixUp
<1>1. IInv => OnlyLateHandlersMixUp
  BY DEF IInv
<1> QED BY <1>1, Invariance, PTL

\* Whichever delivery is told of a success, the handler that says so, its own or a late
\* one, has processed its own message (handleNotification, handleSubscriptionConfirmation).
THEOREM SuccessIsProcessed == Spec => []SuccessMeansProcessed
<1>1. IInv => SuccessMeansProcessed
  BY DEF IInv
<1> QED BY <1>1, Invariance, PTL
=============================================================================
