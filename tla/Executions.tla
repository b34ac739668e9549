----------------------------- MODULE Executions ------------------------------
(***************************************************************************)
(* What a listener promises to those who send it requests, without its     *)
(* recursion, its files or its plugins: a request is refused, previewed or *)
(* attempted, no more often than the limit allows; it is answered once,    *)
(* when nothing more is going to be done for it; a failure is handed to    *)
(* the error handler before that, a success never is; payloads are stored  *)
(* once the outcome is settled, and only for those two outcomes.           *)
(***************************************************************************)
EXTENDS Naturals, Sequences

CONSTANTS
    Requests,       \* the requests that are sent
    None            \* no limit

VARIABLES
    limit,      \* how often a request may be attempted, or None
    handler,    \* whether there is an error handler
    status,     \* status[r]: how far r is
    attempts,   \* attempts[r]: the attempts begun for r
    payloads,   \* payloads[r]: who has stored a payload of r, in this order
    answer      \* answer[r]: what the client is told

vars == <<limit, handler, status, attempts, payloads, answer>>

Init ==
    /\ limit \in Nat \cup {None}
    /\ handler \in BOOLEAN
    /\ status = [r \in Requests |-> "new"]
    /\ attempts = [r \in Requests |-> 0]
    /\ payloads = [r \in Requests |-> <<>>]
    /\ answer = [r \in Requests |-> "none"]

Become(r, s) == status' = [status EXCEPT ![r] = s]

\* The last thing that happens to a request.
Answer(r, a) ==
    /\ answer' = [answer EXCEPT ![r] = a]
    /\ Become(r, "answered")
    /\ UNCHANGED <<limit, handler, attempts>>

Store(r, who) == payloads' = [payloads EXCEPT ![r] = who]

\* Nothing is attempted for a request that is refused, or is for a preview.
Refuse(r) ==
    /\ status[r] = "new"
    /\ Answer(r, "refused")
    /\ UNCHANGED payloads

Preview(r, a) ==
    /\ status[r] = "new"
    /\ Answer(r, a)
    /\ UNCHANGED payloads

\* The first attempt, or a retry.
Attempt(r) ==
    /\ status[r] \in {"new", "running"}
    /\ limit # None => attempts[r] < limit
    /\ attempts' = [attempts EXCEPT ![r] = @ + 1]
    /\ Become(r, "running")
    /\ UNCHANGED <<limit, handler, payloads, answer>>

\* The last attempt was a success, which can be stored.
Settle(r, who) ==
    /\ status[r] = "running"
    /\ Store(r, who)
    /\ Become(r, "settled")
    /\ UNCHANGED <<limit, handler, attempts, answer>>

\* A success is answered, as far as its output can be made.
Succeed(r, a) ==
    /\ status[r] = "settled"
    /\ Answer(r, a)
    /\ UNCHANGED payloads

\* The last attempt has failed, and there is an error handler.
HandleError(r) ==
    /\ status[r] = "running"
    /\ handler
    /\ Become(r, "handling")
    /\ UNCHANGED <<limit, handler, attempts, payloads, answer>>

\* The error handler has ended.
FailHandled(r, who) ==
    /\ status[r] = "handling"
    /\ Store(r, who)
    /\ Answer(r, "error")

\* The last attempt has failed and there is no error handler, or a hook has failed,
\* which no error handler sees: nothing is stored.
Fail(r, a) ==
    /\ status[r] = "running"
    /\ a = "error" => ~handler
    /\ Answer(r, a)
    /\ UNCHANGED payloads

Next ==
    \E r \in Requests :
        \/ Refuse(r)
        \/ \E a \in {"ok", "error"} : Preview(r, a)
        \/ Attempt(r)
        \/ \E who \in {<<>>, <<"main">>} : Settle(r, who)
        \/ \E a \in {"ok", "outputFailed"} : Succeed(r, a)
        \/ HandleError(r)
        \/ \E who \in {<<>>, <<"onError">>, <<"main">>, <<"onError", "main">>} :
                FailHandled(r, who)
        \/ \E a \in {"error", "hookFailed"} : Fail(r, a)

Spec == Init /\ [][Next]_vars
=============================================================================
