--------------------------- MODULE ScheduledTasks ---------------------------
(***************************************************************************)
(* What the schedule plugin promises a client, without its table, its      *)
(* transactions or its loops: an accepted task is kept until it has been   *)
(* executed, is executed only after its time, and is forgotten only once   *)
(* an execution of it has come to an end.                                  *)
(***************************************************************************)
EXTENDS Integers

CONSTANTS
    Tasks,      \* the requests that ask for a later execution
    MaxTime     \* bound of the clock

VARIABLES
    clock,      \* the time
    due,        \* due[t]: when t was asked to run
    status,     \* status[t]: how far t is
    answer      \* answer[t]: what the client that submitted t was told

vars == <<clock, due, status, answer>>

Statuses == {"absent", "pending", "executed", "removed"}
Answers == {"none", "ok", "error"}

Init ==
    /\ clock = 0
    /\ due = [t \in Tasks |-> 0]
    /\ status = [t \in Tasks |-> "absent"]
    /\ answer = [t \in Tasks |-> "none"]

\* The request is refused: nothing is kept.
Refuse(t) ==
    /\ status[t] = "absent"
    /\ answer[t] = "none"
    /\ answer' = [answer EXCEPT ![t] = "error"]
    /\ UNCHANGED <<clock, due, status>>

\* The task is kept. The client may still see an error; it never sees a
\* success for a task that is not kept.
Accept(t, time, told) ==
    /\ status[t] = "absent"
    /\ answer[t] = "none"
    /\ due' = [due EXCEPT ![t] = time]
    /\ status' = [status EXCEPT ![t] = "pending"]
    /\ answer' = [answer EXCEPT ![t] = told]
    /\ UNCHANGED clock

\* The first execution of the task that comes to an end.
Execute(t) ==
    /\ status[t] = "pending"
    /\ due[t] < clock
    /\ status' = [status EXCEPT ![t] = "executed"]
    /\ UNCHANGED <<clock, due, answer>>

Remove(t) ==
    /\ status[t] = "executed"
    /\ status' = [status EXCEPT ![t] = "removed"]
    /\ UNCHANGED <<clock, due, answer>>

Advance ==
    /\ clock < MaxTime
    /\ clock' = clock + 1
    /\ UNCHANGED <<due, status, answer>>

Next ==
    \/ Advance
    \/ \E t \in Tasks :
        \/ Refuse(t)
        \/ \E time \in 0..MaxTime, told \in {"ok", "error"} : Accept(t, time, told)
        \/ Execute(t)
        \/ Remove(t)

Spec == Init /\ [][Next]_vars
=============================================================================
