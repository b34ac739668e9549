---------------------------- MODULE MCScheduler -----------------------------
(***************************************************************************)
(* Two replicas of a schedule plugin: the same id in each of two           *)
(* processes, with one loop each.                                          *)
(***************************************************************************)
EXTENDS Scheduler, TLC

CONSTANTS q1, q2, p1, p2, l1, l2, i1, t1, t2

ReplicaProcOf == p1 :> q1 @@ p2 :> q2
ReplicaIdOf == p1 :> i1 @@ p2 :> i1
ReplicaPluginOf == l1 :> p1 @@ l2 :> p2

\* The clients ask for t1 at time 0 and for t2 at time 1. No fairness makes a client
\* ask for anything, so this takes nothing from the liveness properties.
FirstThenSecond ==
    /\ executeAt[t1] = 0
    /\ row[t2] # "absent" => executeAt[t2] = 1
=============================================================================
