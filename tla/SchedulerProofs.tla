-------------------------- MODULE SchedulerProofs ---------------------------
(***************************************************************************)
(* What Scheduler guarantees for every set of processes, plugins, loops    *)
(* and tasks, every bound on time and every number of faults.              *)
(***************************************************************************)
EXTENDS Scheduler, TLAPS

-----------------------------------------------------------------------------
(* The inductive invariant.                                                *)

Busy == {"handle", "delete", "commit"}

\* The row lock and the transaction that holds it point at each other.
LockInv ==
    /\ \A t \in Tasks :
        lock[t] # None => /\ task[lock[t]] = t
                          /\ tx[lock[t]] \in Live
                          /\ row[t] = "pending"
    /\ \A l \in Loops : tx[l] \in Live => task[l] # None /\ lock[task[l]] = l

\* Where a loop is tells what its transaction can be and how far its task is.
LoopInv ==
    \A l \in Loops :
        /\ pc[l] \in Busy => task[l] # None /\ tx[l] # "none" /\ runs[task[l]] > 0
        /\ pc[l] \notin Busy => task[l] = None /\ tx[l] = "none"
        /\ tx[l] \in {"deleting", "aborted"} => pc[l] = "commit"
        /\ pc[l] \in {"delete", "commit"} => finished[task[l]] > 0
        /\ ~up[ProcOfLoop(l)] => pc[l] = "off"

\* What a row's state says of the history of its task.
RowInv ==
    \A t \in Tasks :
        /\ row[t] = "absent" => reply[t] # "ok" /\ finished[t] = 0
        /\ row[t] = "deleted" => finished[t] > 0
        /\ finished[t] > 0 => runs[t] > 0
        /\ runs[t] > 0 => executeAt[t] < now /\ row[t] # "absent"

\* Every execution that began holds the lock, has lost its transaction, or has
\* removed the row; every transaction that was lost is paid for by a fault, the
\* one of an aborted transaction in advance.
Removed(t) == IF row[t] = "deleted" THEN 1 ELSE 0
Locked(t) == IF lock[t] # None THEN 1 ELSE 0
Aborted(t) == IF lock[t] # None /\ tx[lock[t]] = "aborted" THEN 1 ELSE 0

AccountInv ==
    \A t \in Tasks :
        /\ runs[t] = rollbacks[t] + Locked(t) + Removed(t)
        /\ rollbacks[t] + Aborted(t) <= faults

\* A loop that may still scan has claimed nothing since its plugin was stopped.
LateInv ==
    \A l \in Loops :
        /\ late[l] <= 1
        /\ runLoop[PluginOf[l]] \/ pc[l] = "scan" => late[l] = 0

IInv == TypeOK /\ LockInv /\ LoopInv /\ RowInv /\ AccountInv /\ LateInv
-----------------------------------------------------------------------------
\* The empty table and the loops of processes that have just started.
LEMMA InitInv == Init => IInv
<1> SUFFICES ASSUME Init PROVE IInv
  OBVIOUS
<1>1. TypeOK
  BY ConstantsAssumption DEF Init, TypeOK, Times
<1>2. LockInv
  BY DEF Init, LockInv, Live
<1>3. LoopInv
  BY ConstantsAssumption DEF Init, LoopInv, Busy, ProcOfLoop
<1>4. RowInv /\ AccountInv /\ LateInv
  BY DEF Init, RowInv, AccountInv, LateInv, Removed, Locked, Aborted
<1> QED BY <1>1, <1>2, <1>3, <1>4 DEF IInv

(* One lemma per action: it preserves the invariant.                       *)

\* A refused request only gets its answer.
LEMMA RejectInv ==
    ASSUME IInv, NEW p \in Plugins, NEW t \in Tasks, Reject(p, t)
    PROVE  IInv'
<1>1. TypeOK'
  BY DEF IInv, TypeOK, Reject, db, history
<1>2. RowInv'
  BY DEF IInv, RowInv, Reject, db, history
<1>3. (LockInv /\ LoopInv /\ AccountInv /\ LateInv)'
  BY DEF IInv, LockInv, LoopInv, AccountInv, Removed, Locked, Aborted, LateInv,
     Reject, db, history
<1> QED BY <1>1, <1>2, <1>3 DEF IInv

\* A new row has no history.
LEMMA ScheduleInv ==
    ASSUME IInv, NEW p \in Plugins, NEW t \in Tasks, NEW time \in Times, Schedule(p, t, time)
    PROVE  IInv'
<1>1. TypeOK'
  BY ConstantsAssumption DEF IInv, TypeOK, Schedule, Insert, history
<1>2. LockInv'
  BY DEF IInv, LockInv, Schedule, Insert
<1>3. RowInv'
  BY DEF IInv, TypeOK, RowInv, Schedule, Insert, history
<1>4. AccountInv'
  BY DEF IInv, AccountInv, Removed, Locked, Aborted, Schedule, Insert, history
<1>5. (LoopInv /\ LateInv)'
  BY DEF IInv, LoopInv, LateInv, Schedule, history
<1> QED BY <1>1, <1>2, <1>3, <1>4, <1>5 DEF IInv

\* The same row, whose client was told of an error.
LEMMA ScheduleUnconfirmedInv ==
    ASSUME IInv, NEW p \in Plugins, NEW t \in Tasks, NEW time \in Times, ScheduleUnconfirmed(p, t, time)
    PROVE  IInv'
<1>1. TypeOK'
  BY ConstantsAssumption DEF IInv, TypeOK, ScheduleUnconfirmed, Insert, Fault,
     history
<1>2. LockInv'
  BY DEF IInv, LockInv, ScheduleUnconfirmed, Insert
<1>3. RowInv'
  BY DEF IInv, RowInv, ScheduleUnconfirmed, Insert, history
<1>4. AccountInv'
  BY DEF IInv, TypeOK, AccountInv, Removed, Locked, Aborted,
     ScheduleUnconfirmed, Insert, Fault, history
<1>5. (LoopInv /\ LateInv)'
  BY DEF IInv, LoopInv, LateInv, ScheduleUnconfirmed, history
<1> QED BY <1>1, <1>2, <1>3, <1>4, <1>5 DEF IInv

\* Lowering the flag touches neither rows nor transactions.
LEMMA StopInv ==
    ASSUME IInv, NEW p \in Plugins, Stop(p)
    PROVE  IInv'
<1>1. TypeOK'
  BY DEF IInv, TypeOK, Stop, db, history
<1>2. LateInv'
  BY DEF IInv, LateInv, Stop, history
<1>3. (LockInv /\ LoopInv /\ RowInv /\ AccountInv)'
  BY DEF IInv, LockInv, LoopInv, RowInv, AccountInv, Removed, Locked, Aborted,
     Stop, db, history
<1> QED BY <1>1, <1>2, <1>3 DEF IInv

\* Only a loop whose plugin runs goes on to scan.
LEMMA TestInv ==
    ASSUME IInv, NEW l \in Loops, Test(l)
    PROVE  IInv'
<1>1. TypeOK'
  BY DEF IInv, TypeOK, Test, db, history
<1>2. LoopInv'
  BY DEF IInv, LoopInv, Busy, Test, history
<1>3. LateInv'
  BY DEF IInv, LateInv, Test, history
<1>4. (LockInv /\ RowInv /\ AccountInv)'
  BY DEF IInv, LockInv, RowInv, AccountInv, Removed, Locked, Aborted, Test, db,
     history
<1> QED BY <1>1, <1>2, <1>3, <1>4 DEF IInv

\* The row was unlocked, so one more execution holds its lock.
LEMMA ClaimInv ==
    ASSUME IInv, NEW l \in Loops, NEW t \in Tasks, Claim(l, t)
    PROVE  IInv'
<1>1. TypeOK'
  BY DEF IInv, TypeOK, Claim, Live
<1>2. LockInv'
  BY ConstantsAssumption DEF IInv, TypeOK, LockInv, LoopInv, Busy, Claim,
     Claimable, Live
<1>3. LoopInv'
  BY ConstantsAssumption DEF IInv, TypeOK, LoopInv, Busy, Claim
<1>4. RowInv'
  BY DEF IInv, TypeOK, RowInv, Claim, Claimable
<1>5. AccountInv'
  BY ConstantsAssumption DEF IInv, TypeOK, AccountInv, Removed, Locked,
     Aborted, Claim, Claimable
<1>6. LateInv'
  BY DEF IInv, TypeOK, LateInv, Claim
<1> QED BY <1>1, <1>2, <1>3, <1>4, <1>5, <1>6 DEF IInv

\* An iteration without a row.
LEMMA ScanFindsNothingInv ==
    ASSUME IInv, NEW l \in Loops, ScanFindsNothing(l)
    PROVE  IInv'
<1>1. TypeOK'
  BY DEF IInv, TypeOK, ScanFindsNothing, db, history
<1>2. LoopInv'
  BY DEF IInv, LoopInv, Busy, ScanFindsNothing, history
<1>3. LateInv'
  BY DEF IInv, LateInv, ScanFindsNothing, history
<1>4. (LockInv /\ RowInv /\ AccountInv)'
  BY DEF IInv, LockInv, RowInv, AccountInv, Removed, Locked, Aborted,
     ScanFindsNothing, db, history
<1> QED BY <1>1, <1>2, <1>3, <1>4 DEF IInv

\* An iteration that fails before it has a row.
LEMMA ScanFailsInv ==
    ASSUME IInv, NEW l \in Loops, ScanFails(l)
    PROVE  IInv'
<1>1. TypeOK'
  BY ConstantsAssumption DEF IInv, TypeOK, ScanFails, Fault, db, history
<1>2. LoopInv'
  BY DEF IInv, LoopInv, Busy, ScanFails, history
<1>3. AccountInv'
  BY DEF IInv, TypeOK, AccountInv, Removed, Locked, Aborted, ScanFails, Fault,
     db, history
<1>4. LateInv'
  BY DEF IInv, LateInv, ScanFails, history
<1>5. (LockInv /\ RowInv)'
  BY DEF IInv, LockInv, RowInv, ScanFails, db, history
<1> QED BY <1>1, <1>2, <1>3, <1>4, <1>5 DEF IInv

\* The execution comes to an end while its row may still be there.
LEMMA HandlerReturnsInv ==
    ASSUME IInv, NEW l \in Loops, HandlerReturns(l)
    PROVE  IInv'
<1>1. TypeOK'
  BY DEF IInv, TypeOK, LoopInv, Busy, HandlerReturns, db
<1>2. LoopInv'
  BY DEF IInv, TypeOK, LoopInv, Busy, HandlerReturns
<1>3. RowInv'
  BY DEF IInv, TypeOK, LoopInv, RowInv, Busy, HandlerReturns, db
<1>4. LateInv'
  BY DEF IInv, LateInv, HandlerReturns
<1>5. (LockInv /\ AccountInv)'
  BY DEF IInv, LockInv, AccountInv, Removed, Locked, Aborted, HandlerReturns,
     db
<1> QED BY <1>1, <1>2, <1>3, <1>4, <1>5 DEF IInv

\* The uncommitted DELETE changes the transaction, not the table.
LEMMA DeleteInv ==
    ASSUME IInv, NEW l \in Loops, Delete(l)
    PROVE  IInv'
<1>1. TypeOK'
  BY DEF IInv, TypeOK, Delete, Live, db, history
<1>2. LockInv'
  BY DEF IInv, LockInv, Delete, Live, db
<1>3. LoopInv'
  BY DEF IInv, TypeOK, LoopInv, Busy, Delete, history
<1>4. AccountInv'
  BY DEF IInv, AccountInv, Removed, Locked, Aborted, Delete, db, history
<1>5. LateInv'
  BY DEF IInv, LateInv, Delete, history
<1>6. RowInv'
  BY DEF IInv, RowInv, Delete, db, history
<1> QED BY <1>1, <1>2, <1>3, <1>4, <1>5, <1>6 DEF IInv

\* The fault pays for the roll back to come.
LEMMA DeleteFailsInv ==
    ASSUME IInv, NEW l \in Loops, DeleteFails(l)
    PROVE  IInv'
<1>1. TypeOK'
  BY ConstantsAssumption DEF IInv, TypeOK, DeleteFails, Fault, Live, db,
     history
<1>2. LockInv'
  BY DEF IInv, LockInv, DeleteFails, Live, db
<1>3. LoopInv'
  BY DEF IInv, TypeOK, LoopInv, Busy, DeleteFails, history
<1>4. AccountInv'
  BY DEF IInv, TypeOK, AccountInv, Removed, Locked, Aborted, DeleteFails,
     Fault, db, history
<1>5. LateInv'
  BY DEF IInv, LateInv, DeleteFails, history
<1>6. RowInv'
  BY DEF IInv, RowInv, DeleteFails, db, history
<1> QED BY <1>1, <1>2, <1>3, <1>4, <1>5, <1>6 DEF IInv

\* The lock becomes the removal of the row.
LEMMA CommitInv ==
    ASSUME IInv, NEW l \in Loops, Commit(l)
    PROVE  IInv'
<1>1. TypeOK'
  BY DEF IInv, TypeOK, Commit, IterationEnds, history
<1>2. LockInv'
  BY DEF IInv, TypeOK, LockInv, Commit, IterationEnds, Live
<1>3. LoopInv'
  BY DEF IInv, TypeOK, LoopInv, Busy, Commit, IterationEnds, history
<1>4. RowInv'
  BY DEF IInv, LoopInv, RowInv, Commit, history
<1>5. AccountInv'
  BY ConstantsAssumption DEF IInv, TypeOK, LockInv, AccountInv, Removed,
     Locked, Aborted, Commit, IterationEnds, history
<1>6. LateInv'
  BY DEF IInv, LateInv, Commit, IterationEnds, history
<1> QED BY <1>1, <1>2, <1>3, <1>4, <1>5, <1>6 DEF IInv

\* The lock becomes a roll back, already paid for.
LEMMA CommitRollsBackInv ==
    ASSUME IInv, NEW l \in Loops, CommitRollsBack(l)
    PROVE  IInv'
<1>1. TypeOK'
  BY DEF IInv, TypeOK, CommitRollsBack, IterationEnds, RollBack
<1>2. LockInv'
  BY DEF IInv, TypeOK, LockInv, CommitRollsBack, IterationEnds, RollBack, Live
<1>3. LoopInv'
  BY DEF IInv, TypeOK, LoopInv, Busy, CommitRollsBack, IterationEnds
<1>4. AccountInv'
  BY ConstantsAssumption DEF IInv, TypeOK, LockInv, AccountInv, Removed,
     Locked, Aborted, CommitRollsBack, IterationEnds, RollBack, Live
<1>5. LateInv'
  BY DEF IInv, LateInv, CommitRollsBack, IterationEnds
<1>6. RowInv'
  BY DEF IInv, RowInv, CommitRollsBack
<1> QED BY <1>1, <1>2, <1>3, <1>4, <1>5, <1>6 DEF IInv

\* A new iteration begins.
LEMMA WakeInv ==
    ASSUME IInv, NEW l \in Loops, Wake(l)
    PROVE  IInv'
<1>1. TypeOK'
  BY DEF IInv, TypeOK, Wake, db, history
<1>2. LoopInv'
  BY DEF IInv, LoopInv, Busy, Wake, history
<1>3. LateInv'
  BY DEF IInv, LateInv, Wake, history
<1>4. (LockInv /\ RowInv /\ AccountInv)'
  BY DEF IInv, LockInv, RowInv, AccountInv, Removed, Locked, Aborted, Wake, db,
     history
<1> QED BY <1>1, <1>2, <1>3, <1>4 DEF IInv

\* The lock becomes a roll back while the loop keeps its task.
LEMMA ConnectionLostInv ==
    ASSUME IInv, NEW l \in Loops, ConnectionLost(l)
    PROVE  IInv'
<1>1. TypeOK'
  BY ConstantsAssumption DEF IInv, TypeOK, ConnectionLost, RollBack, Fault
<1>2. LockInv'
  BY DEF IInv, TypeOK, LockInv, ConnectionLost, RollBack, Live
<1>3. LoopInv'
  BY DEF IInv, LockInv, LoopInv, ConnectionLost
<1>4. AccountInv'
  BY ConstantsAssumption DEF IInv, TypeOK, AccountInv, Removed, Locked,
     Aborted, ConnectionLost, RollBack, Fault
<1>5. (RowInv /\ LateInv)'
  BY DEF IInv, RowInv, LateInv, ConnectionLost
<1> QED BY <1>1, <1>2, <1>3, <1>4, <1>5 DEF IInv

\* One fault pays for every row the process had locked.
LEMMA CrashInv ==
    ASSUME IInv, NEW q \in Procs, Crash(q)
    PROVE  IInv'
<1>1. TypeOK'
  BY ConstantsAssumption DEF IInv, TypeOK, Crash, Fault
<1>2. LockInv'
  BY DEF IInv, TypeOK, LockInv, Crash, Live, LoopsOf
<1>3. LoopInv'
  BY DEF IInv, LoopInv, Busy, Crash
<1>4. AccountInv'
  BY ConstantsAssumption DEF IInv, TypeOK, AccountInv, Removed, Locked,
     Aborted, Crash, Fault, LoopsOf
<1>5. LateInv'
  BY ConstantsAssumption DEF IInv, LateInv, Crash
<1>6. RowInv'
  BY DEF IInv, RowInv, Crash
<1> QED BY <1>1, <1>2, <1>3, <1>4, <1>5, <1>6 DEF IInv

\* The loops of a process that was down own nothing.
LEMMA RestartInv ==
    ASSUME IInv, NEW q \in Procs, Restart(q)
    PROVE  IInv'
<1>1. TypeOK'
  BY DEF IInv, TypeOK, Restart, db
<1>2. LoopInv'
  BY DEF IInv, TypeOK, LoopInv, Busy, Restart
<1>3. LateInv'
  BY ConstantsAssumption DEF IInv, TypeOK, LateInv, ProcOfLoop, Restart
<1>4. (LockInv /\ RowInv /\ AccountInv)'
  BY DEF IInv, LockInv, RowInv, AccountInv, Removed, Locked, Aborted, Restart,
     db
<1> QED BY <1>1, <1>2, <1>3, <1>4 DEF IInv

\* What was due stays due.
LEMMA TickInv ==
    ASSUME IInv, Tick
    PROVE  IInv'
<1>1. TypeOK'
  BY ConstantsAssumption DEF IInv, TypeOK, Tick, db, history
<1>2. RowInv'
  BY DEF IInv, TypeOK, Times, RowInv, Tick, db, history
<1>3. (LockInv /\ LoopInv /\ AccountInv /\ LateInv)'
  BY DEF IInv, LockInv, LoopInv, AccountInv, Removed, Locked, Aborted, LateInv,
     Tick, db, history
<1> QED BY <1>1, <1>2, <1>3 DEF IInv

\* No step, and no stuttering, leaves the invariant.
LEMMA StepInv == IInv /\ [Next]_vars => IInv'
<1> SUFFICES ASSUME IInv, [Next]_vars PROVE IInv'
  OBVIOUS
<1>1. CASE UNCHANGED vars
  BY <1>1 DEF vars, IInv, TypeOK, LockInv, LoopInv, RowInv, AccountInv,
     LateInv, Removed, Locked, Aborted
<1>2. ASSUME NEW p \in Plugins, NEW t \in Tasks,
             \/ Reject(p, t)
             \/ \E time \in Times : Schedule(p, t, time) \/ ScheduleUnconfirmed(p, t, time)
      PROVE  IInv'
  BY <1>2, RejectInv, ScheduleInv, ScheduleUnconfirmedInv
<1>3. ASSUME NEW p \in Plugins, Stop(p) PROVE IInv'
  BY <1>3, StopInv
<1>4. ASSUME NEW l \in Loops, LoopNext(l) PROVE IInv'
  BY <1>4, TestInv, ClaimInv, ScanFindsNothingInv, ScanFailsInv,
     HandlerReturnsInv, DeleteInv, DeleteFailsInv, CommitInv, CommitRollsBackInv,
     WakeInv DEF LoopNext
<1>5. ASSUME NEW l \in Loops, ConnectionLost(l) PROVE IInv'
  BY <1>5, ConnectionLostInv
<1>6. ASSUME NEW q \in Procs, Crash(q) \/ Restart(q) PROVE IInv'
  BY <1>6, CrashInv, RestartInv
<1>7. CASE Tick
  BY <1>7, TickInv
<1> QED BY <1>1, <1>2, <1>3, <1>4, <1>5, <1>6, <1>7 DEF Next

\* The invariant holds in every reachable state.
THEOREM Invariance == Spec => []IInv
BY InitInv, StepInv, PTL DEF Spec
-----------------------------------------------------------------------------
(* What follows from it.                                                   *)

\* Every variable keeps its type in every reachable state.
THEOREM TypeCorrect == Spec => []TypeOK
<1>1. IInv => TypeOK
  BY DEF IInv
<1> QED BY <1>1, Invariance, PTL

\* The execution of a task is begun once and, for each fault, at most once more.
THEOREM ExecutionsAreBounded == Spec => []RepeatedOnlyAfterFaults
<1>1. IInv => RepeatedOnlyAfterFaults
  <2> SUFFICES ASSUME IInv, NEW t \in Tasks PROVE runs[t] <= 1 + faults
    BY DEF RepeatedOnlyAfterFaults
  <2>1. Locked(t) + Removed(t) \in {0, 1}
    BY DEF IInv, LockInv, Locked, Removed
  <2>2. Aborted(t) \in {0, 1}
    BY DEF Aborted
  <2> QED BY <2>1, <2>2 DEF IInv, TypeOK, AccountInv, Locked, Removed
<1> QED BY <1>1, Invariance, PTL

\* Two executions of one task overlap only when one has lost its transaction.
THEOREM ExecutionsDoNotOverlap == Spec => []OneExecutionAtATime
<1>1. IInv => OneExecutionAtATime
  BY DEF IInv, TypeOK, LockInv, LoopInv, Busy, OneExecutionAtATime
<1> QED BY <1>1, Invariance, PTL

\* A task whose client was told "ok" stays in the table until it was executed.
THEOREM AcknowledgedTasksAreKept == Spec => []AcknowledgedTaskKept
<1>1. IInv => AcknowledgedTaskKept
  BY DEF IInv, TypeOK, RowInv, AcknowledgedTaskKept
<1> QED BY <1>1, Invariance, PTL

\* No execution begins before the task is due.
THEOREM NothingRunsEarly == Spec => []NotBeforeItsTime
<1>1. IInv => NotBeforeItsTime
  BY DEF IInv, RowInv, NotBeforeItsTime
<1> QED BY <1>1, Invariance, PTL

\* A stopped plugin's loop takes at most one more row.
THEOREM StoppedLoopsClaimOnce == Spec => []OneClaimAfterStop
<1>1. IInv => OneClaimAfterStop
  BY DEF IInv, LateInv, OneClaimAfterStop
<1> QED BY <1>1, Invariance, PTL

-----------------------------------------------------------------------------
(* The refinement: the table, the transactions and the loops implement     *)
(* ScheduledTasks. The initial states map to the initial one, and every    *)
(* step maps to a step or a stutter.                                       *)

\* What a step that leaves rows, executions and answers alone looks like.
LEMMA NothingSeen ==
    ASSUME UNCHANGED <<now, row, executeAt, reply, finished>>
    PROVE  UNCHANGED Promise!vars
BY DEF Promise!vars, StatusOf

\* The empty table promises nothing.
LEMMA InitRefines == Init => Promise!Init
BY DEF Init, Promise!Init, StatusOf

\* A refused request is refused.
LEMMA RejectRefines ==
    ASSUME NEW p \in Plugins, NEW t \in Tasks, Reject(p, t)
    PROVE  Promise!Refuse(t)
BY DEF Reject, db, history, Promise!Refuse, StatusOf

\* A row that is inserted is a task that is accepted, whatever the client is told.
LEMMA InsertRefines ==
    ASSUME IInv, NEW p \in Plugins, NEW t \in Tasks, NEW time \in Times,
           Schedule(p, t, time) \/ ScheduleUnconfirmed(p, t, time)
    PROVE  \E told \in {"ok", "error"} : Promise!Accept(t, time, told)
<1>1. row[t] = "absent" /\ reply[t] = "none" /\ finished[t] = 0
  BY DEF Schedule, ScheduleUnconfirmed, IInv, RowInv
<1>2. /\ row' = [row EXCEPT ![t] = "pending"]
      /\ executeAt' = [executeAt EXCEPT ![t] = time]
      /\ UNCHANGED <<now, finished>>
  BY DEF Schedule, ScheduleUnconfirmed, Insert, history
<1>3. reply' = [reply EXCEPT ![t] = "ok"] \/ reply' = [reply EXCEPT ![t] = "error"]
  BY DEF Schedule, ScheduleUnconfirmed
<1>4. [u \in Tasks |-> StatusOf(u)]' = [[u \in Tasks |-> StatusOf(u)] EXCEPT ![t] = "pending"]
  BY <1>1, <1>2 DEF StatusOf, IInv, TypeOK
<1> QED BY <1>1, <1>2, <1>3, <1>4 DEF Promise!Accept, StatusOf

\* The end of the first execution of a task is its execution; a later one, or
\* one of a task that is removed already, goes unseen.
LEMMA HandlerReturnsRefines ==
    ASSUME IInv, NEW l \in Loops, HandlerReturns(l)
    PROVE  Promise!Execute(task[l]) \/ UNCHANGED Promise!vars
<1> DEFINE t == task[l]
<1>1. t \in Tasks /\ runs[t] > 0 /\ finished[t] \in Nat
  BY DEF HandlerReturns, IInv, TypeOK, LoopInv, Busy
<1>2. executeAt[t] < now /\ row[t] \in {"pending", "deleted"}
  BY <1>1 DEF IInv, TypeOK, RowInv
<1>3. /\ finished' = [finished EXCEPT ![t] = @ + 1]
      /\ UNCHANGED <<now, row, executeAt, reply>>
  BY DEF HandlerReturns, db
<1>4. CASE row[t] = "pending" /\ finished[t] = 0
  <2>1. StatusOf(t) = "pending"
    BY <1>4 DEF StatusOf
  <2>2. finished' \in [Tasks -> Nat] /\ finished'[t] = 1
    BY <1>1, <1>3, <1>4 DEF IInv, TypeOK
  <2>3. \A u \in Tasks : u # t => finished'[u] = finished[u]
    BY <1>3
  <2>4. \A u \in Tasks : StatusOf(u)' = IF u = t THEN "executed" ELSE StatusOf(u)
    BY <1>3, <1>4, <2>2, <2>3 DEF StatusOf
  <2> QED BY <1>1, <1>2, <1>3, <2>1, <2>4 DEF Promise!Execute
<1>5. CASE ~(row[t] = "pending" /\ finished[t] = 0)
  <2>1. \A u \in Tasks : StatusOf(u)' = StatusOf(u)
    BY <1>1, <1>2, <1>3, <1>5 DEF StatusOf
  <2> QED BY <1>3, <2>1 DEF Promise!vars
<1> QED BY <1>4, <1>5

\* The commit of the DELETE forgets a task that was executed.
LEMMA CommitRefines ==
    ASSUME IInv, NEW l \in Loops, Commit(l)
    PROVE  Promise!Remove(task[l])
<1> DEFINE t == task[l]
<1>1. t \in Tasks /\ finished[t] > 0 /\ row[t] = "pending"
  BY ConstantsAssumption DEF Commit, IInv, TypeOK, LockInv, LoopInv
<1>2. /\ row' = [row EXCEPT ![t] = "deleted"]
      /\ UNCHANGED <<now, executeAt, reply, finished>>
  BY DEF Commit, history
<1>3. StatusOf(t) = "executed"
  BY <1>1 DEF StatusOf
<1>4. [u \in Tasks |-> StatusOf(u)]' = [[u \in Tasks |-> StatusOf(u)] EXCEPT ![t] = "removed"]
  BY <1>1, <1>2 DEF StatusOf, IInv, TypeOK
<1> QED BY <1>1, <1>2, <1>3, <1>4 DEF Promise!Remove

\* No other step is seen, except that time passes.
LEMMA OthersRefine ==
    ASSUME \/ \E p \in Plugins : Stop(p)
           \/ \E l \in Loops : \/ Test(l) \/ \E t \in Tasks : Claim(l, t)
                               \/ ScanFindsNothing(l) \/ ScanFails(l)
                               \/ Delete(l) \/ DeleteFails(l)
                               \/ CommitRollsBack(l) \/ Wake(l) \/ ConnectionLost(l)
           \/ \E q \in Procs : Crash(q) \/ Restart(q)
    PROVE  UNCHANGED Promise!vars
<1>1. UNCHANGED <<now, row, executeAt, reply, finished>>
  BY DEF Stop, Test, Claim, ScanFindsNothing, ScanFails, Delete, DeleteFails,
     CommitRollsBack, Wake, ConnectionLost, Crash, Restart, db, history
<1> QED BY <1>1, NothingSeen

\* The clock is the clock.
LEMMA TickRefines == Tick => Promise!Advance
BY DEF Tick, db, history, Promise!Advance, StatusOf

\* Every step is a step of the promise, or is not seen by it.
LEMMA StepRefines == IInv /\ [Next]_vars => [Promise!Next]_Promise!vars
<1> SUFFICES ASSUME IInv, [Next]_vars PROVE [Promise!Next]_Promise!vars
  OBVIOUS
<1>1. CASE UNCHANGED vars
  BY <1>1, NothingSeen DEF vars
<1>2. ASSUME NEW p \in Plugins, NEW t \in Tasks, Reject(p, t) PROVE Promise!Next
  BY <1>2, RejectRefines DEF Promise!Next
<1>3. ASSUME NEW p \in Plugins, NEW t \in Tasks, NEW time \in Times,
             Schedule(p, t, time) \/ ScheduleUnconfirmed(p, t, time)
      PROVE  Promise!Next
  <2>1. time \in 0..MaxTime
    BY ConstantsAssumption DEF Times
  <2> QED BY <1>3, <2>1, InsertRefines DEF Promise!Next
<1>4. ASSUME NEW l \in Loops, HandlerReturns(l) PROVE [Promise!Next]_Promise!vars
  <2>1. task[l] \in Tasks
    BY <1>4 DEF HandlerReturns, IInv, TypeOK, LoopInv, Busy
  <2> QED BY <1>4, <2>1, HandlerReturnsRefines DEF Promise!Next
<1>5. ASSUME NEW l \in Loops, Commit(l) PROVE Promise!Next
  <2>1. task[l] \in Tasks
    BY <1>5 DEF Commit, IInv, TypeOK, LoopInv
  <2> QED BY <1>5, <2>1, CommitRefines DEF Promise!Next
<1>6. CASE Tick
  BY <1>6, TickRefines DEF Promise!Next
<1> QED BY <1>1, <1>2, <1>3, <1>4, <1>5, <1>6, OthersRefine DEF Next, LoopNext

\* What a client sees of the scheduler is what ScheduledTasks promises.
THEOREM Refinement == Spec => KeepsPromise
BY InitRefines, StepRefines, Invariance, PTL DEF Spec, KeepsPromise,
   Promise!Spec
=============================================================================
