----------------------------- MODULE Scheduler ------------------------------
(***************************************************************************)
(* The schedule plugin: requests for a later execution become rows of the  *)
(* scheduled tasks table, and the loop of every running plugin instance,   *)
(* in every process that shares the database, claims one due row at a time *)
(* with SELECT ... FOR UPDATE SKIP LOCKED, executes the listener inside    *)
(* the transaction and deletes the row before it commits.                  *)
(*                                                                         *)
(* A fault is a statement, a commit or a connection that fails, or a       *)
(* process that dies; MaxFaults bounds their number.                       *)
(***************************************************************************)
EXTENDS Integers

CONSTANTS
    Tasks,      \* the requests that ask for a later execution
    Procs,      \* qValet processes sharing the database
    Plugins,    \* schedule plugin instances
    Loops,      \* goroutines running PluginSchedule.loop
    Ids,        \* the ids of schedule plugins (config.Id), a row's listener_id
    ProcOf,     \* ProcOf[p]: the process of plugin p
    IdOf,       \* IdOf[p]: the id of plugin p
    PluginOf,   \* PluginOf[l]: the plugin whose OnStart began loop l
    None,       \* no task, no loop
    MaxTime,    \* bound of the clock
    MaxFaults   \* bound of the number of faults

ASSUME ConstantsAssumption ==
    /\ ProcOf \in [Plugins -> Procs]
    /\ IdOf \in [Plugins -> Ids]
    /\ PluginOf \in [Loops -> Plugins]
    /\ None \notin Tasks
    /\ None \notin Loops
    /\ MaxTime \in Nat \ {0}
    /\ MaxFaults \in Nat

VARIABLES
    now,        \* the clock
    row,        \* row[t]: "absent", "pending" or "deleted" in the committed table
    executeAt,  \* executeAt[t]: the row's execute_at
    listenerId, \* listenerId[t]: the row's listener_id
    reply,      \* reply[t]: what the scheduling request was answered
    lock,       \* lock[t]: the loop whose open transaction locks the row
    up,         \* up[q]: process q runs
    runLoop,    \* runLoop[p]: the flag of plugin p
    pc,         \* pc[l]: where loop l is
    task,       \* task[l]: the row that loop l has scanned
    tx,         \* tx[l]: the server's view of the transaction of loop l
    faults      \* number of faults so far

\* History: how often the execution of a task began, came to an end, lost its
\* transaction, and how many rows a loop claimed after its plugin was stopped.
VARIABLES runs, finished, rollbacks, late

db == <<row, executeAt, listenerId, lock>>
history == <<runs, finished, rollbacks, late>>
vars == <<now, row, executeAt, listenerId, reply, lock, up, runLoop, pc, task,
          tx, faults, runs, finished, rollbacks, late>>

\* Times a request may ask for; the last tick makes every one of them due.
Times == 0..(MaxTime - 1)

ProcOfLoop(l) == ProcOf[PluginOf[l]]
IdOfLoop(l) == IdOf[PluginOf[l]]
LoopsOf(q) == {l \in Loops : ProcOfLoop(l) = q}

\* The states of a transaction that still holds its row lock on the server:
\* "aborted" is one of whose statements failed, so that it can only roll back.
Live == {"open", "deleting", "aborted"}

Fault ==
    /\ faults < MaxFaults
    /\ faults' = faults + 1
-----------------------------------------------------------------------------
\* Every process has mounted its routes and started its plugins.
Init ==
    /\ now = 0
    /\ row = [t \in Tasks |-> "absent"]
    /\ executeAt = [t \in Tasks |-> 0]
    /\ listenerId = [t \in Tasks |-> None]
    /\ reply = [t \in Tasks |-> "none"]
    /\ lock = [t \in Tasks |-> None]
    /\ up = [q \in Procs |-> TRUE]
    /\ runLoop = [p \in Plugins |-> TRUE]
    /\ pc = [l \in Loops |-> "test"]
    /\ task = [l \in Loops |-> None]
    /\ tx = [l \in Loops |-> "none"]
    /\ faults = 0
    /\ runs = [t \in Tasks |-> 0]
    /\ finished = [t \in Tasks |-> 0]
    /\ rollbacks = [t \in Tasks |-> 0]
    /\ late = [l \in Loops |-> 0]
-----------------------------------------------------------------------------
(* The scheduling route: PluginSchedule.HookMountRoutes and scheduleTask.  *)

\* The time, the credentials or the arguments of the request are refused, or
\* the insert fails: the client gets an error and there is no row.
Reject(p, t) ==
    /\ up[ProcOf[p]]
    /\ row[t] = "absent" /\ reply[t] = "none"
    /\ reply' = [reply EXCEPT ![t] = "error"]
    /\ UNCHANGED <<now, db, up, runLoop, pc, task, tx, faults, history>>

\* Variant: the time is rounded up to the next tick.
Insert_RoundsUp(p, t, time) ==
    /\ row' = [row EXCEPT ![t] = "pending"]
    /\ executeAt' = [executeAt EXCEPT ![t] = time + 1]
    /\ listenerId' = [listenerId EXCEPT ![t] = IdOf[p]]

Insert(p, t, time) ==
    /\ row' = [row EXCEPT ![t] = "pending"]
    /\ executeAt' = [executeAt EXCEPT ![t] = time]
    /\ listenerId' = [listenerId EXCEPT ![t] = IdOf[p]]

\* Variant: the client is answered without waiting for the insert.
Schedule_RepliesFirst(p, t, time) ==
    /\ up[ProcOf[p]]
    /\ row[t] = "absent" /\ reply[t] = "none"
    /\ reply' = [reply EXCEPT ![t] = "ok"]
    /\ UNCHANGED <<now, db, up, runLoop, pc, task, tx, faults, history>>

\* A time in the past is accepted: the row is due at once.
Schedule(p, t, time) ==
    /\ up[ProcOf[p]]
    /\ row[t] = "absent" /\ reply[t] = "none"
    /\ Insert(p, t, time)
    /\ reply' = [reply EXCEPT ![t] = "ok"]
    /\ UNCHANGED <<now, lock, up, runLoop, pc, task, tx, faults, history>>

\* The insert is committed, but the connection fails before the client knows.
ScheduleUnconfirmed(p, t, time) ==
    /\ up[ProcOf[p]]
    /\ row[t] = "absent" /\ reply[t] = "none"
    /\ Fault
    /\ Insert(p, t, time)
    /\ reply' = [reply EXCEPT ![t] = "error"]
    /\ UNCHANGED <<now, lock, up, runLoop, pc, task, tx, history>>
-----------------------------------------------------------------------------
(* PluginSchedule.loop and loopIteration.                                  *)

\* `for p.runLoop`.
Test(l) ==
    /\ pc[l] = "test"
    /\ pc' = [pc EXCEPT ![l] = IF runLoop[PluginOf[l]] THEN "scan" ELSE "off"]
    /\ UNCHANGED <<now, db, reply, up, runLoop, task, tx, faults, history>>

\* Variant: the SELECT takes no row lock.
Claimable_WithoutLock(l) ==
    {t \in Tasks : /\ row[t] = "pending"
                   /\ listenerId[t] = IdOfLoop(l)
                   /\ executeAt[t] < now}

\* Variant: the SELECT does not look at execute_at.
Claimable_AtAnyTime(l) ==
    {t \in Tasks : /\ row[t] = "pending"
                   /\ listenerId[t] = IdOfLoop(l)
                   /\ lock[t] = None}

\* The rows the SELECT of loop l may return: due, of its id, locked by nobody.
Claimable(l) ==
    {t \in Tasks : /\ row[t] = "pending"
                   /\ listenerId[t] = IdOfLoop(l)
                   /\ executeAt[t] < now
                   /\ lock[t] = None}

\* Variant: the row is deleted for good when it is claimed.
Claim_DeletesFirst(l, t) ==
    /\ pc[l] = "scan"
    /\ t \in Claimable(l)
    /\ \A u \in Claimable(l) : executeAt[t] <= executeAt[u]
    /\ row' = [row EXCEPT ![t] = "deleted"]
    /\ lock' = [lock EXCEPT ![t] = l]
    /\ task' = [task EXCEPT ![l] = t]
    /\ tx' = [tx EXCEPT ![l] = "open"]
    /\ pc' = [pc EXCEPT ![l] = "handle"]
    /\ runs' = [runs EXCEPT ![t] = @ + 1]
    /\ late' = [late EXCEPT ![l] = IF runLoop[PluginOf[l]] THEN @ ELSE @ + 1]
    /\ UNCHANGED <<now, executeAt, listenerId, reply, up, runLoop, faults,
                   finished, rollbacks>>

\* ORDER BY execute_at ASC LIMIT 1 FOR UPDATE SKIP LOCKED; HandleRequest begins.
Claim(l, t) ==
    /\ pc[l] = "scan"
    /\ t \in Claimable(l)
    /\ \A u \in Claimable(l) : executeAt[t] <= executeAt[u]
    /\ lock' = [lock EXCEPT ![t] = l]
    /\ task' = [task EXCEPT ![l] = t]
    /\ tx' = [tx EXCEPT ![l] = "open"]
    /\ pc' = [pc EXCEPT ![l] = "handle"]
    /\ runs' = [runs EXCEPT ![t] = @ + 1]
    /\ late' = [late EXCEPT ![l] = IF runLoop[PluginOf[l]] THEN @ ELSE @ + 1]
    /\ UNCHANGED <<now, row, executeAt, listenerId, reply, up, runLoop, faults,
                   finished, rollbacks>>

\* sql.ErrNoRows.
ScanFindsNothing(l) ==
    /\ pc[l] = "scan"
    /\ Claimable(l) = {}
    /\ pc' = [pc EXCEPT ![l] = "sleep"]
    /\ UNCHANGED <<now, db, reply, up, runLoop, task, tx, faults, history>>

\* Variant: a database error ends the loop.
ScanFails_EndsLoop(l) ==
    /\ pc[l] = "scan"
    /\ Fault
    /\ pc' = [pc EXCEPT ![l] = "off"]
    /\ UNCHANGED <<now, db, reply, up, runLoop, task, tx, history>>

\* BEGIN or the SELECT fails: no row is locked and the iteration ends.
ScanFails(l) ==
    /\ pc[l] = "scan"
    /\ Fault
    /\ pc' = [pc EXCEPT ![l] = "sleep"]
    /\ UNCHANGED <<now, db, reply, up, runLoop, task, tx, history>>

\* Variant: the error of HandleRequest fails the transaction.
HandlerReturns_FailsTransaction(l) ==
    /\ pc[l] = "handle"
    /\ finished' = [finished EXCEPT ![task[l]] = @ + 1]
    /\ \/ pc' = [pc EXCEPT ![l] = "delete"] /\ tx' = tx
       \/ /\ pc' = [pc EXCEPT ![l] = "commit"]
          /\ tx' = [tx EXCEPT ![l] = IF @ = "open" THEN "aborted" ELSE @]
    /\ UNCHANGED <<now, db, reply, up, runLoop, task, faults, runs, rollbacks, late>>

\* HandleRequest returns. Its error becomes processingError, which does not
\* fail the transaction: the row is deleted either way.
HandlerReturns(l) ==
    /\ pc[l] = "handle"
    /\ pc' = [pc EXCEPT ![l] = "delete"]
    /\ finished' = [finished EXCEPT ![task[l]] = @ + 1]
    /\ UNCHANGED <<now, db, reply, up, runLoop, task, tx, faults, runs, rollbacks, late>>

\* The deferred DELETE. On a connection that is gone it fails.
Delete(l) ==
    /\ pc[l] = "delete"
    /\ pc' = [pc EXCEPT ![l] = "commit"]
    /\ tx' = [tx EXCEPT ![l] = IF @ = "open" THEN "deleting" ELSE @]
    /\ UNCHANGED <<now, db, reply, up, runLoop, task, faults, history>>

\* The DELETE fails on the server; its error is logged and forgotten.
DeleteFails(l) ==
    /\ pc[l] = "delete" /\ tx[l] = "open"
    /\ Fault
    /\ pc' = [pc EXCEPT ![l] = "commit"]
    /\ tx' = [tx EXCEPT ![l] = "aborted"]
    /\ UNCHANGED <<now, db, reply, up, runLoop, task, history>>

\* The transaction of loop l, if the server still has it, is gone without effect.
RollBack(l) ==
    /\ lock' = [t \in Tasks |-> IF lock[t] = l THEN None ELSE lock[t]]
    /\ rollbacks' = [t \in Tasks |-> IF lock[t] = l THEN rollbacks[t] + 1 ELSE rollbacks[t]]

IterationEnds(l) ==
    /\ pc[l] = "commit"
    /\ pc' = [pc EXCEPT ![l] = "sleep"]
    /\ task' = [task EXCEPT ![l] = None]
    /\ tx' = [tx EXCEPT ![l] = "none"]

\* COMMIT of a transaction that deleted the row.
Commit(l) ==
    /\ tx[l] = "deleting"
    /\ IterationEnds(l)
    /\ row' = [row EXCEPT ![task[l]] = "deleted"]
    /\ lock' = [lock EXCEPT ![task[l]] = None]
    /\ UNCHANGED <<now, executeAt, listenerId, reply, up, runLoop, faults, history>>

\* COMMIT of a transaction that can only roll back, or that is gone already.
CommitRollsBack(l) ==
    /\ tx[l] \in {"aborted", "lost"}
    /\ IterationEnds(l)
    /\ RollBack(l)
    /\ UNCHANGED <<now, row, executeAt, listenerId, reply, up, runLoop, faults,
                   runs, finished, late>>

\* Variant: the flag is not looked at again.
Wake_SkipsTest(l) ==
    /\ pc[l] = "sleep"
    /\ pc' = [pc EXCEPT ![l] = "scan"]
    /\ UNCHANGED <<now, db, reply, up, runLoop, task, tx, faults, history>>

\* time.Sleep, after a row pluginScheduleScanIntervalMin, else the scan interval.
Wake(l) ==
    /\ pc[l] = "sleep"
    /\ pc' = [pc EXCEPT ![l] = "test"]
    /\ UNCHANGED <<now, db, reply, up, runLoop, task, tx, faults, history>>
-----------------------------------------------------------------------------
(* The environment: connections, processes, shutdown and time.             *)

\* The connection of loop l dies: the server rolls back and unlocks the row
\* while the loop goes on with the listener, unaware.
ConnectionLost(l) ==
    /\ tx[l] \in Live
    /\ Fault
    /\ tx' = [tx EXCEPT ![l] = "lost"]
    /\ RollBack(l)
    /\ UNCHANGED <<now, row, executeAt, listenerId, reply, up, runLoop, pc, task,
                   runs, finished, late>>

\* Process q dies, or a listener panics in one of its loops: all its open
\* transactions are rolled back.
Crash(q) ==
    /\ up[q]
    /\ Fault
    /\ up' = [up EXCEPT ![q] = FALSE]
    /\ runLoop' = [p \in Plugins |-> runLoop[p] /\ ProcOf[p] # q]
    /\ pc' = [l \in Loops |-> IF ProcOfLoop(l) = q THEN "off" ELSE pc[l]]
    /\ task' = [l \in Loops |-> IF ProcOfLoop(l) = q THEN None ELSE task[l]]
    /\ tx' = [l \in Loops |-> IF ProcOfLoop(l) = q THEN "none" ELSE tx[l]]
    /\ lock' = [t \in Tasks |-> IF lock[t] \in LoopsOf(q) THEN None ELSE lock[t]]
    /\ rollbacks' = [t \in Tasks |->
                        IF lock[t] \in LoopsOf(q) THEN rollbacks[t] + 1 ELSE rollbacks[t]]
    /\ UNCHANGED <<now, row, executeAt, listenerId, reply, runs, finished, late>>

\* Process q is started again: main calls OnStart on its plugins.
Restart(q) ==
    /\ ~up[q]
    /\ up' = [up EXCEPT ![q] = TRUE]
    /\ runLoop' = [p \in Plugins |-> runLoop[p] \/ ProcOf[p] = q]
    /\ pc' = [l \in Loops |-> IF ProcOfLoop(l) = q THEN "test" ELSE pc[l]]
    /\ late' = [l \in Loops |-> IF ProcOfLoop(l) = q THEN 0 ELSE late[l]]
    /\ UNCHANGED <<now, db, reply, task, tx, faults, runs, finished, rollbacks>>

\* OnStop only lowers the flag: it neither wakes the loop nor waits for it.
Stop(p) ==
    /\ up[ProcOf[p]]
    /\ runLoop[p]
    /\ runLoop' = [runLoop EXCEPT ![p] = FALSE]
    /\ UNCHANGED <<now, db, reply, up, pc, task, tx, faults, history>>

Tick ==
    /\ now < MaxTime
    /\ now' = now + 1
    /\ UNCHANGED <<db, reply, up, runLoop, pc, task, tx, faults, history>>
-----------------------------------------------------------------------------
LoopNext(l) ==
    \/ Test(l)
    \/ \E t \in Tasks : Claim(l, t)
    \/ ScanFindsNothing(l)
    \/ ScanFails(l)
    \/ HandlerReturns(l)
    \/ Delete(l)
    \/ DeleteFails(l)
    \/ Commit(l)
    \/ CommitRollsBack(l)
    \/ Wake(l)

Next ==
    \/ \E p \in Plugins, t \in Tasks :
        \/ Reject(p, t)
        \/ \E time \in Times : Schedule(p, t, time) \/ ScheduleUnconfirmed(p, t, time)
    \/ \E p \in Plugins : Stop(p)
    \/ \E l \in Loops : LoopNext(l) \/ ConnectionLost(l)
    \/ \E q \in Procs : Crash(q) \/ Restart(q)
    \/ Tick

Spec == Init /\ [][Next]_vars

\* A goroutine that can run does, listeners return, time passes and a process
\* that died is started again. Requests, faults and shutdown need not happen.
Fairness ==
    /\ \A l \in Loops : WF_vars(LoopNext(l))
    /\ \A q \in Procs : WF_vars(Restart(q))
    /\ WF_vars(Tick)

FairSpec == Spec /\ Fairness
-----------------------------------------------------------------------------
(* Properties.                                                             *)

TypeOK ==
    /\ now \in 0..MaxTime
    /\ row \in [Tasks -> {"absent", "pending", "deleted"}]
    /\ executeAt \in [Tasks -> Times]
    /\ listenerId \in [Tasks -> Ids \cup {None}]
    /\ reply \in [Tasks -> {"none", "ok", "error"}]
    /\ lock \in [Tasks -> Loops \cup {None}]
    /\ up \in [Procs -> BOOLEAN]
    /\ runLoop \in [Plugins -> BOOLEAN]
    /\ pc \in [Loops -> {"off", "test", "scan", "handle", "delete", "commit", "sleep"}]
    /\ task \in [Loops -> Tasks \cup {None}]
    /\ tx \in [Loops -> {"none", "lost"} \cup Live]
    /\ faults \in 0..MaxFaults
    /\ runs \in [Tasks -> Nat]
    /\ finished \in [Tasks -> Nat]
    /\ rollbacks \in [Tasks -> Nat]
    /\ late \in [Loops -> Nat]

\* A task is executed once, and once more at most for every statement,
\* connection or process that failed: an execution that ends in an error is
\* not repeated, and no number of replicas scanning the table adds one.
RepeatedOnlyAfterFaults == \A t \in Tasks : runs[t] <= 1 + faults

\* Two loops execute the same task at the same time only when one of them has
\* lost its transaction: the row lock is what keeps replicas apart, so it must
\* be held from the scan to the commit and not only while the row is read.
OneExecutionAtATime ==
    \A l, m \in Loops :
        (l # m /\ pc[l] = "handle" /\ pc[m] = "handle" /\ task[l] = task[m])
            => (tx[l] = "lost" \/ tx[m] = "lost")

\* A task whose client was told "scheduled" is in the table until an execution
\* of it has come to an end, whatever process or connection dies in between.
AcknowledgedTaskKept ==
    \A t \in Tasks :
        reply[t] = "ok" => \/ row[t] = "pending"
                           \/ row[t] = "deleted" /\ finished[t] > 0

\* No task is executed at or before the time it was scheduled for.
NotBeforeItsTime == \A t \in Tasks : runs[t] > 0 => executeAt[t] < now

\* OnStop does not wait, so a loop that has already passed its test still takes
\* a row; it never takes a second one.
OneClaimAfterStop == \A l \in Loops : late[l] <= 1

\* What the client-visible promise sees of a task.
StatusOf(t) ==
    IF row[t] = "pending"
    THEN IF finished[t] = 0 THEN "pending" ELSE "executed"
    ELSE IF row[t] = "absent" THEN "absent" ELSE "removed"

Promise ==
    INSTANCE ScheduledTasks WITH
        clock <- now, due <- executeAt, answer <- reply,
        status <- [t \in Tasks |-> StatusOf(t)]

\* The table, the transactions and the loops keep the promise of ScheduledTasks:
\* accepted, then executed after its time, then and only then forgotten.
KeepsPromise == Promise!Spec

\* No plugin with id i has its loop running.
Stopped(i) == \A p \in Plugins : IdOf[p] = i => ~runLoop[p]

\* A task that is in the table is eventually removed from it, through crashes,
\* lost connections and replicas that stop, unless every plugin that could run
\* it is stopped for good.
EveryTaskIsServed ==
    \A t \in Tasks :
        row[t] = "pending" ~> (row[t] = "deleted" \/ []Stopped(listenerId[t]))

\* Once a plugin is stopped its loops come to an end.
StoppedLoopsEnd ==
    \A l \in Loops :
        ~runLoop[PluginOf[l]] ~> (pc[l] = "off" \/ runLoop[PluginOf[l]])
=============================================================================
