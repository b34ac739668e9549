CONSTANTS
    q1 = q1
    q2 = q2
    p1 = p1
    p2 = p2
    l1 = l1
    l2 = l2
    i1 = i1
    t1 = t1
    t2 = t2
    None = None
    Procs = {q1, q2}
    Tasks = {t1, t2}
    Plugins = {p1, p2}
    Loops = {l1, l2}
    Ids = {i1}
    ProcOf <- ReplicaProcOf
    IdOf <- ReplicaIdOf
    PluginOf <- ReplicaPluginOf
    MaxTime = 2
    MaxFaults = 2
SPECIFICATION FairSpec
CONSTRAINT FirstThenSecond
INVARIANTS
    TypeOK
    RepeatedOnlyAfterFaults
    OneExecutionAtATime
    AcknowledgedTaskKept
    NotBeforeItsTime
    OneClaimAfterStop
PROPERTIES
    KeepsPromise
    EveryTaskIsServed
    StoppedLoopsEnd
CHECK_DEADLOCK FALSE
