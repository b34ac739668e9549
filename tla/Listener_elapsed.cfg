CONSTANTS
    None = None
    r1 = r1
    r2 = r2
    Requests = {r1}
    Listeners <- ElapsedListeners
    Durations = {1}
    MaxAttempts = 4
SPECIFICATION Spec
INVARIANTS
    RetriesEndAfterMaxElapsed
CHECK_DEADLOCK FALSE
