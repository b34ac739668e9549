CONSTANTS
    None = None
    r1 = r1
    r2 = r2
    Requests = {r1}
    Listeners <- CollidingListeners
    Durations = {0}
    MaxAttempts = 1
SPECIFICATION Spec
INVARIANTS
    TemporaryFilesAreDeleted
CHECK_DEADLOCK FALSE
