CONSTANTS
    None = None
    r1 = r1
    r2 = r2
    Requests = {r1, r2}
    Listeners <- AllListeners
    Durations = {0, 2}
    MaxAttempts = 5
SPECIFICATION FairSpec
CONSTRAINT Met
INVARIANTS
    TypeOK
    AttemptsAreBounded
    ErrorHandledOnce
    StoredOnce
    FilesOutliveTheirUse
    LeftFilesAreExplained
PROPERTIES
    PersistentFilesStay
    ExecutesAsPromised
    EveryRequestIsAnswered
CHECK_DEADLOCK FALSE
