CONSTANTS
    None = None
    Routes <- MCRoutes
    Incoming <- MCIncoming
SPECIFICATION Spec
INVARIANTS
    TypeOK
    AcceptedRequestsHoldAKey
    RefusedRequestsHoldNone
    OwnListDecides
    ArgumentsAreTheRequests
CHECK_DEADLOCK FALSE
