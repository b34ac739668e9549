CONSTANTS
    None = None
    Deliveries = {d1, d2}
    Contexts = {x1, x2}
SPECIFICATION FairSpec
INVARIANTS
    TypeOK
    OnlyLateHandlersMixUp
    SuccessMeansProcessed
PROPERTIES
    EveryDeliveryIsAnswered
CHECK_DEADLOCK FALSE
