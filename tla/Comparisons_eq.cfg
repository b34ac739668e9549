CONSTANTS
    Half = 2
    Exact = 2
    Rounded <- MCRounded
    NaN = NaN
    MaxOthers = 2
SPECIFICATION Spec
INVARIANTS
    EqIsAnyEqual
CHECK_DEADLOCK FALSE
