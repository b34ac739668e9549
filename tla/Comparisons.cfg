CONSTANTS
    Half = 8
    Exact = 4
    Rounded <- MCRounded
    NaN = NaN
    MaxOthers = 1
SPECIFICATION Spec
INVARIANTS
    NumbersCompareByValue
    OrderIsTotal
    OppositesFailTogether
CHECK_DEADLOCK FALSE
