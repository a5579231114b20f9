SPECIFICATION Spec
CONSTANTS
    Segments <- MCSegments
    Decimal <- MCDecimal
    Folded <- MCFolded
    MaxInt64 = 10
    Versions <- MCVersions
INVARIANTS TypeOK OrderCorrect
CHECK_DEADLOCK FALSE
