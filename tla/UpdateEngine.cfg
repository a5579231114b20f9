SPECIFICATION Spec
CONSTANTS
    c1 = c1
    c2 = c2
    Callers = {c1, c2}
    Operator = c1
    Habit = "os"
    MaxVersion = 3
    MaxFaults = 1
SYMMETRY CallerSymmetry
INVARIANTS
    TypeOK
    RebootHasReason
PROPERTIES
    NothingSkipped
    RollbackLeaves
CHECK_DEADLOCK FALSE
