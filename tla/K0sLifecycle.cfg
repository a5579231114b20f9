SPECIFICATION FairSpec
CONSTANTS
    c1 = c1
    c2 = c2
    Callers = {c1, c2}
    Operator = c1
    Sandboxed = FALSE
    MaxActs = 1
    MaxFaults = 1
INVARIANTS
    TypeOK
    OkMeansReady
PROPERTIES
    ResetIsClean
    HandlersReturn
    RetriesSucceed
CHECK_DEADLOCK FALSE
