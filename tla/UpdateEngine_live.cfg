SPECIFICATION FairSpec
CONSTANTS
    c1 = c1
    c2 = c2
    Callers = {c1}
    Operator = c1
    Habit = "os"
    MaxVersion = 3
    MaxFaults = 2
PROPERTIES
    CallsEnd
    Converges
CHECK_DEADLOCK FALSE
