SPECIFICATION FairSpec
CONSTANTS
    s1 = s1
    Streams = {s1}
    Kinds = {"event", "plain", "odd", "long"}
    TailLines = 2
    MaxRecords = 3
    MaxFaults = 2
INVARIANTS
    TypeOK
    NoHoles
    ChildrenReaped
PROPERTIES
    CancelledEnds
    DrainEnds
