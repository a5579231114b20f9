SPECIFICATION Spec
CONSTANTS
    Clients = {p1, p2, p3}
    Appliers = {p1, p2, p3}
    Configs = {c1, c2, bad}
    Valid = {c1, c2}
    Bootstraps = {b1, b2}
    Tokens = {t1, t2, t3}
    Absent = Absent
    Empty = Empty
    MaxBoots = 1
    MaxFaults = 1
SYMMETRY Symmetry
INVARIANTS TypeOK AnchorConfigured GateHolds
PROPERTY BootstrapRejected
CHECK_DEADLOCK FALSE
