SPECIFICATION RSpec
CONSTANTS
    Clients = {p1}
    Appliers = {p1}
    Configs = {c1, bad}
    Valid = {c1}
    Bootstraps = {b1, b2, b3}
    Tokens = {t1, t2, t3}
    Absent = Absent
    Empty = Empty
    MaxBoots = 2
    MaxFaults = 1
INVARIANTS
    RTypeOK
    RebootsWiped
SYMMETRY Symmetry
PROPERTIES
    ReturnsToMaintenance
    CycleSpec
CHECK_DEADLOCK FALSE
