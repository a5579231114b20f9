SPECIFICATION Spec
CONSTANTS
    Clients = {p1, p2}
    Appliers = {p1, p2}
    Configs = {c1, c2, bad}
    Valid = {c1, c2}
    Bootstraps = {b1, b2}
    Tokens = {t1, t2, t3}
    Absent = Absent
    Empty = Empty
    MaxBoots = 2
    MaxFaults = 2
SYMMETRY Symmetry
INVARIANT InstalledIsServed
PROPERTY MaintenanceSpec
CHECK_DEADLOCK FALSE
