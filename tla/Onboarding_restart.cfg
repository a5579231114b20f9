SPECIFICATION Spec
CONSTANTS
    Clients = {p1}
    Appliers = {p1}
    Configs = {c1, c2, bad}
    Valid = {c1, c2}
    Bootstraps = {b1}
    Tokens = {t1}
    Absent = Absent
    Empty = Empty
    MaxBoots = 2
    MaxFaults = 0
INVARIANT NodeBoots
CHECK_DEADLOCK FALSE
