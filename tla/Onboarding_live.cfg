SPECIFICATION FairSpec
CONSTANTS
    Clients = {p1, p2}
    Appliers = {p1, p2}
    Configs = {c1, bad}
    Valid = {c1}
    Bootstraps = {b1, b2}
    Tokens = {t1, t2, t3}
    Absent = Absent
    Empty = Empty
    MaxBoots = 1
    MaxFaults = 1
PROPERTIES UnconfiguredServes GrantedConfigures CallsEnd
CHECK_DEADLOCK FALSE
