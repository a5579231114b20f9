SPECIFICATION Spec
CONSTANTS
    before = before
    after = after
    c1 = c1
    bad = bad
    K0s = K0s
    None = None
    Configs = {c1, bad}
    Unreadable = {bad}
    MaxChanges = 3
    MaxFaults = 2
    UnitNames <- TwoUnits
INVARIANTS
    TypeOK
    ListIsAMoment
    
