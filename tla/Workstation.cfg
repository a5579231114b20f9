SPECIFICATION Spec
CONSTANTS
    n1 = n1
    n2 = n2
    r1 = r1
    r2 = r2
    Loopback = Loopback
    K0s = K0s
    Own = {own}
    own = own
    None = None
    Nodes = {n1, n2}
    Runs = {r1, r2}
    MaxGens = 2
    MaxFaults = 1
SYMMETRY WorkstationSymmetry
INVARIANTS
    TypeOK
    ArtifactsMatch
    KubeWhole
PROPERTIES
    NotTurnedAway
    MergesKeep
CHECK_DEADLOCK FALSE
