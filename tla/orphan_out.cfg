\* The wall clock becomes known some time after boot: an IN is swallowed, its OUT is not.
SPECIFICATION Spec
CONSTANTS
    p1 = p1
    p2 = p2
    NoPeer = NoPeer
    Peers = {p1}
    MaxSlots = 1
    MaxBonds = 1
    MaxConn = 1
    ProbeAfter = 1
    ProbeTimeout = 1
    ProbeCooldown = 1
    ReprobeOut = 2
    TimeoutMin = 2
    TimeoutMax = 2
    Debounce = 1
    Features = {"lateclock"}
SYMMETRY PeerSymmetry
INVARIANTS
    NoOrphanOut
