\* A phone pairs on its HID link and stays linked: the tick takes it for gone.
SPECIFICATION Spec
CONSTANTS
    p1 = p1
    p2 = p2
    NoPeer = NoPeer
    Peers = {p1}
    MaxSlots = 1
    MaxBonds = 1
    MaxConn = 2
    ProbeAfter = 1
    ProbeTimeout = 1
    ProbeCooldown = 1
    ReprobeOut = 2
    TimeoutMin = 2
    TimeoutMax = 2
    Debounce = 1
    Features = {"hid", "pair"}
SYMMETRY PeerSymmetry
PROPERTIES
    NoOutWhileLinked
