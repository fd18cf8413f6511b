\* Two phones and revocation: slots are freed and claimed under running probes.
SPECIFICATION Spec
CONSTANTS
    p1 = p1
    p2 = p2
    NoPeer = NoPeer
    Peers = {p1, p2}
    MaxSlots = 2
    MaxBonds = 1
    MaxConn = 1
    ProbeAfter = 0
    ProbeTimeout = 1
    ProbeCooldown = 1
    ReprobeOut = 1
    TimeoutMin = 1
    TimeoutMax = 1
    Debounce = 0
    Features = {"hid", "pair", "revoke"}
SYMMETRY PeerSymmetry
VIEW SlotView
INVARIANTS
    OneSlotPerPeer
    ProbingOwnsConn
    BondedTracked
