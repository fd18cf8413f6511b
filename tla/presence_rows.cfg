\* Two phones, two slots, HID links, and a log that may be locked for some time: the
\* rows and the marks.
SPECIFICATION Spec
CONSTANTS
    p1 = p1
    p2 = p2
    NoPeer = NoPeer
    Peers = {p1, p2}
    MaxSlots = 2
    MaxBonds = 2
    MaxConn = 2
    ProbeAfter = 0
    ProbeTimeout = 1
    ProbeCooldown = 1
    ReprobeOut = 1
    TimeoutMin = 2
    TimeoutMax = 2
    Debounce = 2
    Features = {"hid", "stall"}
SYMMETRY PeerSymmetry
VIEW RowsView
CONSTRAINT NoLongWait
INVARIANTS
    NoOrphanOut
    NoDoubleIn
    AbsentMeansClosed
    PresenceIsTrue
    ConnectedMeansLinked
