\* Two phones that come and go: departures and returns are noticed.
SPECIFICATION FairSpec
CONSTANTS
    p1 = p1
    p2 = p2
    NoPeer = NoPeer
    Peers = {p1, p2}
    MaxSlots = 2
    MaxBonds = 2
    MaxConn = 1
    ProbeAfter = 1
    ProbeTimeout = 1
    ProbeCooldown = 1
    ReprobeOut = 2
    TimeoutMin = 2
    TimeoutMax = 2
    Debounce = 1
    Features = {}
PROPERTIES
    DepartureNoticed
    ReturnNoticed
