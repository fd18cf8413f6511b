\* Two phones, three recording tasks, deletions, restarts and failing writes.
SPECIFICATION Spec
CONSTANTS
    p1 = p1
    p2 = p2
    p3 = p3
    Peers = {p1, p2}
    NoPeer = NoPeer
    MaxWorkers = 2
    MaxId = 4
    MaxRows = 1
    Faults = {"save", "next", "erase", "rows"}
SYMMETRY Phones
VIEW RegistryView
CONSTRAINT StillTrusted
INVARIANTS
    IdsAreNotReused
    WritesThrough
    OneWorkerPerPeer
