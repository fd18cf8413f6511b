\* A recording that straddles the deletion of its worker; nothing fails.
SPECIFICATION Spec
CONSTANTS
    p1 = p1
    p2 = p2
    p3 = p3
    Peers = {p1, p2}
    NoPeer = NoPeer
    MaxWorkers = 2
    MaxId = 3
    MaxRows = 1
    Faults = {}
SYMMETRY Phones
INVARIANTS
    DeletedIsGone
