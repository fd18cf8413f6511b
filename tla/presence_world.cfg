\* One phone and every event of the environment.
SPECIFICATION Spec
CONSTANTS
    p1 = p1
    p2 = p2
    NoPeer = NoPeer
    Peers = {p1}
    MaxSlots = 1
    MaxBonds = 1
    MaxConn = 1
    ProbeAfter = 0
    ProbeTimeout = 1
    ProbeCooldown = 1
    ReprobeOut = 1
    TimeoutMin = 1
    TimeoutMax = 2
    Debounce = 1
    Features = {"hid", "pair", "repeat", "revoke", "wipe", "ntp", "timeout", "reboot",
                "appendfail", "hcierror", "lateclock"}
INVARIANTS
    TypeOK
    ScannerKept
    PromptOut
