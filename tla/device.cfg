\* Provisioning, crashes, updates and the station's timers.
SPECIFICATION FairSpec
CONSTANTS
    Threshold = 2
    ValidAfter = 2
    RetryMax = 1
    AttemptMax = 2
    GiveUpPeriod = 2
    GiveUpAfter = 4
INVARIANTS
    TypeOK
    RecoveryOpens
    StationIsProvisioned
    SetupReachable
    UnprovenOnTrial
PROPERTIES
    GiveUpIsEarned
    StationReconnects
