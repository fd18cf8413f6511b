\* The log under failing calls and power loss; the views, stamps and debounce of its
\* rows; restores; sessions; the ring of log output; pairing and the HID advertisement.
SPECIFICATION MCSpec
CONSTANTS
    ph1 = ph1
    ph2 = ph2
    ph3 = ph3
    Row <- SomeRows
    Cutoffs = {1, 2, 3}
    Cap = 3
    MaxLines = 4
    PageRows <- TwoRows
    PageCutoffs = {2}
    PageCap = 2
    Queries <- SomeQueries
    NoOffset = NoOffset
    MaxPageRows = 3
    Lines <- SomeLines
    Ranges <- SomeRanges
    NoPeer = none
    MaxOpen = 2
    MaxToday = 2
    DayLen = 4
    Today = 8
    Days = 2
    MaskBits = 2
    MaxRead = 4
    Second = 2
    MaxWall = 7
    MaxStored = 3
    Recorded = {ph1, ph2, ph3}
    Unassigned = none
    DebounceSlots = 2
    DebounceTime = 3
    MaxMono = 4
    Owners = {ph1, ph2}
    NoOwner = none
    Backups <- SomeBackups
    MaxRegistry = 2
    MaxWorkerId = 3
    Passwords = {pw1, pw2}
    NoPassword = none
    MaxSessions = 2
    Ttl = 2
    MaxTime = 4
    MaxLogins = 4
    Byte = {0, 1}
    Nul = 0
    LogSize = 3
    MaxLine = 4
    h1 = h1
    h2 = h2
    Phones = {h1, h2}
    NoPhone = NoPhone
CONSTRAINT AtMostTwo
SYMMETRY PhoneSymmetry
INVARIANTS
    CountIsLines
    LatestRows
    PairedIsComplete
    NothingIsInvented
    TodayAgrees
    CalendarAgrees
    LatestIsFound
    RestoredIsKept
    RestoredInNvs
    SessionsAreEarned
    PasswordWorks
    AdvertisingKept
    FilterFollows
PROPERTIES
    KeepsLog
    ForgetsOnlyInACrowd
    EvictsTheOldest
    KeepsTail
