\* A SoftAP that was forced by the boot-loop counter cannot be set up for long.
SPECIFICATION Spec
CONSTANTS
    Threshold = 2
    ValidAfter = 2
    RetryMax = 1
    AttemptMax = 2
    GiveUpPeriod = 2
    GiveUpAfter = 4
INVARIANTS
    RecoveryIsFixable
