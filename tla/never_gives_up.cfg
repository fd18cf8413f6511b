\* Failed attempts that come quickly keep the give-up timer from ever firing.
SPECIFICATION FairSpec
CONSTANTS
    Threshold = 2
    ValidAfter = 2
    RetryMax = 1
    AttemptMax = 2
    GiveUpPeriod = 3
    GiveUpAfter = 4
PROPERTIES
    GivesUpInTheEnd
