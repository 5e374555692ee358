CONSTANTS
    Plans <- MCPlans
    RetryLimit = 1
    LongRetryLimit = 1
    ProgressLimit = 1
    AdapterLimit = 1
    AutoAssist = TRUE
    MaxRuns = 4
    MaxStops = 1
    MaxMessages = 2
SPECIFICATION RecoverySpec
INVARIANTS
    RecoveryTypeOK
    ChainIsBounded
    StageIsAttended
PROPERTIES ComesToRest
CHECK_DEADLOCK FALSE
