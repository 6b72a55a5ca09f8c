SPECIFICATION FairSpec
CONSTANTS
    Cap = 9
    LockTimeout = 6
    MaxFaults = 3
    MaxEdits = 1
    MaxKills = 1
CHECK_DEADLOCK FALSE
INVARIANTS
    TypeOK
    RetryComes
PROPERTIES
    FailureRetried
