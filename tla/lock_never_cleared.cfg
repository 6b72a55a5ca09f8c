SPECIFICATION FairSpec
CONSTANTS
    Cap = 9
    LockTimeout = 6
    MaxFaults = 0
    MaxEdits = 0
    MaxKills = 1
CHECK_DEADLOCK FALSE
PROPERTIES
    StaleLockCleared
