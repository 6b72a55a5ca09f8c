SPECIFICATION FairSpec
CONSTANTS
    Recheck = 2
    Grace = 3
    Late = 1
    MaxFaults = 2
    MaxFlips = 2
    MaxRestarts = 1
CHECK_DEADLOCK FALSE
INVARIANTS
    TypeOK
    RecheckComes
PROPERTIES
    CleanupIsDue
    CleanupIsCurrent
    GraceEnds
