SPECIFICATION FairSpec
CONSTANTS
    MaxOps = 2
    Kinds = {"up"}
    MaxAttempts = 2
    Capacity = 1
    Limit = 2
    MaxRestarts = 1
CHECK_DEADLOCK FALSE
INVARIANTS
    TypeOK
    SuccessIsReal
    LockedChangedNothing
    StaleLockIsKnown
PROPERTIES
    ProcessesEnd
    RefinesOperation
