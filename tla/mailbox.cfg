SPECIFICATION FairSpec
CONSTANTS
    Capacity = 2
    Timers = {t1, t2}
    MaxRevision = 4
    MaxFaults = 1
    None = None
CHECK_DEADLOCK FALSE
INVARIANTS
    TypeOK
    NothingForgotten
PROPERTIES
    ChangesAreSeen
