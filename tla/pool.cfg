SPECIFICATION Spec
CONSTANTS
    Keys = {k1, k2, k3}
    Callers = {a, b}
    Size = 2
    MaxIdle = 2
    MaxClock = 7
    None = None
CHECK_DEADLOCK FALSE
INVARIANTS
    TypeOK
    IndexSound
    LentToItsKey
    RoomForEveryInsert
PROPERTIES
    EvictsOldest
    LostToRacesOnly
