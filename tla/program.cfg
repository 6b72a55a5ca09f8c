SPECIFICATION FairSpec
CONSTANTS
    s1 = s1
    Stacks = {s1}
    MaxGeneration = 2
    MaxFaults = 1
    MaxRestarts = 1
CHECK_DEADLOCK FALSE
INVARIANTS
    TypeOK
    TemplatesServed
PROPERTIES
    GoneUnused
    NeverGoesBack
    Converges
    DestroysEnd
