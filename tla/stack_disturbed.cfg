SPECIFICATION Spec
CONSTANTS
    Commits = {c1}
    DestroyNames = {d1}
    None = None
    Configs <- MCDisturbed
    Propagations = {"background"}
    MaxGeneration = 1
    MaxFaults = 1
    MaxRunFailures = 1
    MaxCrashes = 1
    PromptExecutors = FALSE
CHECK_DEADLOCK FALSE
INVARIANTS
    TypeOK
    InFlightProtected
    UnrecordedCostFailures
PROPERTIES
    RefinesContract
