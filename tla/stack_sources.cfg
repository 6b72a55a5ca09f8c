SPECIFICATION Spec
CONSTANTS
    Commits = {c1, c2}
    DestroyNames = {d1}
    None = None
    Configs <- MCSources
    Propagations = {"background"}
    MaxGeneration = 2
    MaxFaults = 0
    MaxRunFailures = 0
    MaxCrashes = 0
    PromptExecutors = TRUE
CHECK_DEADLOCK FALSE
INVARIANTS
    OneInFlight
    DestroyedBeforeRemoval
    RecordedCommit
PROPERTIES
    ReclaimedWhenIdle
