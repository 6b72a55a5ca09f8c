SPECIFICATION Spec
CONSTANTS
    Commits = {c1}
    DestroyNames = {d1}
    None = None
    Configs <- MCDestroy
    Propagations = {"background"}
    MaxGeneration = 1
    MaxFaults = 0
    MaxRunFailures = 0
    MaxCrashes = 0
    PromptExecutors = TRUE
CHECK_DEADLOCK FALSE
INVARIANTS
    RequiredDestroyHappened
