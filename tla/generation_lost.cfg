SPECIFICATION Spec
CONSTANTS
    Commits = {c1}
    DestroyNames = {d1}
    None = None
    Configs <- MCKeep
    Propagations = {}
    MaxGeneration = 2
    MaxFaults = 0
    MaxRunFailures = 0
    MaxCrashes = 0
    PromptExecutors = TRUE
CHECK_DEADLOCK FALSE
INVARIANTS
    SucceededGenerationApplied
