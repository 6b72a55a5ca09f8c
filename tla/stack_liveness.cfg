SPECIFICATION FairSpec
CONSTANTS
    Commits = {c1}
    DestroyNames = {d1, d2}
    None = None
    Configs <- MCDestroy
    Propagations = {"background"}
    MaxGeneration = 2
    MaxFaults = 0
    MaxRunFailures = 1
    MaxCrashes = 0
    PromptExecutors = TRUE
CHECK_DEADLOCK FALSE
PROPERTIES
    DeletionCompletes
    Converges
