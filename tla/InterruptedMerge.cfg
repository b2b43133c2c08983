SPECIFICATION Spec
CONSTANTS
    Count = 1
    Deps = {}
    Handlers = {h1}
    Reviewed = TRUE
    MaxGeneration = 1
    MaxCommits = 1
    MaxQueues = 1
    MaxDrift = 0
INVARIANTS
    InterruptedMergeRecovers
CHECK_DEADLOCK FALSE
