SPECIFICATION Spec
CONSTANTS
    w1 = w1
    u1 = u1
    Workers = {w1}
    Shards = {u1}
    ShardTokens = 2
    Usages = {1, 3}
    Budget = 5
    MaxAttempts = 2
    MaxGeneration = 2
    MaxFaults = 1
INVARIANTS
    SummaryIsReadable
CHECK_DEADLOCK FALSE
