SPECIFICATION FairSpec

CONSTANTS
    c1 = c1
    c2 = c2
    r1 = r1
    r2 = r2
    Consumers = {c1}
    Pollers = {c1}
    Runs = {r1}
    MaxIntents = 1
    MaxAttempts = 2
    Lease = 1
    Elapsed = 3
    BaseBackoff = 1
    MaxBackoff = 1
    MaxMessages = 1
    RunsMayEnd = TRUE
    MaxTime = 4
    MaxFaults = 1

CHECK_DEADLOCK FALSE
PROPERTY WakesEnd
