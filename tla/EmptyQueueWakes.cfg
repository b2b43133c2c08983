SPECIFICATION FairSpec

CONSTANTS
    w1 = w1
    Workers = {w1}
    Modes = {"drain"}
    Interactive = FALSE
    ClockMayStepBack = FALSE
    MaxTurns = 1
    MaxCalls = 1
    MaxToolRounds = 0
    MaxPending = 1
    MaxMessages = 1
    MaxAttempts = 1
    MaxGeneration = 2

CHECK_DEADLOCK FALSE
PROPERTY EmptyQueueDoesNotWake
