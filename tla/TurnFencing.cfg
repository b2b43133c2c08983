SPECIFICATION Spec

CONSTANTS
    w1 = w1
    w2 = w2
    Workers = {w1,w2}
    Modes = {"step", "execute", "drain", "handoff"}
    Interactive = FALSE
    ClockMayStepBack = TRUE
    MaxTurns = 1
    MaxCalls = 2
    MaxToolRounds = 1
    MaxPending = 1
    MaxMessages = 1
    MaxAttempts = 2
    MaxGeneration = 2

SYMMETRY WorkerSymmetry
CHECK_DEADLOCK FALSE
INVARIANT AgentMirrorsTurn
PROPERTY StartedTurnIsKept
PROPERTY CheckpointIsFenced
PROPERTY OutdatedWorkersAreFenced
