SPECIFICATION Spec

CONSTANTS
    w1 = w1
    Workers = {w1}
    Modes = {"execute", "drain", "handoff", "finalize"}
    Interactive = TRUE
    ClockMayStepBack = FALSE
    MaxTurns = 2
    MaxCalls = 1
    MaxToolRounds = 0
    MaxPending = 2
    MaxMessages = 2
    MaxAttempts = 3
    MaxGeneration = 3

CHECK_DEADLOCK FALSE
INVARIANT TypeOK
INVARIANT PreparedIsBound
INVARIANT TurnsAnswerOnce
INVARIANT EndedRunsOweNothing
PROPERTY FailedInputSurvives
PROPERTY SteeringStaysSteering
PROPERTY ImplementsSteeringQueue
