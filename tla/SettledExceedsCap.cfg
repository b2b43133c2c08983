SPECIFICATION Spec

CONSTANTS
    Callers = {"root"}
    Scope <- AllScopes
    Model <- OneModel
    Cap = 2
    Costs = {1, 2}
    MaxCalls = 2
    MaxTurns = 1
    MaxTables = 1
    MaxFaults = 0

CHECK_DEADLOCK FALSE
INVARIANT SettledIsCapped
