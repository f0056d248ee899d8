CONSTANTS
    hold = hold
    case = case
    notify = notify
    Keys = {case}
    Plan <- CasePlan
    Kind <- MCKind
    Workers = {w1}
    Operators = {}
    NoKey = NoKey
    MaxAttempts = 2
    MaxCycle = 1
    MaxCrashes = 1
SPECIFICATION Spec
INVARIANTS
    ResolvedHasRows
CHECK_DEADLOCK FALSE
