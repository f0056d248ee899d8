CONSTANTS
    hold = hold
    case = case
    notify = notify
    Keys = {case, notify}
    Plan <- ShortPlan
    Kind <- MCKind
    Workers = {w1, w2}
    Operators = {}
    NoKey = NoKey
    MaxAttempts = 2
    MaxCycle = 1
    MaxCrashes = 0
SPECIFICATION Spec
INVARIANTS
    ResolvedIsDelivered
    DeadLetterIsReal
    CompletedHasRow
CHECK_DEADLOCK FALSE
