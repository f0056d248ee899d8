CONSTANTS
    hold = hold
    case = case
    notify = notify
    Keys = {case}
    Plan <- CasePlan
    Kind <- MCKind
    Workers = {w1, w2}
    Operators = {}
    NoKey = NoKey
    MaxAttempts = 2
    MaxCycle = 1
    MaxCrashes = 0
SPECIFICATION Spec
PROPERTIES
    RejectedIsFinal
CHECK_DEADLOCK FALSE
