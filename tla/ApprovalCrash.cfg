CONSTANTS
    hold = hold
    case = case
    notify = notify
    Keys = {hold, notify}
    Plan <- HoldPlan
    Kind <- MCKind
    Workers = {w1}
    Operators = {o1}
    NoKey = NoKey
    MaxAttempts = 2
    MaxCycle = 2
    MaxCrashes = 2
SPECIFICATION RetriedSpec
INVARIANTS
    TypeOK
    FiresAfterConsent
    CompletedIsDelivered
    RepeatsAreRecoveries
PROPERTIES
    DecisionIsFinal
    NoFireAfterSuccess
    RejectedNeverFires
    RetriedRunEnds
CHECK_DEADLOCK FALSE
