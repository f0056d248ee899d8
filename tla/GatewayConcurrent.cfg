CONSTANTS
    Keys = {k1}
    Workers = {w1, w2}
    Operators = {o1}
    NoKey = NoKey
    MaxAttempts = 3
    MaxCycle = 2
SPECIFICATION RetriedSpec
INVARIANTS
    TypeOK
    BudgetHolds
    AttemptsReceipted
    OutcomeIsDurable
PROPERTIES
    SuccessIsFinal
    ImplementsContract
    InterruptedIsResolved
CHECK_DEADLOCK FALSE
