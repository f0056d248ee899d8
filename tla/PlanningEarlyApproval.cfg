CONSTANTS
    MaxCalls = 1
    CallIds <- Ids
    ActionIds <- AllIds
    StepId <- Steps
    Plans <- MCPlans
    MaxSteps = 4
    q1 = q1
    q2 = q2
    Requests <- TwoRequests
SYMMETRY Symmetries
SPECIFICATION Spec
INVARIANTS
    ResolvedCompletes
CHECK_DEADLOCK FALSE
