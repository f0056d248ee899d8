CONSTANTS
    MaxCalls = 3
    CallIds <- Ids
    ActionIds <- AllIds
    StepId <- Steps
    Plans <- MCPlans
    MaxSteps = 4
    q1 = q1
    q2 = q2
    Requests <- TwoRequests
SYMMETRY Symmetries
SPECIFICATION SnapshotSpec
INVARIANTS
    TypeOK
    OfferedIsWhole
    WritesWait
    OnlyNamesCollide
    RulesAreOffered
    SnapshotExplains
CHECK_DEADLOCK FALSE
