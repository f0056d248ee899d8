CONSTANTS
    a = a
    b = b
    Cases <- MCCases
    First = a
    None = None
    MaxFlight = 2
    MaxEvents = 2
SPECIFICATION Spec
INVARIANTS
    DecisionIsShown
CHECK_DEADLOCK FALSE
