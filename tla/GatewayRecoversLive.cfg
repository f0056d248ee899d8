CONSTANTS
    Keys = {k1}
    Workers = {w1, w2}
    Operators = {}
    NoKey = NoKey
    MaxAttempts = 3
    MaxCycle = 1
SPECIFICATION Spec
PROPERTIES
    RecoversOnlyTheDead
CHECK_DEADLOCK FALSE
