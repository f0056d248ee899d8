CONSTANTS
    a = a
    b = b
    Cases <- MCCases
    First = a
    None = None
    MaxFlight = 2
    MaxEvents = 3
SPECIFICATION Spec
INVARIANTS
    TypeOK
    PageIsSelected
    QuietCacheIsFresh
    QuietPageIsCurrent
    QuietTimelineIsPage
    QuietRunIsSelected
CONSTRAINT ThreeDecisions
CHECK_DEADLOCK FALSE
