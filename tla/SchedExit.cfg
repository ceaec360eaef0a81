SPECIFICATION Spec
CONSTANTS
    MaxPid = 4
    MaxQuantum = 1
    Priorities = {2}
    Uses = {"block"}
INVARIANTS
    RingIsSound
    OnlyOneRuns
    ChildrenAreCounted
    NoLostWakeup
PROPERTIES
    ForegroundReturns
    ImplementsRunQueue
