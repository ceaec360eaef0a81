SPECIFICATION Spec
CONSTANTS
    MIN = 2
    INITIAL = 2
    MAX = 4
    MaxProcs = 4
INVARIANTS
    NeighboursDontEat
    PermissionIsKept
    RemovedIsOut
PROPERTIES
    SomebodyEatsUnlessMonopoly
CHECK_DEADLOCK FALSE
