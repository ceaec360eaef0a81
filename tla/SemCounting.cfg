SPECIFICATION Spec
CONSTANTS
    p1 = p1
    p2 = p2
    p3 = p3
    NoPid = NoPid
    Procs = {p1, p2, p3}
    InitValue = 2
    Producers = {p3}
    MaxProc = 2
    MaxLast = 2
    MaxValue = 3
INVARIANTS
    TypeOK
    LockExclusive
    NeverOverGranted
