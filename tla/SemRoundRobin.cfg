SPECIFICATION RRSpec
CONSTANTS
    NoPid = 0
    Procs <- MCProcs
    NextProc <- MCNextProc
    InitValue = 1
    Producers = {}
    MaxProc = 2
    MaxLast = 4
    MaxValue = 1
    Priority = 0
    MaxQuantum = 1
INVARIANTS
    MutualExclusion
    TokenKept
PROPERTIES
    RoundRobinUnlessMonopoly
    ProgressUnlessMonopoly
