SPECIFICATION MCSpec
CONSTANTS
    Word = 2
    HeapSize = 34
    Modulus = 64
    Requests = {0, 1, 4, 7, 30}
    Pointers <- MCPointers
    Unit = 4
    Top = 3
    BuddyRequests = {0, 4, 5, 9, 17, 32}
    BuddyPointers = {2, 4, 32}
INVARIANTS
    HeapIsTiled
    FreeListIsCoalesced
    InfoAddsUp
    BuddiesTileTheHeap
    FreeBuddiesAreMerged
PROPERTIES
    ImplementsAllocator
    BuddyImplementsAllocator
