-------------------------------- MODULE Heap --------------------------------
(***************************************************************************)
(* The first-fit memory manager, Kernel/memoryManager.c.  Its two linked   *)
(* lists are sequences of blocks, a block being the address of its header  *)
(* and the size of its payload; addresses are offsets from the start of    *)
(* the heap.  malloc and free run with interrupts off: one step each.      *)
(***************************************************************************)
EXTENDS Integers, Sequences, SequencesExt

CONSTANTS
    Word,           \* sizeof(size_t)
    HeapSize,       \* the size given to initMemoryManager
    Modulus,        \* 2^64: size_t arithmetic is modulo this
    Requests,       \* the sizes programs ask malloc for
    Pointers        \* the payload offsets programs hand to free

Header == 2 * Word  \* sizeof(BlockData)

\* The tests of initMemoryManager: it returns 1, 2 or 3 otherwise.
ASSUME HeapAssumption ==
    /\ Word \in Nat \ {0}
    /\ HeapSize \in Nat /\ HeapSize % Word = 0 /\ HeapSize >= Header + Word
    /\ Modulus \in Nat /\ Modulus % Word = 0 /\ Modulus > HeapSize
    /\ Requests \subseteq 0..(Modulus - 1)

VARIABLES
    freeList,       \* free_list
    allocList,      \* alloc_list
    memoryInfo,     \* memory_info
    asked           \* history: the size each live block was asked for

heapVars == <<freeList, allocList, memoryInfo, asked>>

Block(a, s) == [addr |-> a, size |-> s]
Payload(b) == b.addr + Header

Init ==
    /\ freeList = <<Block(0, HeapSize - Header)>>
    /\ allocList = <<>>
    /\ memoryInfo = [allocated |-> Header, free |-> HeapSize - Header,
                     total |-> HeapSize]
    /\ asked = [a \in {} |-> 0]

\* n bytes move from free to allocated (or back, when n < 0).
Account(n) ==
    memoryInfo' = [memoryInfo EXCEPT !.allocated = @ + n, !.free = @ - n]

-----------------------------------------------------------------------------
\* Mutant of AlignSize: rounds down.
AlignDown(n) == IF n % Word > 0 THEN n - (n % Word) ELSE n

\* The size after alignment; it wraps around for the last Word - 1 sizes.
AlignSize(n) ==
    IF n % Word > 0 THEN (n + Word - (n % Word)) % Modulus ELSE n

\* The index of the first block that fits, 0 if there is none.
FirstFit(s) == SelectInSeq(freeList, LAMBDA b : b.size >= s)

Splits(b, s) == b.size >= s + Header + Word

\* Mutant of Rest: the new header overlaps the granted payload.
RestOverlaps(b, s) == Block(b.addr + s, b.size - s)

\* What is left of free block b once s bytes are granted from it.
Rest(b, s) == Block(b.addr + Header + s, b.size - Header - s)

Malloc(n) ==
    LET s == AlignSize(n)
        i == FirstFit(s)
        b == freeList[i]
        granted == Block(b.addr, IF Splits(b, s) THEN s ELSE b.size)
    IN  /\ n > 0
        /\ i > 0
        /\ freeList' = IF Splits(b, s)
                       THEN [freeList EXCEPT ![i] = Rest(b, s)]
                       ELSE RemoveAt(freeList, i)
        /\ allocList' = <<granted>> \o allocList
        /\ Account(granted.size + IF Splits(b, s) THEN Header ELSE 0)
        /\ asked' = [a \in DOMAIN asked \cup {Payload(b)} |->
                        IF a = Payload(b) THEN n ELSE asked[a]]

\* malloc(0), and no block that fits: NULL, and nothing changes.
MallocFails(n) ==
    /\ n = 0 \/ FirstFit(AlignSize(n)) = 0
    /\ UNCHANGED heapVars

-----------------------------------------------------------------------------
IsContiguous(left, right) == left.addr + Header + left.size = right.addr

\* Mutant of Merge: the header of the right block is lost.
MergeLosesHeader(f, i) ==
    RemoveAt([f EXCEPT ![i].size = @ + f[i + 1].size], i + 1)

\* The entries i and i + 1 of list f become one block.
Merge(f, i) ==
    RemoveAt([f EXCEPT ![i].size = @ + Header + f[i + 1].size], i + 1)

MergeAt(f, i) ==
    IF i \in 1..(Len(f) - 1) /\ IsContiguous(f[i], f[i + 1])
    THEN Merge(f, i) ELSE f

\* Where block b belongs in the free list, ordered by address.
PlaceOf(b) ==
    LET i == SelectInSeq(freeList, LAMBDA f : f.addr >= b.addr)
    IN  IF i = 0 THEN Len(freeList) + 1 ELSE i

\* Mutant of Insert: only the block before is merged.
InsertMergesLeft(b) ==
    LET i == PlaceOf(b) IN MergeAt(InsertAt(freeList, i, b), i - 1)

\* The free list with b put in its place and merged with the block after it,
\* then with the block before it.
Insert(b) ==
    LET i == PlaceOf(b)
    IN  MergeAt(MergeAt(InsertAt(freeList, i, b), i), i - 1)

\* The index of the block whose payload starts at ptr, 0 if it is an imposter.
Found(ptr) == SelectInSeq(allocList, LAMBDA b : Payload(b) = ptr)

Free(ptr) ==
    LET i == Found(ptr)
        b == allocList[i]
        merges == Len(freeList) + 1 - Len(Insert(b))
    IN  /\ i > 0
        /\ allocList' = RemoveAt(allocList, i)
        /\ freeList' = Insert(b)
        /\ Account(-(b.size + merges * Header))
        /\ asked' = Restrict(asked, DOMAIN asked \ {Payload(b)})

FreeImposter(ptr) == Found(ptr) = 0 /\ UNCHANGED heapVars

Next ==
    \/ \E n \in Requests : Malloc(n) \/ MallocFails(n)
    \/ \E ptr \in Pointers : Free(ptr) \/ FreeImposter(ptr)

Spec == Init /\ [][Next]_heapVars

-----------------------------------------------------------------------------
Blocks == Range(freeList) \cup Range(allocList)
Whole(b) == b.addr..(b.addr + Header + b.size - 1)
SumOfSizes(list) ==
    LET sum[i \in 0..Len(list)] ==
          IF i = 0 THEN 0 ELSE sum[i - 1] + list[i].size
    IN  sum[Len(list)]

\* The headers and payloads of the blocks in the two lists cover the heap
\* with no gap and no overlap, whatever was split, merged and reused.
HeapIsTiled ==
    /\ \A b, c \in Blocks : b # c => Whole(b) \cap Whole(c) = {}
    /\ UNION {Whole(b) : b \in Blocks} = 0..(HeapSize - 1)
    /\ Len(freeList) + Len(allocList) = Cardinality(Blocks)

\* The free list is ordered by address (memoryManager.c:139) and two free
\* neighbours are always one block: only then does freeing every block give
\* the whole heap back, and the two-sided merge of free suffice.
FreeListIsCoalesced ==
    \A i \in 1..(Len(freeList) - 1) :
        freeList[i].addr + Header + freeList[i].size < freeList[i + 1].addr

\* mem-info adds up: free is the room in the free blocks, and what is not
\* free is allocated, headers included.
InfoAddsUp ==
    /\ memoryInfo.free = SumOfSizes(freeList)
    /\ memoryInfo.allocated + memoryInfo.free = memoryInfo.total

\* memoryManager.c implements the contract of malloc and free.
Contract ==
    INSTANCE Allocator WITH
        Addresses <- 0..(HeapSize - 1),
        live <- [a \in DOMAIN asked |->
                   [asked |-> asked[a],
                    size |-> (CHOOSE b \in Range(allocList) :
                                Payload(b) = a).size]]

ImplementsAllocator == Contract!Spec
=============================================================================
