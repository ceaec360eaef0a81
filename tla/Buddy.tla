------------------------------- MODULE Buddy -------------------------------
(***************************************************************************)
(* The buddy memory manager, Kernel/memoryBuddy.c, built instead of the    *)
(* first-fit one by `make buddy'.  A block is its index in blocks[], that  *)
(* is its offset in units; a bucket is the list of the free blocks of one  *)
(* level, newest first.  malloc and free run with interrupts off.          *)
(***************************************************************************)
EXTENDS Integers, Sequences, SequencesExt, FiniteSetsExt

CONSTANTS
    Unit,           \* BLOCK_UNIT
    Top,            \* levels_count - 1: the level of the whole heap
    BuddyRequests,  \* the sizes programs ask malloc for
    BuddyPointers   \* other addresses that programs hand to free

Levels == 0..Top

\* The units in a block of level l, 1 << l.
Pow2[l \in Levels] == IF l = 0 THEN 1 ELSE 2 * Pow2[l - 1]

Size(l) == Pow2[l] * Unit
Indices == 0..(Pow2[Top] - 1)

\* initMemoryManager refuses a heap of one unit.  A request beyond the heap
\* is outside this model: malloc then indexes past the last bucket.
ASSUME BuddyAssumption ==
    /\ Unit \in Nat \ {0} /\ Top \in Nat \ {0}
    /\ BuddyRequests \subseteq 0..Size(Top)

VARIABLES
    mem,            \* blocks[].level, blocks[].allocated, bucket[], memory_info
    granted         \* history: block -> the size asked for, while it is live

buddyVars == <<mem, granted>>

BuddyInit ==
    /\ mem = [level |-> [i \in Indices |-> IF i = 0 THEN Top ELSE 0],
              allocated |-> [i \in Indices |-> FALSE],
              bucket |-> [l \in Levels |-> IF l = Top THEN <<0>> ELSE <<>>],
              info |-> [allocated |-> 0, free |-> Size(Top)]]
    /\ granted = [i \in {} |-> 0]

-----------------------------------------------------------------------------
GetBuddy(m, i) ==
    LET span == Pow2[m.level[i]]
    IN  IF (i \div span) % 2 = 1 THEN i - span ELSE i + span

\* n bytes move from free to allocated (or back, when n < 0).
Moved(info, n) == [allocated |-> info.allocated + n, free |-> info.free - n]

AddBlock(m, i) ==
    LET l == m.level[i]
    IN  [m EXCEPT !.bucket[l] = <<i>> \o @, !.allocated[i] = FALSE,
                  !.info = Moved(@, -Size(l))]

RemoveBlock(m, i) ==
    LET l == m.level[i]
    IN  [m EXCEPT !.bucket[l] = RemoveFirst(@, i), !.allocated[i] = TRUE,
                  !.info = Moved(@, Size(l))]

SplitBlock(m, l) ==
    IF l = 0 \/ m.bucket[l] = <<>> THEN m
    ELSE LET i == Head(m.bucket[l])
             half == [RemoveBlock(m, i) EXCEPT !.level[i] = l - 1]
             j == GetBuddy(half, i)
         IN  AddBlock(AddBlock([half EXCEPT !.level[j] = l - 1], j), i)

\* Mutant of CanMerge: buddies of different levels are merged.
CanMergeAnyLevel(m, i) ==
    /\ m.level[i] < Top
    /\ ~m.allocated[i] /\ ~m.allocated[GetBuddy(m, i)]

CanMerge(m, i) ==
    /\ m.level[i] < Top
    /\ LET j == GetBuddy(m, i)
       IN  m.level[i] = m.level[j] /\ ~m.allocated[i] /\ ~m.allocated[j]

\* Block i and its buddy become one, headed by the lower of the two.
MergeOnce(m, i) ==
    LET j == GetBuddy(m, i)
        low == Min({i, j})
        both == RemoveBlock(RemoveBlock(m, i), j)
    IN  AddBlock([both EXCEPT !.level[low] = @ + 1], low)

\* Mutant of MergeBuddy: the recursive call is missing.
MergeBuddyOnce(m, i) == IF CanMerge(m, i) THEN MergeOnce(m, i) ELSE m

\* mergeBuddy calls itself at most once per level.
MergeBuddy(m, i) ==
    LET up[k \in Levels] ==
          IF k = 0 THEN [m |-> m, i |-> i]
          ELSE LET s == up[k - 1]
               IN  IF CanMerge(s.m, s.i)
                   THEN [m |-> MergeOnce(s.m, s.i),
                         i |-> Min({s.i, GetBuddy(s.m, s.i)})]
                   ELSE s
    IN  up[Top].m

-----------------------------------------------------------------------------
\* The largest level whose blocks have at most n units.
Log2n(n) ==
    IF n = 0 THEN 0
    ELSE CHOOSE k \in Levels : Pow2[k] <= n /\ n < 2 * Pow2[k]

\* Mutant of LevelFor: no correction for sizes that are not powers of two.
LevelBelow(n) == Log2n(n \div Unit)

LevelFor(n) ==
    LET l == Log2n(n \div Unit) IN IF Size(l) < n THEN l + 1 ELSE l

\* The levels, from the wanted one up, that have a free block.
Usable(n) == {l \in LevelFor(n)..Top : mem.bucket[l] # <<>>}

\* The lowest usable block, split until one has the wanted level.
SplitFor(n) ==
    LET from == Min(Usable(n))
        after[k \in 0..(from - LevelFor(n))] ==    \* k calls of splitBlock
          IF k = 0 THEN mem ELSE SplitBlock(after[k - 1], from + 1 - k)
    IN  after[from - LevelFor(n)]

\* The size of the block is that of its level: malloc(0) grants a unit.
BuddyMalloc(n) ==
    /\ Usable(n) # {}
    /\ LET i == Head(SplitFor(n).bucket[LevelFor(n)])
       IN  /\ mem' = RemoveBlock(SplitFor(n), i)
           /\ granted' = [b \in DOMAIN granted \cup {i} |->
                            IF b = i THEN n ELSE granted[b]]

BuddyMallocFails(n) == Usable(n) = {} /\ UNCHANGED buddyVars

\* Programs free what they were granted, once: the right half of a merged
\* block keeps allocated = true, so freeing it again is not ignored.
BuddyFree(i) ==
    /\ mem.allocated[i]
    /\ mem' = MergeBuddy(AddBlock(mem, i), i)
    /\ granted' = Restrict(granted, DOMAIN granted \ {i})

\* free ignores what is misaligned, outside the heap or not allocated.
BuddyFreeImposter(ptr) ==
    /\ (ptr % Unit = 0 /\ ptr \div Unit \in Indices)
          => ~mem.allocated[ptr \div Unit]
    /\ UNCHANGED buddyVars

BuddyNext ==
    \/ \E n \in BuddyRequests : BuddyMalloc(n) \/ BuddyMallocFails(n)
    \/ \E i \in DOMAIN granted : BuddyFree(i)
    \/ \E ptr \in BuddyPointers : BuddyFreeImposter(ptr)

BuddySpec == BuddyInit /\ [][BuddyNext]_buddyVars

-----------------------------------------------------------------------------
FreeBlocks == UNION {ToSet(mem.bucket[l]) : l \in Levels}
Span(i) == i..(i + Pow2[mem.level[i]] - 1)

\* The blocks in the buckets and the blocks programs hold cover the heap with
\* no gap and no overlap, each at a multiple of its own size and each free one
\* in the bucket of its level, through every chain of splits and merges; and
\* memory_info counts exactly that.
BuddiesTileTheHeap ==
    LET heads == FreeBlocks \cup DOMAIN granted
    IN  /\ \A i, j \in heads : i # j => Span(i) \cap Span(j) = {}
        /\ UNION {Span(i) : i \in heads} = Indices
        /\ \A i \in heads : i % Pow2[mem.level[i]] = 0
        /\ \A l \in Levels : \A i \in ToSet(mem.bucket[l]) : mem.level[i] = l
        /\ mem.info.free
              = Unit * Cardinality(UNION {Span(i) : i \in FreeBlocks})
        /\ mem.info.allocated + mem.info.free = Size(Top)

\* Two free buddies are never left apart (mergeBuddy: "Recursively merge free
\* buddies"), so that freeing everything gives the whole heap back.
FreeBuddiesAreMerged ==
    \A l \in 0..(Top - 1) : \A i \in ToSet(mem.bucket[l]) :
        GetBuddy(mem, i) \notin ToSet(mem.bucket[l])

\* memoryBuddy.c implements the same contract of malloc and free, for programs
\* that free a block once.  The half that was merged away keeps its flag set:
\* freed again it would be granted twice (BuddyFree leaves that out).
BuddyContract ==
    INSTANCE Allocator WITH
        Addresses <- 0..(Size(Top) - 1),
        Requests <- BuddyRequests,
        live <- [a \in {i * Unit : i \in DOMAIN granted} |->
                   [asked |-> granted[a \div Unit],
                    size |-> Size(mem.level[a \div Unit])]]

BuddyImplementsAllocator == BuddyContract!Spec
=============================================================================
