---------------------------- MODULE MemoryProofs ----------------------------
(***************************************************************************)
(* Proofs about the two memory managers, for every size of the heap: what  *)
(* Heap and Buddy keep true of their blocks, and that both implement       *)
(* Allocator.  First the lemmas about sequences that both need, then the   *)
(* first-fit manager (HeapInv), then the buddy manager (BuddyInv).         *)
(***************************************************************************)
EXTENDS Heap, Buddy, FiniteSetTheorems, SequenceTheorems, TLAPS

-----------------------------------------------------------------------------
\* Every non-empty set of naturals has a least element.
LEMMA LeastNat ==
    ASSUME NEW T \in SUBSET Nat, T # {}
    PROVE  \E x \in T : \A y \in T : x <= y
<1>1. PICK R : IsWellFoundedOn(R, Nat) /\ R = OpToRel(<, Nat)
  BY NatLessThanWellFounded, Zenon
<1>2. R = {ss \in Nat \X Nat : ss[1] < ss[2]}
  BY <1>1, Zenon DEF OpToRel
<1>3. PICK x \in T : \A y \in T : ~(<<y, x>> \in R)
  BY <1>1, WFMin
<1>4. \A u, v \in Nat : <<u, v>> \in R <=> u < v
  BY <1>2
<1>5. \A y \in T : x \in Nat /\ y \in Nat /\ ~(y < x)
  BY <1>3, <1>4
<1>6. \A y \in T : x <= y
  BY <1>5
<1>7. QED
  BY <1>6

BlockType == [addr : Nat, size : Nat]

\* The first address after block b.
End(b) == b.addr + Header + b.size

\* What SubSeq cuts out of a sequence.
LEMMA CutFacts ==
    ASSUME NEW S, NEW f \in Seq(S), NEW m \in 1..(Len(f) + 1),
           NEW n \in (m - 1)..Len(f)
    PROVE  /\ SubSeq(f, m, n) \in Seq(S)
           /\ Len(SubSeq(f, m, n)) = n + 1 - m
           /\ \A i \in 1..(n + 1 - m) : SubSeq(f, m, n)[i] = f[m + i - 1]
<1>1. m \in Int /\ n \in Int /\ Len(f) \in Nat
  BY LenProperties
<1>2. \A i \in m..n : f[i] \in S
  BY <1>1, ElementOfSeq
<1>3. /\ SubSeq(f, m, n) \in Seq(S)
      /\ Len(SubSeq(f, m, n)) = IF m <= n THEN n - m + 1 ELSE 0
      /\ \A i \in 1..(n - m + 1) : SubSeq(f, m, n)[i] = f[m + i - 1]
  BY <1>1, <1>2, SubSeqProperties
<1>4. n - m + 1 = n + 1 - m /\ (m <= n \/ n + 1 - m = 0)
  BY <1>1
<1>5. QED
  BY <1>3, <1>4

\* What RemoveAt leaves of a sequence: unlinking the node at i.
LEMMA RemoveAtFacts ==
    ASSUME NEW S, NEW f \in Seq(S), NEW i \in 1..Len(f)
    PROVE  /\ RemoveAt(f, i) \in Seq(S)
           /\ Len(RemoveAt(f, i)) = Len(f) - 1
           /\ \A k \in 1..(Len(f) - 1) :
                 RemoveAt(f, i)[k] = IF k < i THEN f[k] ELSE f[k + 1]
<1> DEFINE a == SubSeq(f, 1, i - 1)
           b == SubSeq(f, i + 1, Len(f))
           N == Len(f)
<1>1. N \in Nat /\ i \in 1..N
  BY LenProperties
<1>2. 1 \in 1..(N + 1) /\ i - 1 \in (1 - 1)..N /\ i + 1 \in 1..(N + 1)
      /\ N \in (i + 1 - 1)..N
  BY <1>1
<1>3. /\ a \in Seq(S) /\ Len(a) = i - 1 + 1 - 1
      /\ \A k \in 1..(i - 1 + 1 - 1) : a[k] = f[1 + k - 1]
  BY <1>2, CutFacts
<1>4. /\ b \in Seq(S) /\ Len(b) = N + 1 - (i + 1)
      /\ \A k \in 1..(N + 1 - (i + 1)) : b[k] = f[i + 1 + k - 1]
  BY <1>2, CutFacts
<1>5. RemoveAt(f, i) = a \o b
  BY DEF RemoveAt
<1> HIDE DEF a, b
<1>6. /\ a \o b \in Seq(S) /\ Len(a \o b) = Len(a) + Len(b)
      /\ \A k \in 1..(Len(a) + Len(b)) :
            (a \o b)[k] = IF k <= Len(a) THEN a[k] ELSE b[k - Len(a)]
  BY <1>3, <1>4, ConcatProperties
<1>7. Len(a) = i - 1 /\ Len(b) = N - i
  BY <1>1, <1>3, <1>4
<1>8. ASSUME NEW k \in 1..(N - 1)
      PROVE  (a \o b)[k] = IF k < i THEN f[k] ELSE f[k + 1]
  <2>1. CASE k < i
    <3>1. k \in 1..(Len(a) + Len(b)) /\ k <= Len(a)
          /\ k \in 1..(i - 1 + 1 - 1) /\ 1 + k - 1 = k
      BY <1>1, <1>7, <2>1
    <3>2. QED
      BY <1>3, <1>6, <2>1, <3>1
  <2>2. CASE ~(k < i)
    <3>1. k \in 1..(Len(a) + Len(b)) /\ ~(k <= Len(a))
          /\ k - Len(a) \in 1..(N + 1 - (i + 1))
          /\ i + 1 + (k - Len(a)) - 1 = k + 1
      BY <1>1, <1>7, <2>2
    <3>2. QED
      BY <1>4, <1>6, <2>2, <3>1
  <2>3. QED
    BY <2>1, <2>2
<1>9. Len(a) + Len(b) = N - 1
  BY <1>1, <1>7
<1>10. QED
  BY <1>5, <1>6, <1>8, <1>9

\* What a sequence is with e pushed in front.
LEMMA ConsFacts ==
    ASSUME NEW S, NEW f \in Seq(S), NEW e \in S
    PROVE  /\ <<e>> \o f \in Seq(S)
           /\ Len(<<e>> \o f) = Len(f) + 1
           /\ \A k \in 1..(Len(f) + 1) :
                 (<<e>> \o f)[k] = IF k = 1 THEN e ELSE f[k - 1]
<1> DEFINE one == <<e>>
<1>1. one \in Seq(S) /\ Len(one) = 1 /\ one[1] = e
  OBVIOUS
<1> HIDE DEF one
<1>2. Len(f) \in Nat
  BY LenProperties
<1>3. /\ one \o f \in Seq(S) /\ Len(one \o f) = Len(one) + Len(f)
      /\ \A k \in 1..(Len(one) + Len(f)) :
            (one \o f)[k] = IF k <= Len(one) THEN one[k] ELSE f[k - Len(one)]
  BY <1>1, ConcatProperties
<1>4. \A k \in 1..(Len(f) + 1) : (one \o f)[k] = IF k = 1 THEN e ELSE f[k - 1]
  BY <1>1, <1>2, <1>3
<1>5. QED
  BY <1>1, <1>2, <1>3, <1>4 DEF one

\* What InsertAt makes of a sequence: linking a node in at i.
LEMMA InsertAtFacts ==
    ASSUME NEW S, NEW f \in Seq(S), NEW i \in 1..(Len(f) + 1), NEW e \in S
    PROVE  /\ InsertAt(f, i, e) \in Seq(S)
           /\ Len(InsertAt(f, i, e)) = Len(f) + 1
           /\ \A k \in 1..(Len(f) + 1) :
                 InsertAt(f, i, e)[k] = IF k < i THEN f[k]
                                        ELSE IF k = i THEN e ELSE f[k - 1]
<1> DEFINE a == SubSeq(f, 1, i - 1)
           b == SubSeq(f, i, Len(f))
           one == <<e>>
           N == Len(f)
           ae == a \o one
<1>1. N \in Nat /\ i \in 1..(N + 1)
  BY LenProperties
<1>2. 1 \in 1..(N + 1) /\ i - 1 \in (1 - 1)..N /\ N \in (i - 1)..N
  BY <1>1
<1>3. /\ a \in Seq(S) /\ Len(a) = i - 1 + 1 - 1
      /\ \A k \in 1..(i - 1 + 1 - 1) : a[k] = f[1 + k - 1]
  BY <1>2, CutFacts
<1>4. /\ b \in Seq(S) /\ Len(b) = N + 1 - i
      /\ \A k \in 1..(N + 1 - i) : b[k] = f[i + k - 1]
  BY <1>2, CutFacts
<1>5. one \in Seq(S) /\ Len(one) = 1 /\ one[1] = e
  OBVIOUS
<1>6. InsertAt(f, i, e) = ae \o b
  BY DEF InsertAt
<1> HIDE DEF a, b, one
<1>7. /\ ae \in Seq(S) /\ Len(ae) = Len(a) + Len(one)
      /\ \A k \in 1..(Len(a) + Len(one)) :
            ae[k] = IF k <= Len(a) THEN a[k] ELSE one[k - Len(a)]
  BY <1>3, <1>5, ConcatProperties
<1> HIDE DEF ae
<1>8. /\ ae \o b \in Seq(S) /\ Len(ae \o b) = Len(ae) + Len(b)
      /\ \A k \in 1..(Len(ae) + Len(b)) :
            (ae \o b)[k] = IF k <= Len(ae) THEN ae[k] ELSE b[k - Len(ae)]
  <2>1. ae \in Seq(S) /\ b \in Seq(S)
    BY <1>4, <1>7
  <2>2. QED
    BY <2>1, ConcatProperties
<1>9. Len(a) = i - 1 /\ Len(ae) = i /\ Len(b) = N + 1 - i
      /\ Len(ae) + Len(b) = N + 1
  BY <1>1, <1>3, <1>4, <1>5, <1>7
<1>10. ASSUME NEW k \in 1..(N + 1)
       PROVE  (ae \o b)[k] = IF k < i THEN f[k]
                             ELSE IF k = i THEN e ELSE f[k - 1]
  <2>1. CASE k < i
    <3>1. k \in 1..(Len(a) + Len(one)) /\ k <= Len(a) /\ k <= Len(ae)
          /\ k \in 1..(i - 1 + 1 - 1) /\ 1 + k - 1 = k
      BY <1>1, <1>5, <1>9, <2>1
    <3>2. QED
      BY <1>3, <1>7, <1>8, <1>9, <2>1, <3>1
  <2>2. CASE k = i
    <3>1. k \in 1..(Len(a) + Len(one)) /\ ~(k <= Len(a)) /\ k <= Len(ae)
          /\ k - Len(a) = 1
      BY <1>1, <1>5, <1>9, <2>2
    <3>2. QED
      BY <1>5, <1>7, <1>8, <1>9, <2>2, <3>1
  <2>3. CASE k > i
    <3>1. ~(k <= Len(ae)) /\ k - Len(ae) \in 1..(N + 1 - i)
          /\ i + (k - Len(ae)) - 1 = k - 1 /\ ~(k < i) /\ k # i
      BY <1>1, <1>9, <2>3
    <3>2. QED
      BY <1>4, <1>8, <1>9, <3>1
  <2>4. k < i \/ k = i \/ k > i
    BY <1>1
  <2>5. QED
    BY <2>1, <2>2, <2>3, <2>4
<1>11. QED
  BY <1>6, <1>8, <1>9, <1>10

\* The least element that Min chooses.
LEMMA MinFacts ==
    ASSUME NEW I \in SUBSET Nat, I # {}
    PROVE  Min(I) \in I /\ \A k \in I : Min(I) <= k
<1>1. PICK x \in I : \A y \in I : x <= y
  BY LeastNat
<1>2. QED
  BY <1>1 DEF Min

\* malloc takes the first free block that is large enough.
LEMMA FirstFitFacts ==
    ASSUME freeList \in Seq(BlockType), NEW s \in Nat, FirstFit(s) > 0
    PROVE  /\ FirstFit(s) \in 1..Len(freeList)
           /\ freeList[FirstFit(s)] \in BlockType
           /\ freeList[FirstFit(s)].size >= s
<1> DEFINE I == {k \in 1..Len(freeList) : freeList[k].size >= s}
<1>1. FirstFit(s) = IF I # {} THEN Min(I) ELSE 0
  BY DEF FirstFit, SelectInSeq
<1>2. I \in SUBSET Nat /\ I # {}
  BY <1>1
<1>3. Min(I) \in I
  BY <1>2, MinFacts
<1>4. QED
  BY <1>1, <1>2, <1>3, ElementOfSeq

\* free finds the live block whose payload starts at ptr, if there is one.
LEMMA FoundFacts ==
    ASSUME allocList \in Seq(BlockType), NEW ptr, Found(ptr) > 0
    PROVE  /\ Found(ptr) \in 1..Len(allocList)
           /\ allocList[Found(ptr)] \in BlockType
           /\ Payload(allocList[Found(ptr)]) = ptr
<1> DEFINE I == {k \in 1..Len(allocList) : Payload(allocList[k]) = ptr}
<1>1. Found(ptr) = IF I # {} THEN Min(I) ELSE 0
  BY DEF Found, SelectInSeq
<1>2. I \in SUBSET Nat /\ I # {}
  BY <1>1
<1>3. Min(I) \in I
  BY <1>2, MinFacts
<1>4. QED
  BY <1>1, <1>2, <1>3, ElementOfSeq

\* The place of a freed block: what is before it in the free list has a lower
\* address, and what PlaceOf points at has not.
LEMMA PlaceOfFacts ==
    ASSUME freeList \in Seq(BlockType), NEW b \in BlockType
    PROVE  /\ PlaceOf(b) \in 1..(Len(freeList) + 1)
           /\ \A k \in 1..Len(freeList) :
                 k < PlaceOf(b) => freeList[k].addr < b.addr
           /\ PlaceOf(b) <= Len(freeList) =>
                 freeList[PlaceOf(b)].addr >= b.addr
<1> DEFINE I == {k \in 1..Len(freeList) : freeList[k].addr >= b.addr}
           m == Min(I)
<1>1. PlaceOf(b) = LET i == IF I # {} THEN m ELSE 0
                   IN  IF i = 0 THEN Len(freeList) + 1 ELSE i
  BY DEF PlaceOf, SelectInSeq
<1>2. Len(freeList) \in Nat /\ b.addr \in Nat
      /\ \A k \in 1..Len(freeList) : freeList[k].addr \in Nat
  <2>1. \A k \in 1..Len(freeList) : freeList[k] \in BlockType
    BY ElementOfSeq
  <2>2. QED
    BY <2>1, LenProperties DEF BlockType
<1>3. CASE I = {}
  <2>1. PlaceOf(b) = Len(freeList) + 1
    BY <1>1, <1>3
  <2>2. \A k \in 1..Len(freeList) : ~(freeList[k].addr >= b.addr)
    BY <1>3
  <2>3. QED
    BY <1>2, <2>1, <2>2
<1>4. CASE I # {}
  <2>1. m \in I /\ \A k \in I : m <= k
    <3>1. I \in SUBSET Nat
      OBVIOUS
    <3>2. QED
      BY <1>4, <3>1, MinFacts
  <2> HIDE DEF m
  <2>2. PlaceOf(b) = m
    BY <1>1, <1>2, <1>4, <2>1
  <2>3. QED
    BY <1>2, <2>1, <2>2
<1>5. QED
  BY <1>3, <1>4

-----------------------------------------------------------------------------
\* g is the function of the partial sums of the sizes in list.
Adds(g, list) ==
    /\ g \in [0..Len(list) -> Int]
    /\ g[0] = 0
    /\ \A i \in 1..Len(list) : g[i] = g[i - 1] + list[i].size

\* The partial sums of a list exist, whatever its length.
LEMMA SomethingAdds ==
    ASSUME NEW list \in Seq(BlockType)
    PROVE  \E g \in [0..Len(list) -> Nat] : Adds(g, list)
<1> DEFINE N == Len(list)
           P(n) == \E g \in [0..n -> Nat] :
                      /\ g[0] = 0
                      /\ \A i \in 1..n : g[i] = g[i - 1] + list[i].size
           T == {n \in 0..N : ~P(n)}
<1>1. N \in Nat /\ \A i \in 1..N : list[i].size \in Nat
  <2>1. \A k \in 1..N : list[k] \in BlockType
    BY ElementOfSeq
  <2>2. QED
    BY <2>1, LenProperties DEF BlockType
<1>2. T = {}
  <2> SUFFICES ASSUME T # {} PROVE FALSE
    OBVIOUS
  <2>1. T \in SUBSET Nat
    BY <1>1
  <2>2. PICK n \in T : \A y \in T : n <= y
    BY <2>1, LeastNat
  <2>3. n \in 0..N /\ ~P(n)
    OBVIOUS
  <2>4. CASE n = 0
    <3> DEFINE z == [i \in 0..0 |-> 0]
    <3>1. z \in [0..n -> Nat] /\ z[0] = 0 /\ 1..n = {}
      BY <2>4
    <3>2. P(n)
      BY <3>1
    <3>3. QED
      BY <2>3, <3>2
  <2>5. CASE n # 0
    <3>1. n - 1 \in 0..N /\ ~(n <= n - 1)
      BY <1>1, <2>3, <2>5
    <3>2. P(n - 1)
      BY <2>2, <3>1
    <3>3. PICK g \in [0..(n - 1) -> Nat] :
             /\ g[0] = 0
             /\ \A i \in 1..(n - 1) : g[i] = g[i - 1] + list[i].size
      BY <3>2
    <3> DEFINE h == [i \in 0..n |-> IF i = n THEN g[n - 1] + list[n].size
                                    ELSE g[i]]
    <3>4. n - 1 \in 0..(n - 1) /\ n \in 1..N /\ n \in Nat
      BY <1>1, <2>3, <2>5
    <3>5. h \in [0..n -> Nat]
      BY <1>1, <3>3, <3>4
    <3>6. h[0] = 0
      BY <3>3, <3>4
    <3>7. \A i \in 1..n : h[i] = h[i - 1] + list[i].size
      BY <3>3, <3>4
    <3>8. P(n)
      BY <3>5, <3>6, <3>7
    <3>9. QED
      BY <2>3, <3>8
  <2>6. QED
    BY <2>4, <2>5
<1>3. P(N)
  BY <1>1, <1>2
<1>4. PICK g \in [0..N -> Nat] :
         /\ g[0] = 0
         /\ \A i \in 1..N : g[i] = g[i - 1] + list[i].size
  BY <1>3
<1>5. g \in [0..N -> Int]
  BY <1>4
<1>6. QED
  BY <1>4, <1>5 DEF Adds

\* Whatever adds the sizes of a list up ends in their sum.
LEMMA SumIs ==
    ASSUME NEW list \in Seq(BlockType), NEW g, Adds(g, list)
    PROVE  SumOfSizes(list) = g[Len(list)]
<1> DEFINE N == Len(list)
           h == CHOOSE f : f = [i \in 0..N |-> IF i = 0 THEN 0
                                               ELSE f[i - 1] + list[i].size]
<1>1. /\ N \in Nat /\ g \in [0..N -> Int] /\ g[0] = 0
      /\ \A i \in 1..N : g[i] = g[i - 1] + list[i].size
  BY LenProperties DEF Adds
<1>2. g = [i \in 0..N |-> IF i = 0 THEN 0 ELSE g[i - 1] + list[i].size]
  BY <1>1
<1>3. h = [i \in 0..N |-> IF i = 0 THEN 0 ELSE h[i - 1] + list[i].size]
  BY <1>2
<1>4. SumOfSizes(list) = h[N]
  BY DEF SumOfSizes
<1> HIDE DEF h
<1> DEFINE T == {i \in 0..N : h[i] # g[i]}
<1>5. T = {}
  <2> SUFFICES ASSUME T # {} PROVE FALSE
    OBVIOUS
  <2>1. T \in SUBSET Nat
    BY <1>1
  <2>2. PICK i \in T : \A y \in T : i <= y
    BY <2>1, LeastNat
  <2>3. i \in 0..N /\ h[i] # g[i]
    OBVIOUS
  <2>4. CASE i = 0
    BY <1>1, <1>3, <2>3, <2>4
  <2>5. CASE i # 0
    <3>1. i - 1 \in 0..N /\ ~(i <= i - 1) /\ i \in 1..N
      BY <1>1, <2>3, <2>5
    <3>2. h[i - 1] = g[i - 1]
      BY <2>2, <3>1
    <3>3. h[i] = h[i - 1] + list[i].size
      BY <1>3, <2>3, <2>5
    <3>4. QED
      BY <1>1, <2>3, <3>1, <3>2, <3>3
  <2>6. QED
    BY <2>4, <2>5
<1>6. h[N] = g[N]
  BY <1>1, <1>5
<1>7. QED
  BY <1>4, <1>6

\* The sizes of the blocks of a list add up to a natural number.
LEMMA SumType ==
    ASSUME NEW list \in Seq(BlockType)
    PROVE  SumOfSizes(list) \in Nat
<1>1. PICK g \in [0..Len(list) -> Nat] : Adds(g, list)
  BY SomethingAdds
<1>2. SumOfSizes(list) = g[Len(list)]
  BY <1>1, SumIs
<1>3. Len(list) \in Nat
  BY LenProperties
<1>4. QED
  BY <1>1, <1>2, <1>3

\* Taking a block out of a list takes its size out of the sum.
LEMMA SumOfRemoveAt ==
    ASSUME NEW list \in Seq(BlockType), NEW i \in 1..Len(list)
    PROVE  SumOfSizes(RemoveAt(list, i)) = SumOfSizes(list) - list[i].size
<1> DEFINE N == Len(list)
           r == RemoveAt(list, i)
<1>1. PICK g \in [0..Len(list) -> Nat] : Adds(g, list)
  BY SomethingAdds
<1>2. SumOfSizes(list) = g[N]
  BY <1>1, SumIs
<1>3. /\ N \in Nat /\ g \in [0..N -> Int] /\ g[0] = 0 /\ i \in 1..N
      /\ \A j \in 1..N : g[j] = g[j - 1] + list[j].size
  BY <1>1, LenProperties DEF Adds
<1>4. \A j \in 1..N : list[j].size \in Nat
  <2>1. \A k \in 1..N : list[k] \in BlockType
    BY ElementOfSeq
  <2>2. QED
    BY <2>1 DEF BlockType
<1>5. /\ r \in Seq(BlockType) /\ Len(r) = N - 1
      /\ \A k \in 1..(N - 1) : r[k] = IF k < i THEN list[k] ELSE list[k + 1]
  BY RemoveAtFacts
<1> HIDE DEF r
<1> DEFINE h == [k \in 0..(N - 1) |->
                    IF k < i THEN g[k] ELSE g[k + 1] - list[i].size]
<1>6. h \in [0..(N - 1) -> Int]
  BY <1>3, <1>4
<1>7. h[0] = 0
  BY <1>3
<1>8. ASSUME NEW k \in 1..(N - 1)
      PROVE  h[k] = h[k - 1] + r[k].size
  <2>1. /\ k \in 0..(N - 1) /\ k - 1 \in 0..(N - 1) /\ k + 1 \in 1..N
        /\ k \in 1..N /\ k - 1 \in 0..N /\ (k - 1) + 1 = k /\ (k + 1) - 1 = k
    BY <1>3
  <2>2. /\ g[k] = g[k - 1] + list[k].size
        /\ g[k + 1] = g[k] + list[k + 1].size
    BY <1>3, <2>1
  <2>3. /\ g[k] \in Int /\ g[k - 1] \in Int /\ g[k + 1] \in Int
        /\ list[k].size \in Nat /\ list[k + 1].size \in Nat
        /\ list[i].size \in Nat
    <3>1. k \in 0..N /\ k - 1 \in 0..N /\ k + 1 \in 0..N
      BY <1>3
    <3>2. g[k] \in Int /\ g[k - 1] \in Int /\ g[k + 1] \in Int
      BY <1>3, <3>1
    <3>3. QED
      BY <1>3, <1>4, <2>1, <3>2
  <2>4. /\ h[k] = IF k < i THEN g[k] ELSE g[k + 1] - list[i].size
        /\ h[k - 1] = IF k - 1 < i THEN g[k - 1]
                      ELSE g[(k - 1) + 1] - list[i].size
    BY <2>1
  <2> HIDE DEF h
  <2>5. CASE k < i
    <3>1. k - 1 < i /\ r[k] = list[k]
      BY <1>3, <1>5, <2>1, <2>5
    <3>2. QED
      BY <2>2, <2>4, <2>5, <3>1
  <2>6. CASE k = i
    <3>1. k - 1 < i /\ ~(k < i) /\ r[k] = list[k + 1]
      BY <1>3, <1>5, <2>1, <2>6
    <3>2. h[k] = g[k + 1] - list[k].size /\ h[k - 1] = g[k - 1]
          /\ r[k].size = list[k + 1].size
      BY <2>4, <2>6, <3>1
    <3>3. ((g[k - 1] + list[k].size) + list[k + 1].size) - list[k].size
             = g[k - 1] + list[k + 1].size
      BY <2>3
    <3>4. QED
      BY <2>2, <3>2, <3>3
  <2>7. CASE k > i
    <3>1. ~(k - 1 < i) /\ ~(k < i) /\ r[k] = list[k + 1]
      BY <1>3, <1>5, <2>1, <2>7
    <3>2. h[k] = g[k + 1] - list[i].size /\ h[k - 1] = g[k] - list[i].size
          /\ r[k].size = list[k + 1].size
      BY <2>1, <2>4, <3>1
    <3>3. (g[k] + list[k + 1].size) - list[i].size
             = (g[k] - list[i].size) + list[k + 1].size
      BY <2>3
    <3>4. QED
      BY <2>2, <3>2, <3>3
  <2>8. QED
    BY <1>3, <2>1, <2>5, <2>6, <2>7
<1>9. h[N - 1] = g[N] - list[i].size
  <2>1. CASE N - 1 < i
    <3>1. N = i /\ N - 1 \in 0..(N - 1) /\ N \in 1..N
      BY <1>3, <2>1
    <3>2. h[N - 1] = g[N - 1] /\ g[N] = g[N - 1] + list[N].size
      BY <1>3, <2>1, <3>1
    <3>3. g[N - 1] \in Int /\ list[N].size \in Nat
      BY <1>3, <1>4, <3>1
    <3>4. QED
      BY <3>1, <3>2, <3>3
  <2>2. CASE ~(N - 1 < i)
    <3>1. N - 1 \in 0..(N - 1) /\ N - 1 + 1 = N
      BY <1>3
    <3>2. QED
      BY <2>2, <3>1
  <2>3. QED
    BY <2>1, <2>2
<1> HIDE DEF h
<1>10. Adds(h, r)
  BY <1>5, <1>6, <1>7, <1>8 DEF Adds
<1>11. SumOfSizes(r) = h[Len(r)]
  BY <1>5, <1>10, SumIs
<1>12. QED
  BY <1>2, <1>5, <1>9, <1>11 DEF r

\* Putting a block into a list adds its size to the sum.
LEMMA SumOfInsertAt ==
    ASSUME NEW list \in Seq(BlockType), NEW i \in 1..(Len(list) + 1),
           NEW e \in BlockType
    PROVE  SumOfSizes(InsertAt(list, i, e)) = SumOfSizes(list) + e.size
<1> DEFINE N == Len(list)
           r == InsertAt(list, i, e)
<1>1. PICK g \in [0..Len(list) -> Nat] : Adds(g, list)
  BY SomethingAdds
<1>2. SumOfSizes(list) = g[N]
  BY <1>1, SumIs
<1>3. /\ N \in Nat /\ g \in [0..N -> Int] /\ g[0] = 0 /\ i \in 1..(N + 1)
      /\ \A j \in 1..N : g[j] = g[j - 1] + list[j].size
      /\ e.size \in Nat
  BY <1>1, LenProperties DEF Adds, BlockType
<1>4. \A j \in 1..N : list[j].size \in Nat
  <2>1. \A k \in 1..N : list[k] \in BlockType
    BY ElementOfSeq
  <2>2. QED
    BY <2>1 DEF BlockType
<1>5. /\ r \in Seq(BlockType) /\ Len(r) = N + 1
      /\ \A k \in 1..(N + 1) : r[k] = IF k < i THEN list[k]
                                      ELSE IF k = i THEN e ELSE list[k - 1]
  BY InsertAtFacts, SMTT(30)
<1> HIDE DEF r
<1> DEFINE h == [k \in 0..(N + 1) |->
                    IF k < i THEN g[k] ELSE g[k - 1] + e.size]
<1>6. h \in [0..(N + 1) -> Int]
  BY <1>3
<1>7. h[0] = 0
  BY <1>3
<1>8. ASSUME NEW k \in 1..(N + 1)
      PROVE  h[k] = h[k - 1] + r[k].size
  <2>1. k \in 0..(N + 1) /\ k - 1 \in 0..(N + 1) /\ k - 1 \in 0..N
    BY <1>3
  <2>2. /\ h[k] = IF k < i THEN g[k] ELSE g[k - 1] + e.size
        /\ h[k - 1] = IF k - 1 < i THEN g[k - 1]
                      ELSE g[(k - 1) - 1] + e.size
    BY <2>1
  <2> HIDE DEF h
  <2>3. g[k - 1] \in Int
    BY <1>3, <2>1
  <2>4. CASE k < i
    <3>1. k - 1 < i /\ r[k] = list[k] /\ k \in 1..N
      BY <1>3, <1>5, <2>1, <2>4
    <3>2. QED
      BY <1>3, <2>2, <2>4, <3>1
  <2>5. CASE k = i
    <3>1. k - 1 < i /\ ~(k < i) /\ r[k] = e
      BY <1>3, <1>5, <2>1, <2>5
    <3>2. QED
      BY <2>2, <3>1
  <2>6. CASE k > i
    <3>1. ~(k - 1 < i) /\ ~(k < i) /\ r[k] = list[k - 1] /\ k - 1 \in 1..N
      BY <1>3, <1>5, <2>1, <2>6
    <3>2. h[k] = g[k - 1] + e.size /\ h[k - 1] = g[(k - 1) - 1] + e.size
          /\ r[k].size = list[k - 1].size
      BY <2>2, <3>1
    <3>3. g[k - 1] = g[(k - 1) - 1] + list[k - 1].size
          /\ list[k - 1].size \in Nat
      BY <1>3, <1>4, <3>1
    <3>4. (k - 1) - 1 \in 0..N
      BY <1>3, <3>1
    <3>5. g[(k - 1) - 1] \in Int
      BY <1>3, <3>4
    <3>6. (g[(k - 1) - 1] + list[k - 1].size) + e.size
             = (g[(k - 1) - 1] + e.size) + list[k - 1].size
      BY <1>3, <3>3, <3>5
    <3>7. QED
      BY <3>2, <3>3, <3>6
  <2>7. k < i \/ k = i \/ k > i
    BY <1>3
  <2>8. QED
    BY <2>4, <2>5, <2>6, <2>7
<1>9. h[N + 1] = g[N] + e.size
  <2>1. N + 1 \in 0..(N + 1) /\ ~(N + 1 < i) /\ (N + 1) - 1 = N
    BY <1>3
  <2>2. QED
    BY <2>1
<1> HIDE DEF h
<1>10. Adds(h, r)
  <2>1. \A k \in 1..Len(r) : h[k] = h[k - 1] + r[k].size
    BY <1>5, <1>8
  <2>2. h \in [0..Len(r) -> Int]
    BY <1>5, <1>6
  <2>3. QED
    BY <1>7, <2>1, <2>2 DEF Adds
<1>11. SumOfSizes(r) = h[Len(r)]
  BY <1>5, <1>10, SumIs
<1>12. QED
  BY <1>2, <1>5, <1>9, <1>11 DEF r

\* Replacing a block replaces its size in the sum.
LEMMA SumOfReplace ==
    ASSUME NEW list \in Seq(BlockType), NEW i \in 1..Len(list),
           NEW e \in BlockType
    PROVE  SumOfSizes([list EXCEPT ![i] = e])
              = SumOfSizes(list) - list[i].size + e.size
<1> DEFINE N == Len(list)
           r == RemoveAt(list, i)
           t == InsertAt(r, i, e)
<1>1. N \in Nat /\ i \in 1..N
  BY LenProperties
<1>2. /\ r \in Seq(BlockType) /\ Len(r) = N - 1
      /\ \A k \in 1..(N - 1) : r[k] = IF k < i THEN list[k] ELSE list[k + 1]
      /\ SumOfSizes(r) = SumOfSizes(list) - list[i].size
  BY RemoveAtFacts, SumOfRemoveAt
<1> HIDE DEF r
<1>3. i \in 1..(Len(r) + 1) /\ Len(r) + 1 = N
  BY <1>1, <1>2
<1>4. /\ t \in Seq(BlockType) /\ Len(t) = Len(r) + 1
      /\ \A k \in 1..(Len(r) + 1) :
            t[k] = IF k < i THEN r[k] ELSE IF k = i THEN e ELSE r[k - 1]
  <2>1. r \in Seq(BlockType) /\ i \in 1..(Len(r) + 1)
    BY <1>2, <1>3
  <2>2. QED
    BY <2>1, InsertAtFacts, SMTT(30)
<1>5. SumOfSizes(t) = SumOfSizes(r) + e.size
  BY <1>2, <1>3, SumOfInsertAt
<1> HIDE DEF t
<1> DEFINE x == [list EXCEPT ![i] = e]
<1>6. /\ x \in Seq(BlockType) /\ Len(x) = N
      /\ \A k \in 1..N : x[k] = IF k = i THEN e ELSE list[k]
  BY ExceptSeq
<1> HIDE DEF x
<1>7. ASSUME NEW k \in 1..N PROVE t[k] = x[k]
  <2>1. CASE k < i
    <3>1. k \in 1..(N - 1) /\ k # i
      BY <1>1, <2>1
    <3>2. QED
      BY <1>2, <1>3, <1>4, <1>6, <2>1, <3>1
  <2>2. CASE k = i
    <3>1. ~(k < i)
      BY <1>1, <2>2
    <3>2. QED
      BY <1>3, <1>4, <1>6, <2>2, <3>1
  <2>3. CASE k > i
    <3>1. k - 1 \in 1..(N - 1) /\ k # i /\ ~(k < i) /\ ~(k - 1 < i)
          /\ (k - 1) + 1 = k
      BY <1>1, <2>3
    <3>2. t[k] = r[k - 1] /\ r[k - 1] = list[k]
      BY <1>2, <1>3, <1>4, <3>1
    <3>3. QED
      BY <1>6, <3>1, <3>2
  <2>4. k < i \/ k = i \/ k > i
    BY <1>1
  <2>5. QED
    BY <2>1, <2>2, <2>3, <2>4
<1>8. t = x
  <2>1. Len(t) = Len(x) /\ \A k \in 1..Len(t) : t[k] = x[k]
    BY <1>3, <1>4, <1>6, <1>7
  <2>2. QED
    BY <1>4, <1>6, <2>1, SeqEqual
<1>9. QED
  BY <1>2, <1>5, <1>8 DEF x

-----------------------------------------------------------------------------
InBlock(b, x) == b.addr <= x /\ x < End(b)

Apart(b, c) == End(b) <= c.addr \/ End(c) <= b.addr

\* The blocks of f are in the order of their addresses; where one touches the
\* next, its place is in T.
Chain(f, T) ==
    \A u, v \in 1..Len(f) :
        u < v => /\ End(f[u]) <= f[v].addr
                 /\ End(f[u]) = f[v].addr => u \in T

\* What merging may do to a list: a block and the header of the next become
\* one, nothing is lost and nothing new is covered.
Condensed(g, f) ==
    /\ g \in Seq(BlockType)
    /\ \/ Len(g) = Len(f) /\ SumOfSizes(g) = SumOfSizes(f)
       \/ Len(g) = Len(f) - 1 /\ SumOfSizes(g) = SumOfSizes(f) + Header
    /\ \A c \in BlockType :
          (\A u \in 1..Len(f) : Apart(c, f[u])) =>
             \A u \in 1..Len(g) : Apart(c, g[u])
    /\ \A x \in Nat :
          (\E u \in 1..Len(f) : InBlock(f[u], x)) =>
             \E u \in 1..Len(g) : InBlock(g[u], x)
    /\ (\A u \in 1..Len(f) : End(f[u]) <= HeapSize) =>
          \A u \in 1..Len(g) : End(g[u]) <= HeapSize

\* A header takes some bytes.
LEMMA HeaderType == Header \in Nat /\ Header > 0
BY HeapAssumption DEF Header

\* A block is its address and its size.
LEMMA BlockFacts ==
    ASSUME NEW a \in Nat, NEW n \in Nat
    PROVE  /\ Block(a, n) \in BlockType
           /\ Block(a, n).addr = a
           /\ Block(a, n).size = n
           /\ End(Block(a, n)) = a + Header + n
BY HeaderType DEF Block, BlockType, End

\* A block ends after its header and its payload.
LEMMA BlockTypeFacts ==
    ASSUME NEW b \in BlockType
    PROVE  /\ b.addr \in Nat /\ b.size \in Nat
           /\ End(b) = b.addr + Header + b.size /\ End(b) \in Nat
           /\ b.addr < End(b)
BY HeaderType DEF BlockType, End

\* Two blocks that touch, as one.
LEMMA MergedBlock ==
    ASSUME NEW b \in BlockType, NEW c \in BlockType
    PROVE  LET e == Block(b.addr, b.size + Header + c.size)
           IN  /\ e \in BlockType
               /\ e.addr = b.addr
               /\ e.size = b.size + Header + c.size
               /\ End(b) = c.addr => End(e) = End(c)
<1>1. PICK n \in Nat : n = b.size + Header + c.size
  BY BlockTypeFacts, HeaderType
<1>2. b.addr \in Nat
  BY BlockTypeFacts
<1>3. /\ Block(b.addr, n) \in BlockType
      /\ Block(b.addr, n).addr = b.addr
      /\ Block(b.addr, n).size = n
      /\ End(Block(b.addr, n)) = b.addr + Header + n
  BY <1>2, BlockFacts
<1>4. End(b) = c.addr => b.addr + Header + n = End(c)
  BY <1>1, BlockTypeFacts, HeaderType
<1>5. QED
  BY <1>1, <1>3, <1>4

\* What Merge makes of a list, block by block.
LEMMA MergeFacts ==
    ASSUME NEW f \in Seq(BlockType), NEW i \in 1..(Len(f) - 1)
    PROVE  /\ Merge(f, i) \in Seq(BlockType)
           /\ Len(Merge(f, i)) = Len(f) - 1
           /\ SumOfSizes(Merge(f, i)) = SumOfSizes(f) + Header
           /\ \A k \in 1..(Len(f) - 1) :
                 Merge(f, i)[k] =
                    IF k < i THEN f[k]
                    ELSE IF k > i THEN f[k + 1]
                    ELSE Block(f[i].addr, f[i].size + Header + f[i + 1].size)
<1> DEFINE N == Len(f)
           e == Block(f[i].addr, f[i].size + Header + f[i + 1].size)
           x == [f EXCEPT ![i] = e]
<1>1. N \in Nat /\ i \in 1..N /\ i + 1 \in 1..N /\ i \in 1..(N - 1)
  BY LenProperties
<1>2. f[i] \in BlockType /\ f[i + 1] \in BlockType
  BY <1>1, ElementOfSeq
<1>3. f[i].addr \in Nat /\ f[i].size \in Nat /\ f[i + 1].size \in Nat
  BY <1>2 DEF BlockType
<1>4. e \in BlockType /\ e.size = f[i].size + Header + f[i + 1].size
  BY <1>2, MergedBlock
<1>5. [f EXCEPT ![i].size = @ + Header + f[i + 1].size] = x
  <2>1. f[i] = [addr |-> f[i].addr, size |-> f[i].size]
    BY <1>2 DEF BlockType
  <2>2. [f[i] EXCEPT !.size = f[i].size + Header + f[i + 1].size] = e
    BY <2>1 DEF Block
  <2>3. QED
    BY <2>2
<1>6. Merge(f, i) = RemoveAt(x, i + 1)
  BY <1>5 DEF Merge
<1>7. SumOfSizes(x) = SumOfSizes(f) - f[i].size + e.size
  BY <1>1, <1>4, SumOfReplace
<1> HIDE DEF e
<1>8. /\ x \in Seq(BlockType) /\ Len(x) = N
      /\ \A k \in 1..N : x[k] = IF k = i THEN e ELSE f[k]
  BY <1>1, <1>4, ExceptSeq
<1> HIDE DEF x
<1> DEFINE r == RemoveAt(x, i + 1)
<1>9. i + 1 \in 1..Len(x)
  BY <1>1, <1>8
<1>10. /\ r \in Seq(BlockType) /\ Len(r) = Len(x) - 1
       /\ \A k \in 1..(Len(x) - 1) :
             r[k] = IF k < i + 1 THEN x[k] ELSE x[k + 1]
  BY <1>8, <1>9, RemoveAtFacts
<1>11. SumOfSizes(r) = SumOfSizes(x) - x[i + 1].size
  BY <1>8, <1>9, SumOfRemoveAt
<1> HIDE DEF r
<1>12. x[i + 1] = f[i + 1]
  BY <1>1, <1>8
<1>13. SumOfSizes(r) = SumOfSizes(f) + Header
  <2>1. SumOfSizes(f) \in Nat
    BY SumType
  <2>2. SumOfSizes(r) = ((SumOfSizes(f) - f[i].size)
                          + (f[i].size + Header + f[i + 1].size))
                        - f[i + 1].size
    BY <1>4, <1>7, <1>11, <1>12
  <2>3. QED
    BY <1>3, <2>1, <2>2, HeaderType
<1>14. ASSUME NEW k \in 1..(N - 1)
       PROVE  r[k] = IF k < i THEN f[k] ELSE IF k > i THEN f[k + 1] ELSE e
  <2>1. k \in 1..N /\ k + 1 \in 1..N /\ k \in 1..(Len(x) - 1)
    BY <1>1, <1>8
  <2>2. CASE k < i
    <3>1. k < i + 1 /\ k # i
      BY <1>1, <2>2
    <3>2. QED
      BY <1>8, <1>10, <2>1, <2>2, <3>1
  <2>3. CASE k = i
    <3>1. k < i + 1 /\ ~(k < i) /\ ~(k > i)
      BY <1>1, <2>3
    <3>2. QED
      BY <1>8, <1>10, <2>1, <2>3, <3>1
  <2>4. CASE k > i
    <3>1. ~(k < i + 1) /\ k + 1 # i /\ ~(k < i)
      BY <1>1, <2>4
    <3>2. QED
      BY <1>8, <1>10, <2>1, <2>4, <3>1
  <2>5. k < i \/ k = i \/ k > i
    BY <1>1
  <2>6. QED
    BY <2>2, <2>3, <2>4, <2>5
<1>15. QED
  BY <1>6, <1>8, <1>10, <1>13, <1>14 DEF e, r

\* A merge at i keeps the order, and what touched there touches no more.
LEMMA MergeAtFacts ==
    ASSUME NEW f \in Seq(BlockType), NEW i \in Int, NEW T \in SUBSET Int,
           Chain(f, T), \A t \in T : t <= i
    PROVE  /\ Condensed(MergeAt(f, i), f)
           /\ Chain(MergeAt(f, i), T \ {i})
<1> DEFINE N == Len(f)
           g == MergeAt(f, i)
<1>1. N \in Nat /\ \A k \in 1..N : f[k] \in BlockType
  BY LenProperties, ElementOfSeq
<1>2. \A k \in 1..N : /\ f[k].addr \in Nat /\ f[k].size \in Nat
                      /\ End(f[k]) = f[k].addr + Header + f[k].size
                      /\ End(f[k]) \in Nat
  BY <1>1, HeaderType DEF BlockType, End
<1>3. CASE ~(i \in 1..(N - 1) /\ IsContiguous(f[i], f[i + 1]))
  <2>1. g = f
    BY <1>3 DEF MergeAt
  <2>2. Condensed(f, f)
    BY <1>2 DEF Condensed
  <2>3. ASSUME NEW u \in 1..N, NEW v \in 1..N, u < v
        PROVE  /\ End(f[u]) <= f[v].addr
               /\ End(f[u]) = f[v].addr => u \in T \ {i}
    <3>1. /\ End(f[u]) <= f[v].addr
          /\ End(f[u]) = f[v].addr => u \in T
      BY <2>3 DEF Chain
    <3>2. ASSUME End(f[u]) = f[v].addr, u = i PROVE FALSE
      <4>1. i \in 1..(N - 1) /\ i + 1 \in 1..N
        BY <1>1, <2>3, <3>2
      <4>2. CASE v = i + 1
        BY <1>2, <1>3, <3>2, <4>1, <4>2 DEF IsContiguous
      <4>3. CASE v # i + 1
        <5>1. i < i + 1 /\ i + 1 < v
          BY <2>3, <3>2, <4>1, <4>3
        <5>2. End(f[i]) <= f[i + 1].addr /\ End(f[i + 1]) <= f[v].addr
          BY <3>2, <4>1, <5>1 DEF Chain
        <5>3. End(f[i + 1]) = f[i + 1].addr + Header + f[i + 1].size
              /\ f[i + 1].addr \in Nat /\ f[i + 1].size \in Nat
              /\ f[v].addr \in Nat /\ End(f[i]) \in Nat
          BY <1>2, <2>3, <4>1, <3>2
        <5>4. QED
          BY <3>2, <5>2, <5>3, HeaderType
      <4>4. QED
        BY <4>2, <4>3
    <3>3. QED
      BY <3>1, <3>2
  <2>4. Chain(f, T \ {i})
    BY <2>3 DEF Chain
  <2>5. QED
    BY <2>1, <2>2, <2>4
<1>4. CASE i \in 1..(N - 1) /\ IsContiguous(f[i], f[i + 1])
  <2> DEFINE e == Block(f[i].addr, f[i].size + Header + f[i + 1].size)
  <2>1. g = Merge(f, i)
    BY <1>4 DEF MergeAt
  <2>2. /\ g \in Seq(BlockType) /\ Len(g) = N - 1
        /\ SumOfSizes(g) = SumOfSizes(f) + Header
        /\ \A k \in 1..(N - 1) :
              g[k] = IF k < i THEN f[k] ELSE IF k > i THEN f[k + 1] ELSE e
    BY <1>4, <2>1, MergeFacts
  <2> HIDE DEF g
  <2>3. i \in 1..N /\ i + 1 \in 1..N /\ i \in Nat /\ End(f[i]) = f[i + 1].addr
    BY <1>1, <1>2, <1>4 DEF IsContiguous, End
  <2>4. e \in BlockType /\ e.addr = f[i].addr /\ End(e) = End(f[i + 1])
    <3>1. f[i] \in BlockType /\ f[i + 1] \in BlockType
      BY <1>1, <2>3
    <3>2. QED
      BY <2>3, <3>1, MergedBlock
  <2> HIDE DEF e
  <2>5. \A c \in BlockType : c.addr \in Nat /\ c.size \in Nat /\ End(c) \in Nat
                             /\ c.addr < End(c)
    BY HeaderType DEF BlockType, End
  <2>6. ASSUME NEW c \in BlockType, \A u \in 1..N : Apart(c, f[u]),
               NEW k \in 1..(N - 1)
        PROVE  Apart(c, g[k])
    <3>1. k \in 1..N /\ k + 1 \in 1..N
      BY <1>1
    <3>2. CASE k < i
      BY <2>2, <2>6, <3>1, <3>2
    <3>3. CASE k > i
      <4>1. g[k] = f[k + 1]
        BY <2>2, <2>3, <3>3
      <4>2. QED
        BY <2>6, <3>1, <4>1
    <3>4. CASE k = i
      <4>1. g[k] = e
        BY <2>2, <2>3, <3>4
      <4>2. Apart(c, f[i]) /\ Apart(c, f[i + 1])
        BY <2>3, <2>6
      <4>3. /\ End(c) <= f[i].addr \/ End(f[i]) <= c.addr
            /\ End(c) <= f[i + 1].addr \/ End(f[i + 1]) <= c.addr
        BY <4>2 DEF Apart
      <4>4. /\ End(c) \in Nat /\ c.addr \in Nat /\ c.addr < End(c)
            /\ f[i].addr \in Nat /\ f[i + 1].addr \in Nat
            /\ End(f[i + 1]) \in Nat /\ End(f[i]) \in Nat
        BY <1>2, <2>3, <2>5
      <4>5. End(c) <= f[i].addr \/ End(f[i + 1]) <= c.addr
        BY <2>3, <4>3, <4>4
      <4>6. QED
        BY <2>4, <4>1, <4>5 DEF Apart
    <3>5. QED
      BY <2>3, <3>2, <3>3, <3>4
  <2>7. ASSUME NEW x \in Nat, NEW u \in 1..N, InBlock(f[u], x)
        PROVE  \E k \in 1..(N - 1) : InBlock(g[k], x)
    <3>1. f[u].addr <= x /\ x < End(f[u]) /\ f[u].addr \in Nat
          /\ End(f[u]) \in Nat
      BY <1>2, <2>7 DEF InBlock
    <3>2. CASE u < i
      <4>1. u \in 1..(N - 1) /\ g[u] = f[u]
        BY <2>2, <2>3, <3>2
      <4>2. QED
        BY <2>7, <4>1
    <3>3. CASE u = i \/ u = i + 1
      <4>1. i \in 1..(N - 1) /\ g[i] = e
        BY <1>4, <2>2, <2>3
      <4>2. f[i].addr <= x /\ x < End(f[i + 1])
        <5>1. f[i] \in BlockType /\ f[i + 1] \in BlockType
          BY <1>1, <2>3
        <5>2. /\ f[i].addr \in Nat /\ f[i + 1].addr \in Nat
              /\ End(f[i]) \in Nat /\ End(f[i + 1]) \in Nat
              /\ f[i].addr < End(f[i]) /\ f[i + 1].addr < End(f[i + 1])
          BY <5>1, BlockTypeFacts
        <5>3. CASE u = i
          BY <2>3, <3>1, <5>2, <5>3
        <5>4. CASE u = i + 1
          BY <2>3, <3>1, <5>2, <5>4
        <5>5. QED
          BY <3>3, <5>3, <5>4
      <4>3. InBlock(g[i], x)
        BY <2>4, <4>1, <4>2 DEF InBlock
      <4>4. QED
        BY <4>1, <4>3
    <3>4. CASE u > i + 1
      <4>1. u - 1 \in 1..(N - 1) /\ u - 1 > i /\ ~(u - 1 < i)
            /\ (u - 1) + 1 = u
        BY <1>1, <2>3, <3>4
      <4>2. g[u - 1] = f[u]
        BY <2>2, <4>1
      <4>3. QED
        BY <2>7, <4>1, <4>2
    <3>5. QED
      BY <2>3, <3>2, <3>3, <3>4
  <2>8. ASSUME \A u \in 1..N : End(f[u]) <= HeapSize, NEW k \in 1..(N - 1)
        PROVE  End(g[k]) <= HeapSize
    <3>1. k \in 1..N /\ k + 1 \in 1..N
      BY <1>1
    <3>2. g[k] = f[k] \/ g[k] = f[k + 1] \/ g[k] = e
      BY <2>2
    <3>3. QED
      BY <2>3, <2>4, <2>8, <3>1, <3>2
  <2>9. Condensed(g, f)
    <3>1. \A c \in BlockType :
             (\A u \in 1..Len(f) : Apart(c, f[u])) =>
                \A u \in 1..Len(g) : Apart(c, g[u])
      BY <2>2, <2>6
    <3>2. \A x \in Nat :
             (\E u \in 1..Len(f) : InBlock(f[u], x)) =>
                \E u \in 1..Len(g) : InBlock(g[u], x)
      BY <2>2, <2>7
    <3>3. (\A u \in 1..Len(f) : End(f[u]) <= HeapSize) =>
             \A u \in 1..Len(g) : End(g[u]) <= HeapSize
      BY <2>2, <2>8
    <3>4. QED
      BY <2>2, <3>1, <3>2, <3>3 DEF Condensed
  <2>10. ASSUME NEW u \in 1..(N - 1), NEW v \in 1..(N - 1), u < v
         PROVE  /\ End(g[u]) <= g[v].addr
                /\ End(g[u]) = g[v].addr => u \in T \ {i}
    <3> DEFINE p == IF u < i THEN u ELSE u + 1
               q == IF v <= i THEN v ELSE v + 1
    <3>1. p \in 1..N /\ q \in 1..N /\ p < q
      BY <1>1, <2>3, <2>10
    <3>2. End(g[u]) = End(f[p])
      <4>1. CASE u < i
        BY <2>2, <4>1
      <4>2. CASE u = i
        <5>1. g[u] = e /\ ~(u < i)
          BY <2>2, <2>3, <4>2
        <5>2. QED
          BY <2>4, <4>2, <5>1
      <4>3. CASE u > i
        <5>1. g[u] = f[u + 1] /\ ~(u < i)
          BY <2>2, <2>3, <4>3
        <5>2. QED
          BY <5>1
      <4>4. u < i \/ u = i \/ u > i
        BY <2>3
      <4>5. QED
        BY <4>1, <4>2, <4>3, <4>4
    <3>3. g[v].addr = f[q].addr
      <4>1. CASE v < i
        <5>1. v <= i /\ g[v] = f[v]
          BY <2>2, <2>3, <4>1
        <5>2. QED
          BY <5>1
      <4>2. CASE v = i
        <5>1. g[v] = e /\ v <= i
          BY <2>2, <2>3, <4>2
        <5>2. QED
          BY <2>4, <4>2, <5>1
      <4>3. CASE v > i
        <5>1. g[v] = f[v + 1] /\ ~(v <= i)
          BY <2>2, <2>3, <4>3
        <5>2. QED
          BY <5>1
      <4>4. v < i \/ v = i \/ v > i
        BY <2>3
      <4>5. QED
        BY <4>1, <4>2, <4>3, <4>4
    <3>4. /\ End(f[p]) <= f[q].addr
          /\ End(f[p]) = f[q].addr => p \in T
      BY <3>1 DEF Chain
    <3>5. p \in T => u \in T \ {i}
      <4>1. ASSUME p \in T PROVE p = u /\ u # i
        <5>1. p <= i
          BY <4>1
        <5>2. QED
          BY <2>3, <5>1
      <4>2. QED
        BY <4>1
    <3> HIDE DEF p, q
    <3>6. QED
      BY <3>2, <3>3, <3>4, <3>5
  <2>11. Chain(g, T \ {i})
    BY <2>2, <2>10 DEF Chain
  <2>12. QED
    BY <2>9, <2>11 DEF g
<1>5. QED
  BY <1>3, <1>4

-----------------------------------------------------------------------------
(***************************************************************************)
(* Free list f and list of live blocks l take up the heap: no block lies   *)
(* over another, every byte of the heap is in one of them, and no free     *)
(* block touches the next.                                                 *)
(***************************************************************************)
Tiling(f, l) ==
    /\ f \in Seq(BlockType) /\ l \in Seq(BlockType)
    /\ \A u \in 1..Len(f) : End(f[u]) <= HeapSize
    /\ \A u \in 1..Len(l) : End(l[u]) <= HeapSize
    /\ Chain(f, {})
    /\ \A u, v \in 1..Len(l) : u # v => Apart(l[u], l[v])
    /\ \A u \in 1..Len(l), v \in 1..Len(f) : Apart(l[u], f[v])
    /\ \A x \in Nat :
          x < HeapSize => \/ \E u \in 1..Len(f) : InBlock(f[u], x)
                          \/ \E u \in 1..Len(l) : InBlock(l[u], x)

\* Being apart does not depend on the order.
LEMMA ApartSymmetric == \A b, c : Apart(b, c) <=> Apart(c, b)
BY DEF Apart

\* Two blocks of the free list lie apart.
LEMMA ChainApart ==
    ASSUME NEW f, NEW T, Chain(f, T), NEW u \in 1..Len(f),
           NEW v \in 1..Len(f), u # v
    PROVE  Apart(f[u], f[v])
<1>1. u < v \/ v < u
  OBVIOUS
<1>2. QED
  BY <1>1 DEF Chain, Apart

\* The live blocks after malloc, given that the granted one lies apart.
LEMMA ConsApart ==
    ASSUME NEW l \in Seq(BlockType), NEW c \in BlockType,
           \A u, v \in 1..Len(l) : u # v => Apart(l[u], l[v]),
           \A u \in 1..Len(l) : Apart(l[u], c)
    PROVE  \A u, v \in 1..(Len(l) + 1) :
              u # v => Apart((<<c>> \o l)[u], (<<c>> \o l)[v])
<1> DEFINE n == <<c>> \o l
<1>1. Len(l) \in Nat
  BY LenProperties
<1>2. \A k \in 1..(Len(l) + 1) : n[k] = IF k = 1 THEN c ELSE l[k - 1]
  BY ConsFacts
<1> HIDE DEF n
<1>3. ASSUME NEW u \in 1..(Len(l) + 1), NEW v \in 1..(Len(l) + 1), u # v
      PROVE  Apart(n[u], n[v])
  <2>1. CASE u = 1
    <3>1. n[u] = c /\ n[v] = l[v - 1] /\ v - 1 \in 1..Len(l)
      BY <1>1, <1>2, <1>3, <2>1
    <3>2. QED
      BY <3>1, ApartSymmetric
  <2>2. CASE v = 1
    <3>1. n[v] = c /\ n[u] = l[u - 1] /\ u - 1 \in 1..Len(l)
      BY <1>1, <1>2, <1>3, <2>2
    <3>2. QED
      BY <3>1
  <2>3. CASE u # 1 /\ v # 1
    <3>1. /\ n[u] = l[u - 1] /\ u - 1 \in 1..Len(l)
          /\ n[v] = l[v - 1] /\ v - 1 \in 1..Len(l) /\ u - 1 # v - 1
      BY <1>1, <1>2, <1>3, <2>3
    <3>2. QED
      BY <3>1
  <2>4. QED
    BY <2>1, <2>2, <2>3
<1>4. QED
  BY <1>3 DEF n

\* malloc grants a whole free block.
LEMMA TakeWhole ==
    ASSUME NEW f, NEW l, Tiling(f, l), NEW i \in 1..Len(f)
    PROVE  Tiling(RemoveAt(f, i), <<f[i]>> \o l)
<1> DEFINE N == Len(f)
           M == Len(l)
           r == RemoveAt(f, i)
           n == <<f[i]>> \o l
<1>1. /\ f \in Seq(BlockType) /\ l \in Seq(BlockType)
      /\ N \in Nat /\ M \in Nat /\ f[i] \in BlockType
      /\ \A u \in 1..N : End(f[u]) <= HeapSize
      /\ \A u \in 1..M : End(l[u]) <= HeapSize
      /\ \A u, v \in 1..M : u # v => Apart(l[u], l[v])
      /\ \A u \in 1..M, v \in 1..N : Apart(l[u], f[v])
  BY LenProperties, ElementOfSeq DEF Tiling
<1>2. /\ r \in Seq(BlockType) /\ Len(r) = N - 1
      /\ \A k \in 1..(N - 1) : r[k] = IF k < i THEN f[k] ELSE f[k + 1]
  BY <1>1, RemoveAtFacts
<1>3. /\ n \in Seq(BlockType) /\ Len(n) = M + 1
      /\ \A k \in 1..(M + 1) : n[k] = IF k = 1 THEN f[i] ELSE l[k - 1]
  BY <1>1, ConsFacts
<1>4. \A u, v \in 1..(M + 1) : u # v => Apart(n[u], n[v])
  BY <1>1, ConsApart
<1> HIDE DEF r, n
<1> DEFINE old(k) == IF k < i THEN k ELSE k + 1
<1>5. \A k \in 1..(N - 1) : old(k) \in 1..N /\ old(k) # i /\ r[k] = f[old(k)]
  BY <1>1, <1>2
<1>6. \A j, k \in 1..(N - 1) : j < k => old(j) < old(k)
  BY <1>1
<1>7. \A u \in 1..N : u # i => \E k \in 1..(N - 1) : r[k] = f[u]
  <2> SUFFICES ASSUME NEW u \in 1..N, u # i
               PROVE  \E k \in 1..(N - 1) : r[k] = f[u]
    OBVIOUS
  <2>1. CASE u < i
    <3>1. u \in 1..(N - 1) /\ r[u] = f[u]
      BY <1>1, <1>2, <2>1
    <3>2. QED
      BY <3>1
  <2>2. CASE ~(u < i)
    <3>1. u - 1 \in 1..(N - 1) /\ ~(u - 1 < i) /\ (u - 1) + 1 = u
      BY <1>1, <2>2
    <3>2. r[u - 1] = f[u]
      BY <1>2, <3>1
    <3>3. QED
      BY <3>1, <3>2
  <2>3. QED
    BY <2>1, <2>2
<1> HIDE DEF old
<1>8. \A u \in 1..(N - 1) : End(r[u]) <= HeapSize
  BY <1>1, <1>5
<1>9. \A u \in 1..(M + 1) : End(n[u]) <= HeapSize
  <2> SUFFICES ASSUME NEW u \in 1..(M + 1) PROVE End(n[u]) <= HeapSize
    OBVIOUS
  <2>1. CASE u = 1
    BY <1>1, <1>3, <2>1
  <2>2. CASE u # 1
    <3>1. n[u] = l[u - 1] /\ u - 1 \in 1..M
      BY <1>1, <1>3, <2>2
    <3>2. QED
      BY <1>1, <3>1
  <2>3. QED
    BY <2>1, <2>2
<1>10. Chain(r, {})
  <2>1. ASSUME NEW u \in 1..(N - 1), NEW v \in 1..(N - 1), u < v
        PROVE  End(r[u]) <= r[v].addr /\ End(r[u]) # r[v].addr
    <3>1. old(u) \in 1..N /\ old(v) \in 1..N /\ old(u) < old(v)
      BY <1>5, <1>6, <2>1
    <3>2. End(f[old(u)]) <= f[old(v)].addr /\ End(f[old(u)]) # f[old(v)].addr
      BY <3>1 DEF Chain, Tiling
    <3>3. QED
      BY <1>5, <3>2
  <2>2. QED
    BY <1>2, <2>1 DEF Chain
<1>11. ASSUME NEW u \in 1..(M + 1), NEW v \in 1..(N - 1)
       PROVE  Apart(n[u], r[v])
  <2>1. old(v) \in 1..N /\ old(v) # i /\ r[v] = f[old(v)]
    BY <1>5
  <2>2. CASE u = 1
    <3>1. Apart(f[i], f[old(v)])
      BY <2>1, ChainApart DEF Tiling
    <3>2. QED
      BY <1>3, <2>1, <2>2, <3>1
  <2>3. CASE u # 1
    <3>1. n[u] = l[u - 1] /\ u - 1 \in 1..M
      BY <1>1, <1>3, <2>3
    <3>2. QED
      BY <1>1, <2>1, <3>1
  <2>4. QED
    BY <2>2, <2>3
<1>12. ASSUME NEW x \in Nat, x < HeapSize
       PROVE  \/ \E u \in 1..(N - 1) : InBlock(r[u], x)
              \/ \E u \in 1..(M + 1) : InBlock(n[u], x)
  <2>1. CASE \E u \in 1..N : InBlock(f[u], x)
    <3>1. PICK u \in 1..N : InBlock(f[u], x)
      BY <2>1
    <3>2. CASE u = i
      <4>1. 1 \in 1..(M + 1) /\ n[1] = f[i]
        BY <1>1, <1>3
      <4>2. QED
        BY <3>1, <3>2, <4>1
    <3>3. CASE u # i
      BY <1>7, <3>1, <3>3
    <3>4. QED
      BY <3>2, <3>3
  <2>2. CASE \E u \in 1..M : InBlock(l[u], x)
    <3>1. PICK u \in 1..M : InBlock(l[u], x)
      BY <2>2
    <3>2. u + 1 \in 1..(M + 1) /\ u + 1 # 1 /\ (u + 1) - 1 = u
      BY <1>1
    <3>3. n[u + 1] = l[u]
      BY <1>3, <3>2
    <3>4. QED
      BY <3>1, <3>2, <3>3
  <2>3. QED
    BY <1>12, <2>1, <2>2 DEF Tiling
<1>13. Tiling(r, n)
  BY <1>2, <1>3, <1>4, <1>8, <1>9, <1>10, <1>11, <1>12 DEF Tiling
<1>14. QED
  BY <1>13 DEF r, n

\* What is left of a free block when its beginning is granted.
LEMMA RestFacts ==
    ASSUME NEW a \in Nat, NEW z \in Nat, NEW s \in Nat, s + Header <= z
    PROVE  LET e == Block(a + Header + s, z - Header - s)
           IN  /\ e \in BlockType
               /\ e.addr = a + Header + s
               /\ e.size = z - Header - s
               /\ End(e) = a + Header + z
<1>1. a + Header + s \in Nat /\ z - Header - s \in Nat
  BY HeaderType
<1>2. (a + Header + s) + Header + (z - Header - s) = a + Header + z
  BY HeaderType
<1>3. QED
  BY <1>1, <1>2, BlockFacts

\* malloc grants the beginning of a free block.
LEMMA TakePart ==
    ASSUME NEW f, NEW l, Tiling(f, l), NEW i \in 1..Len(f), NEW s \in Nat,
           s + Header <= f[i].size
    PROVE  Tiling([f EXCEPT ![i] = Rest(f[i], s)],
                  <<Block(f[i].addr, s)>> \o l)
<1> DEFINE N == Len(f)
           M == Len(l)
           e == Rest(f[i], s)
           c == Block(f[i].addr, s)
           r == [f EXCEPT ![i] = e]
           n == <<c>> \o l
<1>1. /\ f \in Seq(BlockType) /\ l \in Seq(BlockType)
      /\ N \in Nat /\ M \in Nat
      /\ \A u \in 1..N : f[u] \in BlockType /\ End(f[u]) <= HeapSize
      /\ \A u \in 1..M : l[u] \in BlockType /\ End(l[u]) <= HeapSize
      /\ \A u, v \in 1..M : u # v => Apart(l[u], l[v])
      /\ \A u \in 1..M, v \in 1..N : Apart(l[u], f[v])
  BY LenProperties, ElementOfSeq DEF Tiling
<1>2. /\ f[i] \in BlockType /\ f[i].addr \in Nat /\ f[i].size \in Nat
      /\ End(f[i]) \in Nat /\ End(f[i]) = f[i].addr + Header + f[i].size
  BY <1>1, BlockTypeFacts
<1>3. /\ c \in BlockType /\ c.addr = f[i].addr
      /\ End(c) = f[i].addr + Header + s
  BY <1>2, BlockFacts
<1>4. e \in BlockType /\ e.addr = End(c) /\ End(e) = End(f[i])
  <2>1. e = Block(f[i].addr + Header + s, f[i].size - Header - s)
    BY DEF Rest
  <2>2. QED
    BY <1>2, <1>3, <2>1, RestFacts
<1> HIDE DEF e, c
<1>5. /\ c.addr \in Nat /\ e.addr \in Nat /\ End(c) \in Nat /\ End(e) \in Nat
      /\ c.addr < End(c) /\ e.addr < End(e)
  BY <1>3, <1>4, BlockTypeFacts
<1>6. /\ r \in Seq(BlockType) /\ Len(r) = N
      /\ \A k \in 1..N : r[k] = IF k = i THEN e ELSE f[k]
  BY <1>1, <1>4, ExceptSeq
<1> HIDE DEF r
<1>7. ASSUME NEW b \in BlockType, Apart(b, f[i])
      PROVE  Apart(b, c) /\ Apart(b, e)
  <2>1. b.addr \in Nat /\ End(b) \in Nat
    BY BlockTypeFacts
  <2>2. End(b) <= f[i].addr \/ End(f[i]) <= b.addr
    BY <1>7 DEF Apart
  <2>3. /\ End(b) <= c.addr \/ End(c) <= b.addr
        /\ End(b) <= e.addr \/ End(e) <= b.addr
    BY <1>2, <1>3, <1>4, <1>5, <2>1, <2>2
  <2>4. QED
    BY <2>3 DEF Apart
<1>8. \A u \in 1..M : Apart(l[u], c) /\ Apart(l[u], e)
  BY <1>1, <1>7
<1>9. /\ n \in Seq(BlockType) /\ Len(n) = M + 1
      /\ \A k \in 1..(M + 1) : n[k] = IF k = 1 THEN c ELSE l[k - 1]
  BY <1>1, <1>3, ConsFacts
<1>10. \A u, v \in 1..(M + 1) : u # v => Apart(n[u], n[v])
  BY <1>1, <1>3, <1>8, ConsApart
<1> HIDE DEF n
<1>11. HeapSize \in Nat
  BY HeapAssumption
<1>12. \A u \in 1..N : End(r[u]) <= HeapSize
  BY <1>1, <1>4, <1>6
<1>13. \A u \in 1..(M + 1) : End(n[u]) <= HeapSize
  <2>1. End(c) <= HeapSize
    <3>1. End(f[i]) <= HeapSize
      BY <1>1
    <3>2. QED
      BY <1>2, <1>4, <1>5, <1>11, <3>1
  <2> SUFFICES ASSUME NEW u \in 1..(M + 1) PROVE End(n[u]) <= HeapSize
    OBVIOUS
  <2>2. CASE u = 1
    BY <1>9, <2>1, <2>2
  <2>3. CASE u # 1
    <3>1. n[u] = l[u - 1] /\ u - 1 \in 1..M
      BY <1>1, <1>9, <2>3
    <3>2. QED
      BY <1>1, <3>1
  <2>4. QED
    BY <2>2, <2>3
<1>14. Chain(r, {})
  <2>1. ASSUME NEW u \in 1..N, NEW v \in 1..N, u < v
        PROVE  End(r[u]) <= r[v].addr /\ End(r[u]) # r[v].addr
    <3>1. End(r[u]) = End(f[u])
      BY <1>4, <1>6
    <3>2. End(f[u]) <= f[v].addr /\ End(f[u]) # f[v].addr
      BY <2>1 DEF Chain, Tiling
    <3>3. CASE v # i
      BY <1>6, <3>1, <3>2, <3>3
    <3>4. CASE v = i
      <4>1. End(f[u]) \in Nat
        BY <1>1, BlockTypeFacts
      <4>2. r[v].addr = e.addr /\ e.addr > f[i].addr
        BY <1>3, <1>4, <1>5, <1>6, <3>4
      <4>3. QED
        BY <1>2, <1>5, <3>1, <3>2, <3>4, <4>1, <4>2
    <3>5. QED
      BY <3>3, <3>4
  <2>2. QED
    BY <1>6, <2>1 DEF Chain
<1>15. ASSUME NEW u \in 1..(M + 1), NEW v \in 1..N
       PROVE  Apart(n[u], r[v])
  <2>1. CASE u # 1
    <3>1. n[u] = l[u - 1] /\ u - 1 \in 1..M
      BY <1>1, <1>9, <2>1
    <3>2. r[v] = e \/ r[v] = f[v]
      BY <1>6
    <3>3. QED
      BY <1>1, <1>8, <3>1, <3>2
  <2>2. CASE u = 1
    <3>1. n[u] = c
      BY <1>9, <2>2
    <3>2. CASE v = i
      <4>1. r[v] = e
        BY <1>6, <3>2
      <4>2. QED
        BY <1>4, <1>5, <3>1, <4>1 DEF Apart
    <3>3. CASE v # i
      <4>1. r[v] = f[v] /\ Apart(f[v], f[i]) /\ f[v] \in BlockType
        BY <1>1, <1>6, <3>3, ChainApart DEF Tiling
      <4>2. QED
        BY <1>7, <3>1, <4>1, ApartSymmetric
    <3>4. QED
      BY <3>2, <3>3
  <2>3. QED
    BY <2>1, <2>2
<1>16. ASSUME NEW x \in Nat, x < HeapSize
       PROVE  \/ \E u \in 1..N : InBlock(r[u], x)
              \/ \E u \in 1..(M + 1) : InBlock(n[u], x)
  <2>1. CASE \E u \in 1..N : InBlock(f[u], x)
    <3>1. PICK u \in 1..N : InBlock(f[u], x)
      BY <2>1
    <3>2. CASE u = i
      <4>1. f[i].addr <= x /\ x < End(f[i])
        BY <3>1, <3>2 DEF InBlock
      <4>2. InBlock(c, x) \/ InBlock(e, x)
        BY <1>2, <1>3, <1>4, <1>5, <4>1 DEF InBlock
      <4>3. 1 \in 1..(M + 1) /\ n[1] = c /\ r[i] = e
        BY <1>1, <1>6, <1>9
      <4>4. QED
        BY <4>2, <4>3
    <3>3. CASE u # i
      BY <1>6, <3>1, <3>3
    <3>4. QED
      BY <3>2, <3>3
  <2>2. CASE \E u \in 1..M : InBlock(l[u], x)
    <3>1. PICK u \in 1..M : InBlock(l[u], x)
      BY <2>2
    <3>2. u + 1 \in 1..(M + 1) /\ u + 1 # 1 /\ (u + 1) - 1 = u
      BY <1>1
    <3>3. n[u + 1] = l[u]
      BY <1>9, <3>2
    <3>4. QED
      BY <3>1, <3>2, <3>3
  <2>3. QED
    BY <1>16, <2>1, <2>2 DEF Tiling
<1>17. Tiling(r, n)
  BY <1>6, <1>9, <1>10, <1>12, <1>13, <1>14, <1>15, <1>16 DEF Tiling
<1>18. QED
  BY <1>17 DEF r, n, e, c

\* free puts a block among the free ones: only next to it can two of them
\* touch.
LEMMA InsertChain ==
    ASSUME NEW f \in Seq(BlockType), Chain(f, {}), NEW b \in BlockType,
           \A u \in 1..Len(f) : Apart(b, f[u]),
           NEW p \in 1..(Len(f) + 1),
           \A k \in 1..Len(f) : k < p => f[k].addr < b.addr,
           p <= Len(f) => f[p].addr >= b.addr
    PROVE  Chain(InsertAt(f, p, b), {p - 1, p})
<1> DEFINE N == Len(f)
           g == InsertAt(f, p, b)
<1>1. /\ N \in Nat /\ p \in 1..(N + 1)
      /\ b.addr \in Nat /\ End(b) \in Nat /\ b.addr < End(b)
      /\ \A k \in 1..N : f[k].addr \in Nat /\ End(f[k]) \in Nat
                         /\ f[k].addr < End(f[k])
  BY LenProperties, ElementOfSeq, BlockTypeFacts
<1>2. /\ Len(g) = N + 1
      /\ \A k \in 1..(N + 1) :
            g[k] = IF k < p THEN f[k] ELSE IF k = p THEN b ELSE f[k - 1]
  BY InsertAtFacts, SMTT(30)
<1> HIDE DEF g
<1>3. \A u, v \in 1..N : u < v => End(f[u]) <= f[v].addr
                                  /\ End(f[u]) # f[v].addr
  BY DEF Chain
<1>4. ASSUME NEW u \in 1..N, u < p PROVE End(f[u]) <= b.addr
  <2>1. f[u].addr < b.addr /\ Apart(b, f[u])
    BY <1>4
  <2>2. End(b) <= f[u].addr \/ End(f[u]) <= b.addr
    BY <2>1 DEF Apart
  <2>3. QED
    BY <1>1, <2>1, <2>2
<1>5. ASSUME NEW u \in 1..N, p <= u PROVE End(b) <= f[u].addr
  <2>1. p \in 1..N /\ f[p].addr >= b.addr
    BY <1>1, <1>5
  <2>2. f[u].addr >= b.addr
    <3>1. CASE p = u
      BY <2>1, <3>1
    <3>2. CASE p < u
      <4>1. End(f[p]) <= f[u].addr
        BY <1>3, <2>1, <3>2
      <4>2. QED
        BY <1>1, <2>1, <4>1
    <3>3. QED
      BY <1>5, <2>1, <3>1, <3>2
  <2>3. End(b) <= f[u].addr \/ End(f[u]) <= b.addr
    BY DEF Apart
  <2>4. QED
    BY <1>1, <2>2, <2>3
<1>6. ASSUME NEW u \in 1..(N + 1), NEW v \in 1..(N + 1), u < v
      PROVE  /\ End(g[u]) <= g[v].addr
             /\ End(g[u]) = g[v].addr => u \in {p - 1, p}
  <2>1. CASE u = p
    <3>1. g[u] = b /\ g[v] = f[v - 1] /\ v - 1 \in 1..N /\ p <= v - 1
      BY <1>1, <1>2, <1>6, <2>1
    <3>2. QED
      BY <1>5, <2>1, <3>1
  <2>2. CASE v = p
    <3>1. g[v] = b /\ g[u] = f[u] /\ u \in 1..N /\ u < p
      BY <1>1, <1>2, <1>6, <2>2
    <3>2. End(f[u]) <= b.addr
      BY <1>4, <3>1
    <3>3. CASE u = p - 1
      BY <3>1, <3>2, <3>3
    <3>4. CASE u # p - 1
      <4>1. u + 1 \in 1..N /\ u < u + 1 /\ u + 1 < p
        BY <1>1, <3>1, <3>4
      <4>2. End(f[u]) <= f[u + 1].addr /\ End(f[u + 1]) <= b.addr
        BY <1>3, <1>4, <3>1, <4>1
      <4>3. End(f[u]) # b.addr
        BY <1>1, <3>1, <4>1, <4>2
      <4>4. QED
        BY <3>1, <3>2, <4>3
    <3>5. QED
      BY <3>3, <3>4
  <2>3. CASE u # p /\ v # p
    <3> DEFINE q == IF u < p THEN u ELSE u - 1
               w == IF v < p THEN v ELSE v - 1
    <3>1. q \in 1..N /\ w \in 1..N /\ q < w
      BY <1>1, <1>6, <2>3
    <3>2. g[u] = f[q] /\ g[v] = f[w]
      BY <1>2, <2>3
    <3> HIDE DEF q, w
    <3>3. QED
      BY <1>3, <3>1, <3>2
  <2>4. QED
    BY <2>1, <2>2, <2>3
<1>7. QED
  BY <1>2, <1>6 DEF Chain, g

\* List f with block b inserted at place p and merged with its neighbours.
Joined(f, p, b) == MergeAt(MergeAt(InsertAt(f, p, b), p), p - 1)

\* free: the block goes from the allocated list to its place in the free
\* list and is merged with the neighbours it touches, one header per merge.
LEMMA GiveBack ==
    ASSUME NEW f, NEW l, Tiling(f, l), NEW i \in 1..Len(l),
           NEW p \in 1..(Len(f) + 1),
           \A k \in 1..Len(f) : k < p => f[k].addr < l[i].addr,
           p <= Len(f) => f[p].addr >= l[i].addr
    PROVE  /\ Tiling(Joined(f, p, l[i]), RemoveAt(l, i))
           /\ \E m \in {0, 1, 2} :
                 /\ Len(f) + 1 - Len(Joined(f, p, l[i])) = m
                 /\ SumOfSizes(Joined(f, p, l[i]))
                      = SumOfSizes(f) + l[i].size + m * Header
<1> DEFINE N == Len(f)
           M == Len(l)
           b == l[i]
           s == InsertAt(f, p, b)
           t == MergeAt(s, p)
           g == MergeAt(t, p - 1)
           r == RemoveAt(l, i)
<1>1. /\ f \in Seq(BlockType) /\ l \in Seq(BlockType)
      /\ N \in Nat /\ M \in Nat /\ b \in BlockType /\ b = l[i]
      /\ \A u \in 1..N : End(f[u]) <= HeapSize
      /\ \A u \in 1..M : l[u] \in BlockType /\ End(l[u]) <= HeapSize
      /\ \A u, v \in 1..M : u # v => Apart(l[u], l[v])
      /\ \A u \in 1..M, v \in 1..N : Apart(l[u], f[v])
  BY LenProperties, ElementOfSeq DEF Tiling
<1> HIDE DEF b
<1>2. /\ s \in Seq(BlockType) /\ Len(s) = N + 1
      /\ \A k \in 1..(N + 1) :
            s[k] = IF k < p THEN f[k] ELSE IF k = p THEN b ELSE f[k - 1]
  BY <1>1, InsertAtFacts, SMTT(30)
<1>3. SumOfSizes(s) = SumOfSizes(f) + b.size
  BY <1>1, SumOfInsertAt
<1>4. Chain(s, {p - 1, p})
  <2>1. Chain(f, {})
    BY DEF Tiling
  <2>2. QED
    BY <1>1, <2>1, InsertChain
<1>5. /\ r \in Seq(BlockType) /\ Len(r) = M - 1
      /\ \A k \in 1..(M - 1) : r[k] = IF k < i THEN l[k] ELSE l[k + 1]
  BY <1>1, RemoveAtFacts
<1> HIDE DEF s, r
<1>6. Condensed(t, s) /\ Chain(t, {p - 1, p} \ {p})
  <2>1. /\ p \in Int /\ {p - 1, p} \in SUBSET Int
        /\ \A k \in {p - 1, p} : k <= p
    BY <1>1
  <2>2. QED
    BY <1>2, <1>4, <2>1, MergeAtFacts
<1> HIDE DEF t
<1>7. Condensed(g, t) /\ Chain(g, {})
  <2>1. /\ p - 1 \in Int /\ {p - 1} \in SUBSET Int /\ t \in Seq(BlockType)
        /\ \A k \in {p - 1} : k <= p - 1
    BY <1>1, <1>6 DEF Condensed
  <2>2. {p - 1, p} \ {p} = {p - 1} /\ {p - 1} \ {p - 1} = {}
    BY <1>1
  <2>3. Chain(t, {p - 1})
    BY <1>6, <2>2
  <2>4. Condensed(g, t) /\ Chain(g, {p - 1} \ {p - 1})
    BY <2>1, <2>3, MergeAtFacts
  <2>5. QED
    BY <2>2, <2>4
<1> HIDE DEF g
<1>8. /\ g \in Seq(BlockType) /\ t \in Seq(BlockType)
      /\ \/ Len(t) = Len(s) /\ SumOfSizes(t) = SumOfSizes(s)
         \/ Len(t) = Len(s) - 1 /\ SumOfSizes(t) = SumOfSizes(s) + Header
      /\ \/ Len(g) = Len(t) /\ SumOfSizes(g) = SumOfSizes(t)
         \/ Len(g) = Len(t) - 1 /\ SumOfSizes(g) = SumOfSizes(t) + Header
  BY <1>6, <1>7 DEF Condensed
<1>9. \E m \in {0, 1, 2} :
         /\ N + 1 - Len(g) = m
         /\ SumOfSizes(g) = SumOfSizes(f) + b.size + m * Header
  <2>1. /\ SumOfSizes(f) \in Nat /\ b.size \in Nat
        /\ SumOfSizes(s) \in Nat /\ SumOfSizes(t) \in Nat
    BY <1>1, <1>2, <1>8, SumType, BlockTypeFacts
  <2>2. 0 * Header = 0 /\ 1 * Header = Header /\ 2 * Header = Header + Header
    BY HeaderType
  <2>3. CASE Len(g) = N + 1 /\ SumOfSizes(g) = SumOfSizes(s)
    <3>1. N + 1 - Len(g) = 0
      BY <1>1, <2>3
    <3>2. SumOfSizes(g) = SumOfSizes(f) + b.size + 0 * Header
      BY <1>3, <2>1, <2>2, <2>3
    <3>3. QED
      BY <3>1, <3>2
  <2>4. CASE Len(g) = N /\ SumOfSizes(g) = SumOfSizes(s) + Header
    <3>1. N + 1 - Len(g) = 1
      BY <1>1, <2>4
    <3>2. SumOfSizes(g) = SumOfSizes(f) + b.size + 1 * Header
      BY <1>3, <2>1, <2>2, <2>4
    <3>3. QED
      BY <3>1, <3>2
  <2>5. CASE Len(g) = N - 1 /\ SumOfSizes(g) = SumOfSizes(s) + (Header + Header)
    <3>1. N + 1 - Len(g) = 2
      BY <1>1, <2>5
    <3>2. SumOfSizes(g) = SumOfSizes(f) + b.size + 2 * Header
      BY <1>3, <2>1, <2>2, <2>5
    <3>3. QED
      BY <3>1, <3>2
  <2>6. \A h, z \in Nat : (z + h) + h = z + (h + h)
    OBVIOUS
  <2>7. (SumOfSizes(s) + Header) + Header = SumOfSizes(s) + (Header + Header)
    BY <2>1, <2>6, HeaderType
  <2>8. N + 1 - 1 = N /\ N + 1 - 1 - 1 = N - 1
    BY <1>1
  <2>9. CASE Len(t) = Len(s) /\ SumOfSizes(t) = SumOfSizes(s)
    BY <1>2, <1>8, <2>3, <2>4, <2>8, <2>9
  <2>10. CASE Len(t) = Len(s) - 1 /\ SumOfSizes(t) = SumOfSizes(s) + Header
    <3>1. Len(t) = N
      BY <1>2, <2>8, <2>10
    <3>2. CASE Len(g) = Len(t) /\ SumOfSizes(g) = SumOfSizes(t)
      BY <2>4, <2>10, <3>1, <3>2
    <3>3. CASE Len(g) = Len(t) - 1 /\ SumOfSizes(g) = SumOfSizes(t) + Header
      BY <2>5, <2>7, <2>10, <3>1, <3>3
    <3>4. QED
      BY <1>8, <3>2, <3>3
  <2>11. QED
    BY <1>8, <2>9, <2>10
<1> DEFINE old(k) == IF k < i THEN k ELSE k + 1
<1>10. \A k \in 1..(M - 1) : old(k) \in 1..M /\ old(k) # i /\ r[k] = l[old(k)]
  BY <1>1, <1>5
<1>11. \A j, k \in 1..(M - 1) : j # k => old(j) # old(k)
  BY <1>1
<1>12. \A u \in 1..M : u # i => \E k \in 1..(M - 1) : r[k] = l[u]
  <2> SUFFICES ASSUME NEW u \in 1..M, u # i
               PROVE  \E k \in 1..(M - 1) : r[k] = l[u]
    OBVIOUS
  <2>1. CASE u < i
    <3>1. u \in 1..(M - 1) /\ r[u] = l[u]
      BY <1>1, <1>5, <2>1
    <3>2. QED
      BY <3>1
  <2>2. CASE ~(u < i)
    <3>1. u - 1 \in 1..(M - 1) /\ ~(u - 1 < i) /\ (u - 1) + 1 = u
      BY <1>1, <2>2
    <3>2. r[u - 1] = l[u]
      BY <1>5, <3>1
    <3>3. QED
      BY <3>1, <3>2
  <2>3. QED
    BY <2>1, <2>2
<1> HIDE DEF old
<1>13. \A u \in 1..(N + 1) : s[u] = b \/ \E v \in 1..N : s[u] = f[v]
  <2> SUFFICES ASSUME NEW u \in 1..(N + 1)
               PROVE  s[u] = b \/ \E v \in 1..N : s[u] = f[v]
    OBVIOUS
  <2>1. CASE u < p
    <3>1. u \in 1..N /\ s[u] = f[u]
      BY <1>1, <1>2, <2>1
    <3>2. QED
      BY <3>1
  <2>2. CASE u = p
    BY <1>2, <2>2
  <2>3. CASE u > p
    <3>1. u - 1 \in 1..N /\ s[u] = f[u - 1]
      BY <1>1, <1>2, <2>3
    <3>2. QED
      BY <3>1
  <2>4. u < p \/ u = p \/ u > p
    BY <1>1
  <2>5. QED
    BY <2>1, <2>2, <2>3, <2>4
<1>14. \E u \in 1..(N + 1) : s[u] = b
  BY <1>1, <1>2
<1>15. \A v \in 1..N : \E u \in 1..(N + 1) : s[u] = f[v]
  <2> SUFFICES ASSUME NEW v \in 1..N
               PROVE  \E u \in 1..(N + 1) : s[u] = f[v]
    OBVIOUS
  <2>1. CASE v < p
    <3>1. v \in 1..(N + 1) /\ s[v] = f[v]
      BY <1>1, <1>2, <2>1
    <3>2. QED
      BY <3>1
  <2>2. CASE ~(v < p)
    <3>1. v + 1 \in 1..(N + 1) /\ ~(v + 1 < p) /\ v + 1 # p /\ (v + 1) - 1 = v
      BY <1>1, <2>2
    <3>2. s[v + 1] = f[v]
      BY <1>2, <3>1
    <3>3. QED
      BY <3>1, <3>2
  <2>3. QED
    BY <2>1, <2>2
<1>16. \A u \in 1..Len(g) : End(g[u]) <= HeapSize
  <2>1. \A u \in 1..Len(s) : End(s[u]) <= HeapSize
    BY <1>1, <1>2, <1>13
  <2>2. \A u \in 1..Len(t) : End(t[u]) <= HeapSize
    BY <1>6, <2>1 DEF Condensed
  <2>3. QED
    BY <1>7, <2>2 DEF Condensed
<1>17. ASSUME NEW k \in 1..(M - 1), NEW u \in 1..Len(g)
       PROVE  Apart(r[k], g[u])
  <2>1. old(k) \in 1..M /\ old(k) # i /\ r[k] = l[old(k)] /\ r[k] \in BlockType
    BY <1>1, <1>10
  <2>2. Apart(r[k], b)
    BY <1>1, <2>1
  <2>3. \A v \in 1..N : Apart(r[k], f[v])
    BY <1>1, <2>1
  <2>4. \A v \in 1..Len(s) : Apart(r[k], s[v])
    BY <1>2, <1>13, <2>2, <2>3
  <2>5. \A v \in 1..Len(t) : Apart(r[k], t[v])
    BY <1>6, <2>1, <2>4 DEF Condensed
  <2>6. QED
    BY <1>7, <2>1, <2>5 DEF Condensed
<1>18. ASSUME NEW x \in Nat, x < HeapSize
       PROVE  \/ \E u \in 1..Len(g) : InBlock(g[u], x)
              \/ \E u \in 1..(M - 1) : InBlock(r[u], x)
  <2>1. (\E u \in 1..Len(s) : InBlock(s[u], x)) =>
           \E u \in 1..Len(g) : InBlock(g[u], x)
    <3>1. (\E u \in 1..Len(s) : InBlock(s[u], x)) =>
             \E u \in 1..Len(t) : InBlock(t[u], x)
      BY <1>6 DEF Condensed
    <3>2. (\E u \in 1..Len(t) : InBlock(t[u], x)) =>
             \E u \in 1..Len(g) : InBlock(g[u], x)
      BY <1>7 DEF Condensed
    <3>3. QED
      BY <3>1, <3>2
  <2>2. CASE \E u \in 1..N : InBlock(f[u], x)
    <3>1. PICK u \in 1..N : InBlock(f[u], x)
      BY <2>2
    <3>2. \E v \in 1..Len(s) : InBlock(s[v], x)
      BY <1>2, <1>15, <3>1
    <3>3. QED
      BY <2>1, <3>2
  <2>3. CASE \E u \in 1..M : InBlock(l[u], x)
    <3>1. PICK u \in 1..M : InBlock(l[u], x)
      BY <2>3
    <3>2. CASE u = i
      <4>1. \E v \in 1..Len(s) : InBlock(s[v], x)
        BY <1>1, <1>2, <1>14, <3>1, <3>2
      <4>2. QED
        BY <2>1, <4>1
    <3>3. CASE u # i
      BY <1>12, <3>1, <3>3
    <3>4. QED
      BY <3>2, <3>3
  <2>4. QED
    BY <1>18, <2>2, <2>3 DEF Tiling
<1>19. Tiling(g, r)
  <2>1. \A u \in 1..(M - 1) : End(r[u]) <= HeapSize
    BY <1>1, <1>10
  <2>2. \A u, v \in 1..(M - 1) : u # v => Apart(r[u], r[v])
    BY <1>1, <1>10, <1>11
  <2>3. QED
    BY <1>5, <1>7, <1>8, <1>16, <1>17, <1>18, <2>1, <2>2 DEF Tiling
<1>20. g = Joined(f, p, b) /\ r = RemoveAt(l, i) /\ b = l[i]
  BY DEF g, t, s, r, b, Joined
<1>21. QED
  BY <1>9, <1>19, <1>20

-----------------------------------------------------------------------------
Payloads(l) == {Payload(l[u]) : u \in 1..Len(l)}

(***************************************************************************)
(* What malloc and free preserve between them: the two lists take up the   *)
(* heap, memory_info counts them, and the history names the live payloads. *)
(***************************************************************************)
HeapInv ==
    /\ Tiling(freeList, allocList)
    /\ memoryInfo \in [allocated : Int, free : Int, total : {HeapSize}]
    /\ InfoAddsUp
    /\ asked = [a \in Payloads(allocList) |-> asked[a]]

\* A rounded request is a natural number.
LEMMA AlignSizeType ==
    ASSUME NEW n \in Requests
    PROVE  AlignSize(n) \in Nat
<1>1. n \in Nat /\ Word \in Nat /\ Word > 0 /\ Modulus \in Nat /\ Modulus > 0
  BY HeapAssumption
<1>2. n % Word \in Nat /\ n % Word < Word
  BY <1>1
<1>3. n + Word - (n % Word) \in Nat
  BY <1>1, <1>2
<1>4. (n + Word - (n % Word)) % Modulus \in Nat
  BY <1>1, <1>3
<1>5. QED
  BY <1>1, <1>4 DEF AlignSize

\* Account moves n bytes between the two counters.
LEMMA AccountFacts ==
    ASSUME memoryInfo \in [allocated : Int, free : Int, total : {HeapSize}],
           memoryInfo.allocated + memoryInfo.free = memoryInfo.total,
           NEW n \in Int, Account(n)
    PROVE  /\ memoryInfo' \in [allocated : Int, free : Int,
                               total : {HeapSize}]
           /\ memoryInfo'.free = memoryInfo.free - n
           /\ memoryInfo'.allocated + memoryInfo'.free = memoryInfo'.total
<1>1. /\ memoryInfo.allocated \in Int /\ memoryInfo.free \in Int
      /\ memoryInfo.total = HeapSize
  OBVIOUS
<1>2. PICK a \in Int, z \in Int : a = memoryInfo.allocated
                                 /\ z = memoryInfo.free
  BY <1>1
<1>3. memoryInfo = [allocated |-> a, free |-> z, total |-> HeapSize]
  BY <1>1, <1>2
<1>4. memoryInfo' = [allocated |-> a + n, free |-> z - n, total |-> HeapSize]
  BY <1>3 DEF Account
<1>5. (a + n) + (z - n) = a + z
  BY <1>2
<1>6. a + z = HeapSize
  BY <1>1, <1>2
<1>7. a + n \in Int /\ z - n \in Int
  BY <1>2
<1>8. QED
  BY <1>2, <1>4, <1>5, <1>6, <1>7

\* The sizes of a list of one block.
LEMMA SumOfOne ==
    ASSUME NEW b \in BlockType
    PROVE  SumOfSizes(<<b>>) = b.size
<1> DEFINE one == <<b>>
           g == [k \in 0..1 |-> IF k = 0 THEN 0 ELSE b.size]
<1>1. one \in Seq(BlockType) /\ Len(one) = 1 /\ one[1] = b
  OBVIOUS
<1> HIDE DEF one
<1>2. b.size \in Nat
  BY BlockTypeFacts
<1>3. g \in [0..1 -> Int] /\ g[0] = 0 /\ g[1] = b.size
  BY <1>2
<1> HIDE DEF g
<1>4. \A i \in 1..1 : g[i] = g[i - 1] + one[i].size
  BY <1>1, <1>2, <1>3
<1>5. Adds(g, one)
  BY <1>1, <1>3, <1>4 DEF Adds
<1>6. SumOfSizes(one) = g[Len(one)]
  BY <1>1, <1>5, SumIs
<1>7. QED
  BY <1>1, <1>3, <1>6 DEF one

\* initMemoryManager: one free block, and nothing allocated.
LEMMA HeapInvInit == Init => HeapInv
<1> SUFFICES ASSUME Init PROVE HeapInv
  OBVIOUS
<1> DEFINE b == Block(0, HeapSize - Header)
           one == <<b>>
<1>1. HeapSize \in Nat /\ HeapSize - Header \in Nat
  BY HeapAssumption, HeaderType
<1>2. b \in BlockType /\ b.addr = 0 /\ b.size = HeapSize - Header
      /\ End(b) = HeapSize
  <2>1. End(b) = 0 + Header + (HeapSize - Header)
    BY <1>1, BlockFacts
  <2>2. End(b) = HeapSize
    BY <1>1, <2>1, HeaderType
  <2>3. QED
    BY <1>1, <2>2, BlockFacts
<1>3. freeList = one /\ allocList = <<>>
  BY DEF Init
<1> HIDE DEF b
<1>4. SumOfSizes(one) = HeapSize - Header
  BY <1>2, SumOfOne
<1>5. one \in Seq(BlockType) /\ Len(one) = 1 /\ one[1] = b
  BY <1>2
<1> HIDE DEF one
<1>6. allocList \in Seq(BlockType) /\ Len(allocList) = 0 /\ 1..0 = {}
  BY <1>3
<1>7. \A u \in 1..1 : one[u] = b
  BY <1>5
<1>8. Chain(one, {})
  BY <1>5 DEF Chain
<1>9. \A x \in Nat : x < HeapSize => InBlock(b, x)
  BY <1>2 DEF InBlock
<1>10. \A u \in 1..1 : End(one[u]) <= HeapSize
  BY <1>1, <1>2, <1>7
<1>11. \A x \in Nat : x < HeapSize => \E u \in 1..Len(one) : InBlock(one[u], x)
  BY <1>5, <1>9
<1>12. Tiling(one, allocList)
  BY <1>5, <1>6, <1>8, <1>10, <1>11 DEF Tiling
<1>13. memoryInfo = [allocated |-> Header, free |-> HeapSize - Header,
                     total |-> HeapSize]
  BY DEF Init
<1>14. Header + (HeapSize - Header) = HeapSize
  BY <1>1, HeaderType
<1>15. InfoAddsUp
  BY <1>3, <1>4, <1>13, <1>14 DEF InfoAddsUp
<1>16. memoryInfo \in [allocated : Int, free : Int, total : {HeapSize}]
  BY <1>1, <1>13, HeaderType
<1>17. Payloads(allocList) = {}
  BY <1>6 DEF Payloads
<1>18. asked = [a \in Payloads(allocList) |-> asked[a]]
  BY <1>17 DEF Init
<1>19. QED
  BY <1>3, <1>12, <1>15, <1>16, <1>18 DEF HeapInv

\* The payloads after malloc and after free.
LEMMA PayloadsOfCons ==
    ASSUME NEW l \in Seq(BlockType), NEW c \in BlockType
    PROVE  Payloads(<<c>> \o l) = Payloads(l) \cup {Payload(c)}
<1> DEFINE n == <<c>> \o l
<1>1. Len(l) \in Nat
  BY LenProperties
<1>2. Len(n) = Len(l) + 1
      /\ \A k \in 1..(Len(l) + 1) : n[k] = IF k = 1 THEN c ELSE l[k - 1]
  BY ConsFacts
<1> HIDE DEF n
<1>3. ASSUME NEW u \in 1..(Len(l) + 1)
      PROVE  Payload(n[u]) \in Payloads(l) \cup {Payload(c)}
  <2>1. CASE u = 1
    BY <1>2, <2>1
  <2>2. CASE u # 1
    <3>1. n[u] = l[u - 1] /\ u - 1 \in 1..Len(l)
      BY <1>1, <1>2, <2>2
    <3>2. QED
      BY <3>1 DEF Payloads
  <2>3. QED
    BY <2>1, <2>2
<1>4. ASSUME NEW u \in 1..Len(l)
      PROVE  Payload(l[u]) \in Payloads(n)
  <2>1. u + 1 \in 1..(Len(l) + 1) /\ u + 1 # 1 /\ (u + 1) - 1 = u
    BY <1>1
  <2>2. n[u + 1] = l[u]
    BY <1>2, <2>1
  <2>3. QED
    BY <1>2, <2>1, <2>2 DEF Payloads
<1>5. Payload(c) \in Payloads(n)
  <2>1. 1 \in 1..(Len(l) + 1) /\ n[1] = c
    BY <1>1, <1>2
  <2>2. QED
    BY <1>2, <2>1 DEF Payloads
<1>6. Payloads(n) \subseteq Payloads(l) \cup {Payload(c)}
  BY <1>2, <1>3 DEF Payloads
<1>7. Payloads(l) \subseteq Payloads(n)
  BY <1>4 DEF Payloads
<1>8. QED
  BY <1>5, <1>6, <1>7 DEF n

\* No two live blocks have the same payload address.
LEMMA PayloadsDiffer ==
    ASSUME NEW l \in Seq(BlockType),
           \A u, v \in 1..Len(l) : u # v => Apart(l[u], l[v]),
           NEW u \in 1..Len(l), NEW v \in 1..Len(l), u # v
    PROVE  Payload(l[u]) # Payload(l[v])
<1>1. l[u] \in BlockType /\ l[v] \in BlockType /\ Apart(l[u], l[v])
  BY ElementOfSeq
<1>2. /\ l[u].addr \in Nat /\ l[v].addr \in Nat /\ End(l[u]) \in Nat
      /\ End(l[v]) \in Nat /\ l[u].addr < End(l[u]) /\ l[v].addr < End(l[v])
  BY <1>1, BlockTypeFacts
<1>3. l[u].addr # l[v].addr
  BY <1>1, <1>2 DEF Apart
<1>4. QED
  BY <1>2, <1>3, HeaderType DEF Payload

\* Unlinking a block takes its payload, and no other, from those live.
LEMMA PayloadsOfRemoveAt ==
    ASSUME NEW l \in Seq(BlockType),
           \A u, v \in 1..Len(l) : u # v => Apart(l[u], l[v]),
           NEW i \in 1..Len(l)
    PROVE  Payloads(RemoveAt(l, i)) = Payloads(l) \ {Payload(l[i])}
<1> DEFINE r == RemoveAt(l, i)
           M == Len(l)
<1>1. M \in Nat
  BY LenProperties
<1>2. /\ Len(r) = M - 1
      /\ \A k \in 1..(M - 1) : r[k] = IF k < i THEN l[k] ELSE l[k + 1]
  BY RemoveAtFacts
<1> HIDE DEF r
<1>3. ASSUME NEW k \in 1..(M - 1)
      PROVE  Payload(r[k]) \in Payloads(l) \ {Payload(l[i])}
  <2>1. \E u \in 1..M : u # i /\ r[k] = l[u]
    <3>1. CASE k < i
      BY <1>1, <1>2, <3>1
    <3>2. CASE ~(k < i)
      <4>1. k + 1 \in 1..M /\ k + 1 # i /\ r[k] = l[k + 1]
        BY <1>1, <1>2, <3>2
      <4>2. QED
        BY <4>1
    <3>3. QED
      BY <3>1, <3>2
  <2>2. PICK u \in 1..M : u # i /\ r[k] = l[u]
    BY <2>1
  <2>3. Payload(l[u]) # Payload(l[i])
    BY <2>2, PayloadsDiffer
  <2>4. QED
    BY <2>2, <2>3 DEF Payloads
<1>4. ASSUME NEW u \in 1..M, Payload(l[u]) # Payload(l[i])
      PROVE  Payload(l[u]) \in Payloads(r)
  <2>1. u < i \/ u > i
    BY <1>1, <1>4
  <2>2. CASE u < i
    <3>1. u \in 1..(M - 1) /\ r[u] = l[u]
      BY <1>1, <1>2, <2>2
    <3>2. QED
      BY <1>2, <3>1 DEF Payloads
  <2>3. CASE u > i
    <3>1. u - 1 \in 1..(M - 1) /\ ~(u - 1 < i) /\ (u - 1) + 1 = u
      BY <1>1, <2>3
    <3>2. r[u - 1] = l[u]
      BY <1>2, <3>1
    <3>3. QED
      BY <1>2, <3>1, <3>2 DEF Payloads
  <2>4. QED
    BY <2>1, <2>2, <2>3
<1>5. Payloads(r) \subseteq Payloads(l) \ {Payload(l[i])}
  BY <1>2, <1>3 DEF Payloads
<1>6. Payloads(l) \ {Payload(l[i])} \subseteq Payloads(r)
  BY <1>4 DEF Payloads
<1>7. QED
  BY <1>5, <1>6 DEF r

-----------------------------------------------------------------------------
\* What malloc does when it grants a block c.
LEMMA MallocFacts ==
    ASSUME HeapInv, NEW n \in Requests, Malloc(n)
    PROVE  \E c \in BlockType :
              /\ c.size >= AlignSize(n)
              /\ allocList' = <<c>> \o allocList
              /\ Tiling(freeList', allocList')
              /\ \E m \in Int :
                    /\ Account(m)
                    /\ SumOfSizes(freeList') = SumOfSizes(freeList) - m
              /\ asked' = [a \in DOMAIN asked \cup {Payload(c)} |->
                              IF a = Payload(c) THEN n ELSE asked[a]]
<1> DEFINE s == AlignSize(n)
           i == FirstFit(s)
           b == freeList[i]
           c == Block(b.addr, IF Splits(b, s) THEN s ELSE b.size)
           m == c.size + IF Splits(b, s) THEN Header ELSE 0
<1>1. /\ n > 0 /\ i > 0
      /\ freeList' = IF Splits(b, s) THEN [freeList EXCEPT ![i] = Rest(b, s)]
                     ELSE RemoveAt(freeList, i)
      /\ allocList' = <<c>> \o allocList
      /\ Account(m)
      /\ asked' = [a \in DOMAIN asked \cup {Payload(b)} |->
                      IF a = Payload(b) THEN n ELSE asked[a]]
  BY DEF Malloc
<1>2. /\ Tiling(freeList, allocList)
      /\ freeList \in Seq(BlockType) /\ allocList \in Seq(BlockType)
  BY DEF HeapInv, Tiling
<1>3. s \in Nat
  BY AlignSizeType
<1>4. i \in 1..Len(freeList) /\ b \in BlockType /\ b.size >= s
  BY <1>1, <1>2, <1>3, FirstFitFacts
<1> HIDE DEF s, i
<1>5. b.addr \in Nat /\ b.size \in Nat
  BY <1>4, BlockTypeFacts
<1>6. SumOfSizes(freeList) \in Nat
  BY <1>2, SumType
<1>7. CASE Splits(b, s)
  <2> DEFINE d == Block(b.addr, s)
             e == Rest(b, s)
  <2>1. c = d /\ m = s + Header
    BY <1>7 DEF Block
  <2>2. d \in BlockType /\ d.size = s /\ d.addr = b.addr
    BY <1>3, <1>5, BlockFacts
  <2>3. s + Header <= b.size
    <3>1. b.size >= s + Header + Word /\ Word \in Nat
      BY <1>7, HeapAssumption DEF Splits
    <3>2. QED
      BY <1>3, <1>5, <3>1, HeaderType
  <2>4. Tiling([freeList EXCEPT ![i] = e], <<d>> \o allocList)
    BY <1>2, <1>3, <1>4, <2>3, TakePart
  <2>5. e \in BlockType /\ e.size = b.size - Header - s
    <3>1. e = Block(b.addr + Header + s, b.size - Header - s)
      BY DEF Rest
    <3>2. QED
      BY <1>3, <1>5, <2>3, <3>1, RestFacts
  <2>6. freeList' = [freeList EXCEPT ![i] = e]
    BY <1>1, <1>7
  <2> HIDE DEF d, e
  <2>7. SumOfSizes(freeList') = SumOfSizes(freeList) - b.size + e.size
    BY <1>2, <1>4, <2>5, <2>6, SumOfReplace
  <2>8. \A t, z, h, x \in Nat : t - z + (z - h - x) = t - (x + h)
    OBVIOUS
  <2>9. SumOfSizes(freeList') = SumOfSizes(freeList) - (s + Header)
    BY <1>3, <1>5, <1>6, <2>5, <2>7, <2>8, HeaderType
  <2>10. Payload(d) = Payload(b)
    BY <2>2 DEF Payload
  <2>11. Account(s + Header) /\ s + Header \in Int
    BY <1>1, <1>3, <2>1, HeaderType
  <2>12. d.size >= AlignSize(n)
    BY <1>3, <2>2 DEF s
  <2>13. Tiling(freeList', allocList')
    BY <1>1, <2>1, <2>4, <2>6
  <2>14. QED
    BY <1>1, <2>1, <2>2, <2>9, <2>10, <2>11, <2>12, <2>13
<1>8. CASE ~Splits(b, s)
  <2>1. c = b /\ m = b.size
    <3>1. b = [addr |-> b.addr, size |-> b.size]
      BY <1>4 DEF BlockType
    <3>2. QED
      BY <1>5, <1>8, <3>1 DEF Block
  <2>2. freeList' = RemoveAt(freeList, i)
    BY <1>1, <1>8
  <2>3. Tiling(freeList', allocList')
    <3>1. Tiling(RemoveAt(freeList, i), <<b>> \o allocList)
      BY <1>2, <1>4, TakeWhole
    <3>2. QED
      BY <1>1, <2>1, <2>2, <3>1
  <2>4. SumOfSizes(freeList') = SumOfSizes(freeList) - b.size
    BY <1>2, <1>4, <2>2, SumOfRemoveAt
  <2>5. b.size >= AlignSize(n)
    BY <1>4 DEF s
  <2>6. Account(b.size) /\ b.size \in Int
    BY <1>1, <1>5, <2>1
  <2>7. QED
    BY <1>1, <1>4, <2>1, <2>3, <2>4, <2>5, <2>6
<1>9. QED
  BY <1>7, <1>8

\* A successful malloc preserves the invariant.
LEMMA MallocKeeps ==
    ASSUME HeapInv, NEW n \in Requests, Malloc(n)
    PROVE  HeapInv'
<1>1. PICK c \in BlockType :
         /\ allocList' = <<c>> \o allocList
         /\ Tiling(freeList', allocList')
         /\ \E m \in Int :
               /\ Account(m)
               /\ SumOfSizes(freeList') = SumOfSizes(freeList) - m
         /\ asked' = [a \in DOMAIN asked \cup {Payload(c)} |->
                         IF a = Payload(c) THEN n ELSE asked[a]]
  BY MallocFacts
<1>2. PICK m \in Int :
         /\ Account(m)
         /\ SumOfSizes(freeList') = SumOfSizes(freeList) - m
  BY <1>1
<1>3. /\ memoryInfo \in [allocated : Int, free : Int, total : {HeapSize}]
      /\ memoryInfo.free = SumOfSizes(freeList)
      /\ memoryInfo.allocated + memoryInfo.free = memoryInfo.total
      /\ DOMAIN asked = Payloads(allocList)
      /\ allocList \in Seq(BlockType)
  BY DEF HeapInv, InfoAddsUp, Tiling
<1>4. /\ memoryInfo' \in [allocated : Int, free : Int, total : {HeapSize}]
      /\ memoryInfo'.free = memoryInfo.free - m
      /\ memoryInfo'.allocated + memoryInfo'.free = memoryInfo'.total
  BY <1>2, <1>3, AccountFacts
<1>5. InfoAddsUp'
  BY <1>2, <1>3, <1>4 DEF InfoAddsUp
<1>6. Payloads(allocList') = Payloads(allocList) \cup {Payload(c)}
  BY <1>1, <1>3, PayloadsOfCons
<1>7. asked' = [a \in Payloads(allocList') |-> asked'[a]]
  BY <1>1, <1>3, <1>6
<1>8. QED
  BY <1>1, <1>4, <1>5, <1>7 DEF HeapInv

\* What free does when it finds the block.
LEMMA FreeFacts ==
    ASSUME HeapInv, NEW ptr, Free(ptr)
    PROVE  \E i \in 1..Len(allocList) :
              /\ Payload(allocList[i]) = ptr
              /\ allocList' = RemoveAt(allocList, i)
              /\ Tiling(freeList', allocList')
              /\ \E m \in Int :
                    /\ Account(m)
                    /\ SumOfSizes(freeList') = SumOfSizes(freeList) - m
              /\ asked' = Restrict(asked, DOMAIN asked \ {ptr})
<1> DEFINE i == Found(ptr)
           b == allocList[i]
           merges == Len(freeList) + 1 - Len(Insert(b))
           p == PlaceOf(b)
           g == Joined(freeList, p, b)
<1>1. /\ i > 0
      /\ allocList' = RemoveAt(allocList, i)
      /\ freeList' = Insert(b)
      /\ Account(-(b.size + merges * Header))
      /\ asked' = Restrict(asked, DOMAIN asked \ {Payload(b)})
  BY DEF Free
<1>2. Insert(b) = g
  BY DEF Insert, Joined
<1>3. /\ Tiling(freeList, allocList)
      /\ freeList \in Seq(BlockType) /\ allocList \in Seq(BlockType)
  BY DEF HeapInv, Tiling
<1>4. i \in 1..Len(allocList) /\ b \in BlockType /\ Payload(b) = ptr
  BY <1>1, <1>3, FoundFacts
<1>5. /\ p \in 1..(Len(freeList) + 1)
      /\ \A k \in 1..Len(freeList) : k < p => freeList[k].addr < b.addr
      /\ p <= Len(freeList) => freeList[p].addr >= b.addr
  BY <1>3, <1>4, PlaceOfFacts
<1>6. /\ Tiling(g, RemoveAt(allocList, i))
      /\ \E m \in {0, 1, 2} :
            /\ Len(freeList) + 1 - Len(g) = m
            /\ SumOfSizes(g) = SumOfSizes(freeList) + b.size + m * Header
  <2> HIDE DEF i, p, merges
  <2>1. /\ Tiling(freeList, allocList) /\ i \in 1..Len(allocList)
        /\ p \in 1..(Len(freeList) + 1)
        /\ \A k \in 1..Len(freeList) :
              k < p => freeList[k].addr < allocList[i].addr
        /\ p <= Len(freeList) => freeList[p].addr >= allocList[i].addr
    BY <1>3, <1>4, <1>5
  <2>2. QED
    BY <2>1, GiveBack
<1> HIDE DEF i, p
<1>7. freeList' = g /\ merges = Len(freeList) + 1 - Len(g)
  BY <1>1, <1>2
<1> HIDE DEF g, merges
<1>8. /\ merges \in {0, 1, 2}
      /\ SumOfSizes(g) = SumOfSizes(freeList) + b.size + merges * Header
  BY <1>6, <1>7
<1> DEFINE x == merges * Header
           m == -(b.size + x)
<1>9. x \in Nat
  <2>1. 0 * Header \in Nat /\ 1 * Header \in Nat /\ 2 * Header \in Nat
    BY HeaderType
  <2>2. QED
    BY <1>8, <2>1
<1>10. Account(m)
  BY <1>1
<1>11. SumOfSizes(freeList') = SumOfSizes(freeList) + b.size + x
  BY <1>7, <1>8
<1> HIDE DEF x
<1>12. b.size \in Nat /\ SumOfSizes(freeList) \in Nat
  BY <1>3, <1>4, BlockTypeFacts, SumType
<1>13. m \in Int /\ SumOfSizes(freeList') = SumOfSizes(freeList) - m
  BY <1>9, <1>11, <1>12
<1>14. Tiling(freeList', allocList')
  BY <1>1, <1>6, <1>7
<1>15. QED
  BY <1>1, <1>4, <1>10, <1>13, <1>14

\* A free of a live block preserves the invariant.
LEMMA FreeKeeps ==
    ASSUME HeapInv, NEW ptr, Free(ptr)
    PROVE  HeapInv'
<1>1. PICK i \in 1..Len(allocList) :
         /\ Payload(allocList[i]) = ptr
         /\ allocList' = RemoveAt(allocList, i)
         /\ Tiling(freeList', allocList')
         /\ \E m \in Int :
               /\ Account(m)
               /\ SumOfSizes(freeList') = SumOfSizes(freeList) - m
         /\ asked' = Restrict(asked, DOMAIN asked \ {ptr})
  BY FreeFacts
<1>2. PICK m \in Int :
         /\ Account(m)
         /\ SumOfSizes(freeList') = SumOfSizes(freeList) - m
  BY <1>1
<1>3. /\ memoryInfo \in [allocated : Int, free : Int, total : {HeapSize}]
      /\ memoryInfo.free = SumOfSizes(freeList)
      /\ memoryInfo.allocated + memoryInfo.free = memoryInfo.total
      /\ DOMAIN asked = Payloads(allocList)
      /\ allocList \in Seq(BlockType)
      /\ \A u, v \in 1..Len(allocList) :
            u # v => Apart(allocList[u], allocList[v])
  BY DEF HeapInv, InfoAddsUp, Tiling
<1>4. /\ memoryInfo' \in [allocated : Int, free : Int, total : {HeapSize}]
      /\ memoryInfo'.free = memoryInfo.free - m
      /\ memoryInfo'.allocated + memoryInfo'.free = memoryInfo'.total
  BY <1>2, <1>3, AccountFacts
<1>5. InfoAddsUp'
  BY <1>2, <1>3, <1>4 DEF InfoAddsUp
<1>6. Payloads(allocList') = Payloads(allocList) \ {ptr}
  BY <1>1, <1>3, PayloadsOfRemoveAt
<1>7. asked' = [a \in Payloads(allocList') |-> asked'[a]]
  BY <1>1, <1>3, <1>6 DEF Restrict
<1>8. QED
  BY <1>1, <1>4, <1>5, <1>7 DEF HeapInv

\* The invariant of the first-fit heap holds after any sequence of malloc and
\* free of memoryManager.c, whatever the sizes and the addresses passed.
THEOREM HeapInvHolds == Spec => []HeapInv
<1>1. Init => HeapInv
  BY HeapInvInit
<1>2. HeapInv /\ [Next]_heapVars => HeapInv'
  <2> SUFFICES ASSUME HeapInv, [Next]_heapVars PROVE HeapInv'
    OBVIOUS
  <2>1. ASSUME NEW n \in Requests, Malloc(n) PROVE HeapInv'
    BY <2>1, MallocKeeps
  <2>2. ASSUME NEW ptr \in Pointers, Free(ptr) PROVE HeapInv'
    BY <2>2, FreeKeeps
  <2>3. ASSUME UNCHANGED heapVars PROVE HeapInv'
    <3>1. /\ freeList' = freeList /\ allocList' = allocList
          /\ memoryInfo' = memoryInfo /\ asked' = asked
      BY <2>3 DEF heapVars
    <3>2. QED
      BY <3>1 DEF HeapInv, InfoAddsUp
  <2>4. ASSUME NEW n \in Requests, MallocFails(n) PROVE HeapInv'
    BY <2>3, <2>4 DEF MallocFails
  <2>5. ASSUME NEW ptr \in Pointers, FreeImposter(ptr) PROVE HeapInv'
    BY <2>3, <2>5 DEF FreeImposter
  <2>6. QED
    BY <2>1, <2>2, <2>3, <2>4, <2>5 DEF Next
<1>3. QED
  BY <1>1, <1>2, PTL DEF Spec

-----------------------------------------------------------------------------
\* The entries of the two lists are as many different blocks.
LEMMA BlocksCounted ==
    ASSUME Tiling(freeList, allocList)
    PROVE  Cardinality(Blocks) = Len(freeList) + Len(allocList)
<1> DEFINE N == Len(freeList)
           M == Len(allocList)
           m == [k \in 1..(N + M) |-> IF k <= N THEN freeList[k]
                                      ELSE allocList[k - N]]
<1>1. /\ N \in Nat /\ M \in Nat /\ N + M \in Nat
      /\ DOMAIN freeList = 1..N /\ DOMAIN allocList = 1..M
      /\ \A k \in 1..N : freeList[k] \in BlockType
      /\ \A k \in 1..M : allocList[k] \in BlockType
  BY LenProperties, ElementOfSeq DEF Tiling
<1>2. Blocks = {freeList[k] : k \in 1..N} \cup {allocList[k] : k \in 1..M}
  BY <1>1 DEF Blocks, Range
<1>3. \A b \in BlockType : ~Apart(b, b)
  BY BlockTypeFacts DEF Apart
<1>4. \A u, v \in 1..N : u # v => freeList[u] # freeList[v]
  <2> SUFFICES ASSUME NEW u \in 1..N, NEW v \in 1..N, u # v
               PROVE  freeList[u] # freeList[v]
    OBVIOUS
  <2>1. Apart(freeList[u], freeList[v])
    BY ChainApart DEF Tiling
  <2>2. QED
    BY <1>1, <1>3, <2>1
<1>5. \A u, v \in 1..M : u # v => allocList[u] # allocList[v]
  <2> SUFFICES ASSUME NEW u \in 1..M, NEW v \in 1..M, u # v
               PROVE  allocList[u] # allocList[v]
    OBVIOUS
  <2>1. Apart(allocList[u], allocList[v])
    BY DEF Tiling
  <2>2. QED
    BY <1>1, <1>3, <2>1
<1>6. \A u \in 1..M, v \in 1..N : allocList[u] # freeList[v]
  <2> SUFFICES ASSUME NEW u \in 1..M, NEW v \in 1..N
               PROVE  allocList[u] # freeList[v]
    OBVIOUS
  <2>1. Apart(allocList[u], freeList[v])
    BY DEF Tiling
  <2>2. QED
    BY <1>1, <1>3, <2>1
<1>7. \A k \in 1..(N + M) : \/ k \in 1..N /\ m[k] = freeList[k]
                            \/ k - N \in 1..M /\ k > N /\ m[k] = allocList[k - N]
  BY <1>1
<1>8. m \in [1..(N + M) -> Blocks]
  <2>1. \A k \in 1..(N + M) : m[k] \in Blocks
    BY <1>2, <1>7
  <2>2. QED
    BY <2>1
<1>9. \A u, v \in 1..(N + M) : m[u] = m[v] => u = v
  <2> SUFFICES ASSUME NEW u \in 1..(N + M), NEW v \in 1..(N + M), u # v
               PROVE  m[u] # m[v]
    OBVIOUS
  <2> HIDE DEF m
  <2>1. CASE u \in 1..N /\ v \in 1..N
    BY <1>1, <1>4, <1>7, <2>1
  <2>2. CASE u \in 1..N /\ ~(v \in 1..N)
    <3>1. m[u] = freeList[u]
      BY <1>1, <1>7, <2>2
    <3>2. v - N \in 1..M /\ m[v] = allocList[v - N]
      BY <1>7, <2>2
    <3>3. QED
      BY <1>6, <2>2, <3>1, <3>2
  <2>3. CASE ~(u \in 1..N) /\ v \in 1..N
    <3>1. m[v] = freeList[v]
      BY <1>1, <1>7, <2>3
    <3>2. u - N \in 1..M /\ m[u] = allocList[u - N]
      BY <1>7, <2>3
    <3>3. QED
      BY <1>6, <2>3, <3>1, <3>2
  <2>4. CASE ~(u \in 1..N) /\ ~(v \in 1..N)
    <3>1. u - N \in 1..M /\ m[u] = allocList[u - N]
      BY <1>7, <2>4
    <3>2. v - N \in 1..M /\ m[v] = allocList[v - N]
      BY <1>7, <2>4
    <3>3. u - N # v - N
      BY <1>1
    <3>4. QED
      BY <1>5, <3>1, <3>2, <3>3
  <2>5. QED
    BY <2>1, <2>2, <2>3, <2>4
<1>10. \A b \in Blocks : \E k \in 1..(N + M) : m[k] = b
  <2> SUFFICES ASSUME NEW b \in Blocks PROVE \E k \in 1..(N + M) : m[k] = b
    OBVIOUS
  <2>1. CASE \E k \in 1..N : b = freeList[k]
    <3>1. PICK k \in 1..N : b = freeList[k]
      BY <2>1
    <3>2. k \in 1..(N + M) /\ k <= N
      BY <1>1
    <3>3. QED
      BY <3>1, <3>2
  <2>2. CASE \E k \in 1..M : b = allocList[k]
    <3>1. PICK k \in 1..M : b = allocList[k]
      BY <2>2
    <3>2. k + N \in 1..(N + M) /\ ~(k + N <= N) /\ (k + N) - N = k
      BY <1>1
    <3>3. m[k + N] = b
      BY <3>1, <3>2
    <3>4. QED
      BY <3>2, <3>3
  <2>3. QED
    BY <1>2, <2>1, <2>2
<1> HIDE DEF m
<1>11. m \in Bijection(1..(N + M), Blocks)
  BY <1>8, <1>9, <1>10 DEF Bijection, Injection, Surjection, IsInjective
<1>12. ExistsBijection(1..(N + M), Blocks)
  BY <1>11 DEF ExistsBijection
<1>13. QED
  BY <1>1, <1>12, FS_CountingElements

\* The invariant says what the three properties of the run say.
LEMMA TilingIsTiled ==
    ASSUME Tiling(freeList, allocList)
    PROVE  HeapIsTiled
<1> DEFINE N == Len(freeList)
           M == Len(allocList)
<1>1. /\ N \in Nat /\ M \in Nat
      /\ DOMAIN freeList = 1..N /\ DOMAIN allocList = 1..M
      /\ \A k \in 1..N : /\ freeList[k] \in BlockType
                         /\ End(freeList[k]) <= HeapSize
      /\ \A k \in 1..M : /\ allocList[k] \in BlockType
                         /\ End(allocList[k]) <= HeapSize
  BY LenProperties, ElementOfSeq DEF Tiling
<1>2. Blocks = {freeList[k] : k \in 1..N} \cup {allocList[k] : k \in 1..M}
  BY <1>1 DEF Blocks, Range
<1>3. HeapSize \in Nat
  BY HeapAssumption
<1>4. ASSUME NEW b \in BlockType, NEW x
      PROVE  x \in Whole(b) <=> x \in Nat /\ InBlock(b, x)
  <2>1. b.addr \in Nat /\ b.size \in Nat /\ End(b) \in Nat
        /\ End(b) = b.addr + Header + b.size
    BY BlockTypeFacts
  <2>2. Whole(b) = b.addr..(End(b) - 1)
    BY <2>1, HeaderType DEF Whole
  <2>3. QED
    BY <2>1, <2>2 DEF InBlock
<1>5. \A b \in Blocks : b \in BlockType /\ End(b) <= HeapSize
  BY <1>1, <1>2
<1>6. ASSUME NEW b \in BlockType, NEW c \in BlockType, Apart(b, c)
      PROVE  Whole(b) \cap Whole(c) = {}
  <2> SUFFICES ASSUME NEW x, x \in Whole(b), x \in Whole(c) PROVE FALSE
    OBVIOUS
  <2>1. x \in Nat /\ InBlock(b, x) /\ InBlock(c, x)
    BY <1>4
  <2>2. b.addr \in Nat /\ End(b) \in Nat /\ c.addr \in Nat /\ End(c) \in Nat
    BY BlockTypeFacts
  <2>3. QED
    BY <1>6, <2>1, <2>2 DEF InBlock, Apart
<1>7. ASSUME NEW b \in Blocks, NEW c \in Blocks, b # c
      PROVE  Whole(b) \cap Whole(c) = {}
  <2>1. Apart(b, c)
    <3>1. CASE \E u \in 1..N : b = freeList[u]
      <4>1. PICK u \in 1..N : b = freeList[u]
        BY <3>1
      <4>2. CASE \E v \in 1..N : c = freeList[v]
        BY <1>7, <4>1, <4>2, ChainApart DEF Tiling
      <4>3. CASE \E v \in 1..M : c = allocList[v]
        <5>1. PICK v \in 1..M : c = allocList[v]
          BY <4>3
        <5>2. Apart(allocList[v], freeList[u])
          BY DEF Tiling
        <5>3. QED
          BY <4>1, <5>1, <5>2, ApartSymmetric
      <4>4. QED
        BY <1>2, <4>2, <4>3
    <3>2. CASE \E u \in 1..M : b = allocList[u]
      <4>1. PICK u \in 1..M : b = allocList[u]
        BY <3>2
      <4>2. CASE \E v \in 1..N : c = freeList[v]
        BY <4>1, <4>2 DEF Tiling
      <4>3. CASE \E v \in 1..M : c = allocList[v]
        BY <1>7, <4>1, <4>3 DEF Tiling
      <4>4. QED
        BY <1>2, <4>2, <4>3
    <3>3. QED
      BY <1>2, <3>1, <3>2
  <2>2. QED
    BY <1>5, <1>6, <2>1
<1>8. ASSUME NEW x \in 0..(HeapSize - 1)
      PROVE  \E b \in Blocks : x \in Whole(b)
  <2>1. x \in Nat /\ x < HeapSize
    BY <1>3
  <2>2. \/ \E u \in 1..N : InBlock(freeList[u], x)
        \/ \E u \in 1..M : InBlock(allocList[u], x)
    BY <2>1 DEF Tiling
  <2>3. \E b \in Blocks : InBlock(b, x)
    BY <1>2, <2>2
  <2>4. QED
    BY <1>4, <1>5, <2>1, <2>3
<1>9. ASSUME NEW b \in Blocks, NEW x \in Whole(b)
      PROVE  x \in 0..(HeapSize - 1)
  <2>1. x \in Nat /\ x < End(b) /\ End(b) <= HeapSize
    BY <1>4, <1>5 DEF InBlock
  <2>2. End(b) \in Nat
    BY <1>5, BlockTypeFacts
  <2>3. QED
    BY <1>3, <2>1, <2>2
<1>10. UNION {Whole(b) : b \in Blocks} = 0..(HeapSize - 1)
  BY <1>8, <1>9
<1>11. Len(freeList) + Len(allocList) = Cardinality(Blocks)
  BY BlocksCounted
<1>12. QED
  BY <1>7, <1>10, <1>11 DEF HeapIsTiled

\* In a tiling no free block touches the next: Chain leaves a gap.
LEMMA TilingIsCoalesced ==
    ASSUME Tiling(freeList, allocList)
    PROVE  FreeListIsCoalesced
<1>1. freeList \in Seq(BlockType) /\ Chain(freeList, {})
  BY DEF Tiling
<1>2. SUFFICES ASSUME NEW i \in 1..(Len(freeList) - 1)
               PROVE  freeList[i].addr + Header + freeList[i].size
                         < freeList[i + 1].addr
  BY DEF FreeListIsCoalesced
<1>3. i \in 1..Len(freeList) /\ i + 1 \in 1..Len(freeList) /\ i < i + 1
  BY <1>1, LenProperties
<1>4. freeList[i] \in BlockType /\ freeList[i + 1] \in BlockType
  BY <1>1, <1>3, ElementOfSeq
<1>5. /\ End(freeList[i]) <= freeList[i + 1].addr
      /\ End(freeList[i]) # freeList[i + 1].addr
  BY <1>1, <1>3 DEF Chain
<1>6. End(freeList[i]) \in Nat /\ freeList[i + 1].addr \in Nat
  BY <1>4, BlockTypeFacts
<1>7. End(freeList[i]) < freeList[i + 1].addr
  BY <1>5, <1>6
<1>8. QED
  BY <1>7 DEF End

\* After any sequence of malloc and free the two lists of memoryManager.c
\* cover the heap with no gap and no overlap: what a program writes in its
\* block reaches no other block and no header, and no byte is lost.
THEOREM HeapIsTiledAlways == Spec => []HeapIsTiled
<1>1. HeapInv => HeapIsTiled
  BY TilingIsTiled DEF HeapInv
<1>2. QED
  BY <1>1, HeapInvHolds, PTL

\* free keeps the list ordered and merges on both sides whatever order the
\* blocks come back in: two free blocks never touch.
THEOREM FreeListIsCoalescedAlways == Spec => []FreeListIsCoalesced
<1>1. HeapInv => FreeListIsCoalesced
  BY TilingIsCoalesced DEF HeapInv
<1>2. QED
  BY <1>1, HeapInvHolds, PTL

\* The counters that mem-info prints agree with the lists after every split
\* and every merge.
THEOREM InfoAddsUpAlways == Spec => []InfoAddsUp
<1>1. HeapInv => InfoAddsUp
  BY DEF HeapInv
<1>2. QED
  BY <1>1, HeapInvHolds, PTL

-----------------------------------------------------------------------------
\* The block of list l whose payload starts at a, and the state of the
\* contract that the heap stands for.
BlockAt(l, a) == CHOOSE b \in Range(l) : Payload(b) = a

Live == [a \in DOMAIN asked |->
           [asked |-> asked[a], size |-> BlockAt(allocList, a).size]]

LEMMA BlockAtIs ==
    ASSUME NEW l \in Seq(BlockType),
           \A u, v \in 1..Len(l) : u # v => Apart(l[u], l[v]),
           NEW u \in 1..Len(l), NEW a, Payload(l[u]) = a
    PROVE  BlockAt(l, a) = l[u]
<1>1. DOMAIN l = 1..Len(l)
  BY LenProperties
<1>2. l[u] \in Range(l)
  BY <1>1 DEF Range
<1>3. BlockAt(l, a) \in Range(l) /\ Payload(BlockAt(l, a)) = a
  BY <1>2 DEF BlockAt
<1>4. PICK v \in 1..Len(l) : BlockAt(l, a) = l[v]
  BY <1>1, <1>3 DEF Range
<1>5. u = v
  BY <1>3, <1>4, PayloadsDiffer
<1>6. QED
  BY <1>4, <1>5

\* A request that does not wrap around is never rounded down.
LEMMA AlignSizeCovers ==
    ASSUME NEW n \in 0..(Modulus - Word)
    PROVE  AlignSize(n) >= n
<1>1. /\ n \in Nat /\ Word \in Nat /\ Word > 0 /\ Modulus \in Nat
      /\ n <= Modulus - Word
  BY HeapAssumption
<1>2. PICK r \in Nat : r = n % Word /\ r < Word
  BY <1>1
<1>3. CASE r > 0
  <2>1. n + Word - r \in 0..(Modulus - 1) /\ n + Word - r >= n
    BY <1>1, <1>2, <1>3
  <2>2. \A z \in 0..(Modulus - 1) : z % Modulus = z
    BY <1>1
  <2>3. AlignSize(n) = n + Word - r
    BY <1>2, <1>3, <2>1, <2>2 DEF AlignSize
  <2>4. QED
    BY <2>1, <2>3
<1>4. CASE ~(r > 0)
  BY <1>1, <1>2, <1>4 DEF AlignSize
<1>5. QED
  BY <1>3, <1>4

\* The blocks that are live stay what they were in a step of malloc, and the
\* new one is apart from them.
LEMMA MallocOfLive ==
    ASSUME HeapInv, NEW n \in Requests, n \in 0..(Modulus - Word), Malloc(n)
    PROVE  \E a, z :
              /\ a \notin DOMAIN Live
              /\ z \in Nat /\ z >= n
              /\ a \in Nat /\ a + z <= HeapSize
              /\ \A c \in DOMAIN Live :
                    (a..(a + z - 1)) \cap (c..(c + Live[c].size - 1)) = {}
              /\ Live' = [c \in DOMAIN Live \cup {a} |->
                            IF c = a THEN [asked |-> n, size |-> z]
                            ELSE Live[c]]
<1>1. PICK b \in BlockType :
         /\ b.size >= AlignSize(n)
         /\ allocList' = <<b>> \o allocList
         /\ Tiling(freeList', allocList')
         /\ asked' = [a \in DOMAIN asked \cup {Payload(b)} |->
                         IF a = Payload(b) THEN n ELSE asked[a]]
  BY MallocFacts
<1> DEFINE a == Payload(b)
           z == b.size
           M == Len(allocList)
<1>2. /\ allocList \in Seq(BlockType) /\ allocList' \in Seq(BlockType)
      /\ M \in Nat
      /\ \A u, v \in 1..M : u # v => Apart(allocList[u], allocList[v])
      /\ \A u, v \in 1..Len(allocList') :
            u # v => Apart(allocList'[u], allocList'[v])
      /\ \A u \in 1..Len(allocList') : End(allocList'[u]) <= HeapSize
      /\ DOMAIN asked = Payloads(allocList)
      /\ \A u \in 1..M : allocList[u] \in BlockType
  BY <1>1, LenProperties, ElementOfSeq DEF HeapInv, Tiling
<1>3. /\ Len(allocList') = M + 1
      /\ \A k \in 1..(M + 1) :
            allocList'[k] = IF k = 1 THEN b ELSE allocList[k - 1]
  BY <1>1, <1>2, ConsFacts
<1>4. /\ 1 \in 1..(M + 1) /\ allocList'[1] = b
      /\ \A u \in 1..M : /\ u + 1 \in 1..(M + 1) /\ u + 1 # 1
                         /\ allocList'[u + 1] = allocList[u]
  <2>1. \A u \in 1..M : /\ u + 1 \in 1..(M + 1) /\ u + 1 # 1
                        /\ (u + 1) - 1 = u
    BY <1>2
  <2>2. 1 \in 1..(M + 1)
    BY <1>2
  <2>3. QED
    BY <1>3, <2>1, <2>2
<1>5. \A u \in 1..M : Apart(b, allocList[u])
  <2> SUFFICES ASSUME NEW u \in 1..M PROVE Apart(b, allocList[u])
    OBVIOUS
  <2>1. 1 \in 1..Len(allocList') /\ u + 1 \in 1..Len(allocList') /\ 1 # u + 1
    BY <1>3, <1>4
  <2>2. Apart(allocList'[1], allocList'[u + 1])
    BY <1>2, <2>1
  <2>3. QED
    BY <1>4, <2>2
<1>6. BlockAt(allocList', a) = b
  <2>1. 1 \in 1..Len(allocList') /\ Payload(allocList'[1]) = a
    BY <1>3, <1>4
  <2>2. BlockAt(allocList', a) = allocList'[1]
    BY <1>2, <2>1, BlockAtIs
  <2>3. QED
    BY <1>4, <2>2
<1>7. ASSUME NEW c \in DOMAIN asked
      PROVE  /\ c # a
             /\ BlockAt(allocList', c) = BlockAt(allocList, c)
             /\ (a..(a + z - 1))
                   \cap (c..(c + BlockAt(allocList, c).size - 1)) = {}
  <2>1. PICK u \in 1..M : Payload(allocList[u]) = c
    BY <1>2 DEF Payloads
  <2>2. BlockAt(allocList, c) = allocList[u]
    BY <1>2, <2>1, BlockAtIs
  <2>3. BlockAt(allocList', c) = allocList[u]
    <3>1. u + 1 \in 1..Len(allocList') /\ Payload(allocList'[u + 1]) = c
      BY <1>3, <1>4, <2>1
    <3>2. BlockAt(allocList', c) = allocList'[u + 1]
      BY <1>2, <3>1, BlockAtIs
    <3>3. QED
      BY <1>4, <3>2
  <2> DEFINE d == allocList[u]
  <2>4. Apart(b, d) /\ d \in BlockType
    BY <1>2, <1>5
  <2> HIDE DEF d
  <2>5. /\ b.addr \in Nat /\ z \in Nat /\ End(b) = b.addr + Header + z
        /\ d.addr \in Nat /\ d.size \in Nat /\ End(d) = d.addr + Header + d.size
    BY <2>4, BlockTypeFacts
  <2>6. a = b.addr + Header /\ c = d.addr + Header
    BY <2>1 DEF Payload, d
  <2>7. End(b) <= d.addr \/ End(d) <= b.addr
    BY <2>4 DEF Apart
  <2> HIDE DEF a, z
  <2>8. /\ a \in Nat /\ c \in Nat /\ End(b) = a + z /\ End(d) = c + d.size
        /\ b.addr < a /\ d.addr < c
    <3>1. End(b) = a + z
      BY <2>5, <2>6
    <3>2. End(d) = c + d.size
      BY <2>5, <2>6
    <3>3. /\ b.addr + Header \in Nat /\ b.addr < b.addr + Header
          /\ d.addr + Header \in Nat /\ d.addr < d.addr + Header
      BY <2>5, HeaderType
    <3>4. QED
      BY <2>6, <3>1, <3>2, <3>3
  <2>9. a + z < c \/ c + d.size < a
    BY <2>5, <2>7, <2>8
  <2>10. (a..(a + z - 1)) \cap (c..(c + d.size - 1)) = {} /\ c # a
    BY <2>5, <2>8, <2>9
  <2>11. QED
    BY <2>2, <2>3, <2>10 DEF d
<1>8. a \in Nat /\ z \in Nat /\ a + z <= HeapSize /\ z >= n
  <2>1. b.addr \in Nat /\ z \in Nat /\ End(b) = b.addr + Header + z
    BY BlockTypeFacts
  <2>2. End(b) <= HeapSize
    BY <1>2, <1>3, <1>4
  <2>3. a \in Nat /\ a + z = End(b)
    BY <2>1, HeaderType DEF Payload
  <2>4. AlignSize(n) >= n /\ AlignSize(n) \in Nat
    BY AlignSizeCovers, AlignSizeType
  <2>5. n \in Nat /\ z >= AlignSize(n)
    BY <1>1
  <2>6. z >= n
    BY <2>1, <2>4, <2>5
  <2>7. QED
    BY <2>1, <2>2, <2>3, <2>6
<1>9. DOMAIN Live = DOMAIN asked
      /\ \A c \in DOMAIN asked :
            Live[c] = [asked |-> asked[c], size |-> BlockAt(allocList, c).size]
  BY DEF Live
<1>10. DOMAIN asked' = DOMAIN asked \cup {a}
  BY <1>1
<1>11. Live' = [c \in DOMAIN Live \cup {a} |->
                  IF c = a THEN [asked |-> n, size |-> z] ELSE Live[c]]
  <2>1. Live' = [c \in DOMAIN asked' |->
                   [asked |-> asked'[c], size |-> BlockAt(allocList', c).size]]
    BY DEF Live
  <2>2. asked'[a] = n /\ \A c \in DOMAIN asked : asked'[c] = asked[c]
    BY <1>1, <1>7
  <2>3. \A c \in DOMAIN asked \cup {a} :
           [asked |-> asked'[c], size |-> BlockAt(allocList', c).size]
              = IF c = a THEN [asked |-> n, size |-> z] ELSE Live[c]
    <3> SUFFICES ASSUME NEW c \in DOMAIN asked \cup {a}
                 PROVE  [asked |-> asked'[c],
                         size |-> BlockAt(allocList', c).size]
                           = IF c = a THEN [asked |-> n, size |-> z]
                             ELSE Live[c]
      OBVIOUS
    <3>1. CASE c = a
      BY <1>6, <2>2, <3>1
    <3>2. CASE c # a
      BY <1>7, <1>9, <2>2, <3>2
    <3>3. QED
      BY <3>1, <3>2
  <2>4. QED
    BY <1>9, <1>10, <2>1, <2>3
<1>12. \A c \in DOMAIN Live :
          (a..(a + z - 1)) \cap (c..(c + Live[c].size - 1)) = {}
  BY <1>7, <1>9
<1>13. a \notin DOMAIN Live
  BY <1>7, <1>9
<1> HIDE DEF a, z
<1>14. QED
  BY <1>8, <1>11, <1>12, <1>13

\* free takes its block from those that are live and leaves the others.
LEMMA FreeOfLive ==
    ASSUME HeapInv, NEW ptr, Free(ptr)
    PROVE  ptr \in DOMAIN Live /\ Live' = Restrict(Live, DOMAIN Live \ {ptr})
<1>1. PICK i \in 1..Len(allocList) :
         /\ Payload(allocList[i]) = ptr
         /\ allocList' = RemoveAt(allocList, i)
         /\ Tiling(freeList', allocList')
         /\ asked' = Restrict(asked, DOMAIN asked \ {ptr})
  BY FreeFacts
<1> DEFINE M == Len(allocList)
<1>2. /\ allocList \in Seq(BlockType) /\ allocList' \in Seq(BlockType)
      /\ M \in Nat
      /\ \A u, v \in 1..M : u # v => Apart(allocList[u], allocList[v])
      /\ \A u, v \in 1..Len(allocList') :
            u # v => Apart(allocList'[u], allocList'[v])
      /\ DOMAIN asked = Payloads(allocList)
  BY <1>1, LenProperties DEF HeapInv, Tiling
<1>3. /\ Len(allocList') = M - 1
      /\ \A k \in 1..(M - 1) :
            allocList'[k] = IF k < i THEN allocList[k] ELSE allocList[k + 1]
  BY <1>1, <1>2, RemoveAtFacts
<1>4. ptr \in DOMAIN asked
  BY <1>1, <1>2 DEF Payloads
<1>5. ASSUME NEW c \in DOMAIN asked, c # ptr
      PROVE  BlockAt(allocList', c) = BlockAt(allocList, c)
  <2>1. PICK u \in 1..M : Payload(allocList[u]) = c
    BY <1>2 DEF Payloads
  <2>2. BlockAt(allocList, c) = allocList[u]
    BY <1>2, <2>1, BlockAtIs
  <2>3. u # i
    BY <1>1, <1>5, <2>1
  <2>4. \E k \in 1..(M - 1) : allocList'[k] = allocList[u]
    <3>1. CASE u < i
      <4>1. u \in 1..(M - 1) /\ allocList'[u] = allocList[u]
        BY <1>2, <1>3, <3>1
      <4>2. QED
        BY <4>1
    <3>2. CASE u > i
      <4>1. u - 1 \in 1..(M - 1) /\ ~(u - 1 < i) /\ (u - 1) + 1 = u
        BY <1>2, <3>2
      <4>2. allocList'[u - 1] = allocList[u]
        BY <1>3, <4>1
      <4>3. QED
        BY <4>1, <4>2
    <3>3. u < i \/ u > i
      BY <1>2, <2>3
    <3>4. QED
      BY <3>1, <3>2, <3>3
  <2>5. PICK k \in 1..Len(allocList') : allocList'[k] = allocList[u]
    BY <1>3, <2>4
  <2>6. BlockAt(allocList', c) = allocList'[k]
    BY <1>2, <2>1, <2>5, BlockAtIs
  <2>7. QED
    BY <2>2, <2>5, <2>6
<1>6. DOMAIN Live = DOMAIN asked
      /\ \A c \in DOMAIN asked :
            Live[c] = [asked |-> asked[c], size |-> BlockAt(allocList, c).size]
  BY DEF Live
<1>7. asked' = [c \in DOMAIN asked \ {ptr} |-> asked[c]]
  BY <1>1 DEF Restrict
<1>8. Live' = [c \in DOMAIN asked' |->
                 [asked |-> asked'[c], size |-> BlockAt(allocList', c).size]]
  BY DEF Live
<1>9. DOMAIN asked' = DOMAIN asked \ {ptr}
  BY <1>7
<1>10. \A c \in DOMAIN asked \ {ptr} :
          [asked |-> asked'[c], size |-> BlockAt(allocList', c).size] = Live[c]
  BY <1>5, <1>6, <1>7
<1>11. Live' = [c \in DOMAIN asked \ {ptr} |-> Live[c]]
  BY <1>8, <1>9, <1>10
<1>12. QED
  BY <1>4, <1>6, <1>11 DEF Restrict

\* The state that Contract maps to is Live.
LEMMA ContractInit == Init => Contract!Init
<1> SUFFICES ASSUME Init PROVE Contract!Init
  OBVIOUS
<1>1. DOMAIN asked = {}
  BY DEF Init
<1>2. QED
  BY <1>1 DEF Contract!Init

\* Each step of the heap is a step of the contract or changes nothing of it.
LEMMA ContractStep ==
    ASSUME HeapInv, [Next]_heapVars, Requests \subseteq 0..(Modulus - Word)
    PROVE  Contract!Next \/ Live' = Live
<1>1. ASSUME NEW n \in Requests, Malloc(n) PROVE Contract!Next
  <2>1. PICK a, z :
           /\ a \notin DOMAIN Live
           /\ z \in Nat /\ z >= n
           /\ a \in Nat /\ a + z <= HeapSize
           /\ \A c \in DOMAIN Live :
                 (a..(a + z - 1)) \cap (c..(c + Live[c].size - 1)) = {}
           /\ Live' = [c \in DOMAIN Live \cup {a} |->
                         IF c = a THEN [asked |-> n, size |-> z]
                         ELSE Live[c]]
    BY <1>1, MallocOfLive
  <2> DEFINE b == [asked |-> n, size |-> z]
  <2>2. b.asked = n /\ b.size >= n /\ b.size = z
    BY <2>1
  <2>3. a..(a + b.size - 1) \subseteq 0..(HeapSize - 1)
    BY <2>1, <2>2, HeapAssumption
  <2> HIDE DEF b
  <2>4. a \in DOMAIN Live' \ DOMAIN Live /\ Live'[a] = b
    BY <2>1 DEF b
  <2>5. /\ \A c \in DOMAIN Live :
              (a..(a + b.size - 1)) \cap (c..(c + Live[c].size - 1)) = {}
        /\ Live' = [c \in DOMAIN Live \cup {a} |->
                      IF c = a THEN b ELSE Live[c]]
    BY <2>1, <2>2 DEF b
  <2>6. b = Live'[a]
    BY <2>4
  <2>7. Contract!Grant(n, a, Live'[a])
    BY <2>1, <2>2, <2>3, <2>5, <2>6
       DEF Contract!Grant, Contract!Extent, Live, BlockAt
  <2>8. QED
    BY <2>4, <2>7 DEF Contract!Next, Live, BlockAt
<1>2. ASSUME NEW ptr \in Pointers, Free(ptr) PROVE Contract!Next
  <2>1. ptr \in DOMAIN Live /\ Live' = Restrict(Live, DOMAIN Live \ {ptr})
    BY <1>2, FreeOfLive
  <2>2. Contract!Free(ptr)
    BY <2>1 DEF Contract!Free, Live, BlockAt, Restrict, Contract!Restrict
  <2>3. QED
    BY <2>1, <2>2 DEF Contract!Next, Live, BlockAt
<1>3. ASSUME UNCHANGED heapVars PROVE Live' = Live
  <2>1. allocList' = allocList /\ asked' = asked
    BY <1>3 DEF heapVars
  <2>2. QED
    BY <2>1 DEF Live
<1>4. ASSUME NEW n \in Requests, MallocFails(n) PROVE Live' = Live
  BY <1>3, <1>4 DEF MallocFails
<1>5. ASSUME NEW ptr \in Pointers, FreeImposter(ptr) PROVE Live' = Live
  BY <1>3, <1>5 DEF FreeImposter
<1>6. QED
  BY <1>1, <1>2, <1>3, <1>4, <1>5 DEF Next

\* memoryManager.c keeps the contract of malloc and free: what it grants lies
\* in the heap, is large enough, overlaps no live block, and freeing anything
\* else changes nothing.  The requests that AlignSize would wrap around are
\* excluded: the last Word - 1 sizes of size_t become a request for nothing.
THEOREM HeapKeepsContract ==
    ASSUME Requests \subseteq 0..(Modulus - Word)
    PROVE  Spec => ImplementsAllocator
<1>1. Init => Contract!Init
  BY ContractInit
<1>2. HeapInv /\ [Next]_heapVars => [Contract!Next]_Live
  BY ContractStep
<1>3. QED
  BY <1>1, <1>2, HeapInvHolds, PTL
     DEF Spec, ImplementsAllocator, Contract!Spec, Live, BlockAt
-----------------------------------------------------------------------------
\* f lists the stages of a recursion of n steps in S that starts at x.
Stages(f, S, n, x, step) ==
    /\ f \in [0..n -> S]
    /\ f[0] = x
    /\ \A k \in 1..n : f[k] = step[k][f[k - 1]]

\* A recursion that stays in S has a function of its stages.
LEMMA StagesExist ==
    ASSUME NEW S, NEW n \in Nat, NEW x \in S,
           NEW step \in [1..n -> [S -> S]]
    PROVE  \E f : Stages(f, S, n, x, step)
<1>0. \A k \in 1..n, s \in S : step[k][s] \in S
  OBVIOUS
<1> DEFINE P(j) == \E f \in [0..j -> S] :
                      /\ f[0] = x
                      /\ \A k \in 1..j : f[k] = step[k][f[k - 1]]
           T == {j \in 0..n : ~P(j)}
<1>1. T = {}
  <2> SUFFICES ASSUME T # {} PROVE FALSE
    OBVIOUS
  <2>1. T \in SUBSET Nat
    OBVIOUS
  <2>2. PICK j \in T : \A y \in T : j <= y
    BY <2>1, LeastNat
  <2>3. j \in 0..n /\ ~P(j)
    OBVIOUS
  <2>4. CASE j = 0
    <3> DEFINE z == [i \in 0..0 |-> x]
    <3>1. z \in [0..j -> S] /\ z[0] = x /\ 1..j = {}
      BY <2>4
    <3>2. P(j)
      BY <3>1
    <3>3. QED
      BY <2>3, <3>2
  <2>5. CASE j # 0
    <3>1. j - 1 \in 0..n /\ ~(j <= j - 1)
      BY <2>3, <2>5
    <3>2. P(j - 1)
      BY <2>2, <3>1
    <3>3. PICK f \in [0..(j - 1) -> S] :
             /\ f[0] = x
             /\ \A k \in 1..(j - 1) : f[k] = step[k][f[k - 1]]
      BY <3>2
    <3> DEFINE h == [i \in 0..j |-> IF i = j THEN step[j][f[j - 1]]
                                    ELSE f[i]]
    <3>4. j - 1 \in 0..(j - 1) /\ j \in 1..n /\ j \in Nat
      BY <2>3, <2>5
    <3>5. h \in [0..j -> S]
      BY <1>0, <3>3, <3>4
    <3>6. h[0] = x
      BY <3>3, <3>4
    <3>7. ASSUME NEW k \in 1..j PROVE h[k] = step[k][h[k - 1]]
      <4>1. k - 1 \in 0..(j - 1) /\ k - 1 # j /\ k \in 0..j /\ k - 1 \in 0..j
        BY <3>4
      <4>2. h[k - 1] = f[k - 1]
        BY <4>1
      <4>3. CASE k = j
        BY <4>1, <4>2, <4>3
      <4>4. CASE k # j
        <5>1. k \in 1..(j - 1)
          BY <3>4, <4>4
        <5>2. QED
          BY <3>3, <4>1, <4>2, <4>4, <5>1
      <4>5. QED
        BY <4>3, <4>4
    <3>8. P(j)
      BY <3>5, <3>6, <3>7
    <3>9. QED
      BY <2>3, <3>8
  <2>6. QED
    BY <2>4, <2>5
<1>2. P(n)
  <2>1. n \in 0..n
    OBVIOUS
  <2> HIDE DEF P
  <2>2. QED
    BY <1>1, <2>1
<1>3. QED
  BY <1>2 DEF Stages

\* The levels are 0 to Top.
LEMMA LevelFacts ==
    /\ Top \in Nat /\ Top > 0 /\ Unit \in Nat /\ Unit > 0
    /\ 0 \in Levels /\ Top \in Levels
    /\ \A l \in Levels : l \in Nat /\ l <= Top
  BY BuddyAssumption DEF Levels

\* The powers of two exist and double from one level to the next.
LEMMA PowFacts ==
    /\ \A l \in Levels : Pow2[l] \in Nat /\ Pow2[l] > 0
    /\ Pow2[0] = 1
    /\ \A l \in Levels : l > 0 => Pow2[l] = 2 * Pow2[l - 1]
<1> DEFINE step == [k \in 1..Top |-> [v \in Nat |-> 2 * v]]
<1>0. step \in [1..Top -> [Nat -> Nat]]
  OBVIOUS
<1>1. \A k \in 1..Top, s \in Nat : step[k][s] = 2 * s /\ 2 * s \in Nat
  OBVIOUS
<1> HIDE DEF step
<1>2. PICK f : Stages(f, Nat, Top, 1, step)
  <2>1. Top \in Nat /\ 1 \in Nat
    BY LevelFacts
  <2>2. QED
    BY <1>0, <2>1, StagesExist
<1>3. \A k \in 1..Top : f[k] = 2 * f[k - 1]
  <2>1. \A k \in 1..Top : f[k - 1] \in Nat
    BY <1>2, LevelFacts DEF Stages
  <2>2. QED
    BY <1>1, <1>2, <2>1 DEF Stages
<1>4. f = [l \in Levels |-> IF l = 0 THEN 1 ELSE 2 * f[l - 1]]
  <2>1. \A l \in Levels : f[l] = IF l = 0 THEN 1 ELSE 2 * f[l - 1]
    <3> SUFFICES ASSUME NEW l \in Levels, l # 0 PROVE f[l] = 2 * f[l - 1]
      BY <1>2 DEF Stages
    <3>1. l \in 1..Top
      BY LevelFacts DEF Levels
    <3>2. QED
      BY <1>3, <3>1
  <2>2. QED
    BY <1>2, <2>1 DEF Levels, Stages
<1> DEFINE h == CHOOSE g : g = [l \in Levels |-> IF l = 0 THEN 1
                                                 ELSE 2 * g[l - 1]]
<1>5. h = [l \in Levels |-> IF l = 0 THEN 1 ELSE 2 * h[l - 1]]
  BY <1>4
<1>6. Pow2 = h
  BY DEF Pow2
<1> HIDE DEF h
<1>7. \A l \in Levels : Pow2[l] = IF l = 0 THEN 1 ELSE 2 * Pow2[l - 1]
  BY <1>5, <1>6
<1> DEFINE T == {l \in Levels : ~(Pow2[l] \in Nat /\ Pow2[l] > 0)}
<1>8. T = {}
  <2> SUFFICES ASSUME T # {} PROVE FALSE
    OBVIOUS
  <2>1. T \in SUBSET Nat
    BY LevelFacts
  <2>2. PICK l \in T : \A y \in T : l <= y
    BY <2>1, LeastNat
  <2>3. l \in Levels /\ ~(Pow2[l] \in Nat /\ Pow2[l] > 0) /\ l \in Nat
    BY LevelFacts
  <2>4. l # 0
    BY <1>7, <2>3
  <2>5. l - 1 \in Levels /\ ~(l <= l - 1)
    <3>1. l \in 0..Top
      BY <2>3 DEF Levels
    <3>2. l - 1 \in 0..Top /\ ~(l <= l - 1)
      BY <2>4, <3>1, LevelFacts
    <3>3. QED
      BY <3>2 DEF Levels
  <2>6. Pow2[l - 1] \in Nat /\ Pow2[l - 1] > 0
    BY <2>2, <2>5
  <2>7. Pow2[l] = 2 * Pow2[l - 1]
    BY <1>7, <2>3, <2>4
  <2>8. QED
    BY <2>3, <2>6, <2>7
<1>9. \A l \in Levels : l > 0 => l # 0
  BY LevelFacts
<1>10. QED
  BY <1>7, <1>8, <1>9, LevelFacts

\* A block is a whole number of blocks of any lower level.
LEMMA PowDivides ==
    ASSUME NEW l \in Levels, NEW h \in Levels, l <= h
    PROVE  \E c \in Nat : c > 0 /\ Pow2[h] = c * Pow2[l]
<1> DEFINE p == Pow2[l]
           P(k) == \E c \in Nat : c > 0 /\ Pow2[k] = c * p
           T == {k \in l..Top : ~P(k)}
<1>1. p \in Nat /\ l \in Nat /\ h \in l..Top
  BY PowFacts, LevelFacts
<1> HIDE DEF p
<1>2. T = {}
  <2> SUFFICES ASSUME T # {} PROVE FALSE
    OBVIOUS
  <2>1. T \in SUBSET Nat
    BY <1>1
  <2>2. PICK k \in T : \A y \in T : k <= y
    BY <2>1, LeastNat
  <2>3. k \in l..Top /\ ~P(k)
    OBVIOUS
  <2>4. CASE k = l
    <3>1. Pow2[k] = 1 * p
      BY <1>1, <2>4 DEF p
    <3>2. QED
      BY <2>3, <3>1
  <2>5. CASE k # l
    <3>1. k - 1 \in l..Top /\ ~(k <= k - 1) /\ k \in Levels /\ k > 0
      BY <1>1, <2>3, <2>5, LevelFacts DEF Levels
    <3>2. PICK c \in Nat : c > 0 /\ Pow2[k - 1] = c * p
      BY <2>2, <3>1
    <3>3. Pow2[k] = 2 * Pow2[k - 1]
      BY <3>1, PowFacts
    <3>4. 2 * (c * p) = (2 * c) * p
      BY <1>1
    <3>5. Pow2[k] = (2 * c) * p /\ 2 * c \in Nat /\ 2 * c > 0
      BY <3>2, <3>3, <3>4
    <3>6. QED
      BY <2>3, <3>5
  <2>6. QED
    BY <2>4, <2>5
<1>3. P(h)
  BY <1>1, <1>2
<1>4. QED
  BY <1>3 DEF p
-----------------------------------------------------------------------------
\* Block i of level l starts at a multiple of its size.
Aligned(i, l) == \E q \in Nat : i = q * Pow2[l]

\* The buddy of block i when it has level l.
BuddyOf(i, l) ==
    IF (i \div Pow2[l]) % 2 = 1 THEN i - Pow2[l] ELSE i + Pow2[l]

\* getBuddy reads the level of the block and nothing else.
LEMMA GetBuddyIs ==
    ASSUME NEW m, NEW i PROVE GetBuddy(m, i) = BuddyOf(i, m.level[i])
  BY DEF GetBuddy, BuddyOf

\* The indices are the units of the heap.
LEMMA IndicesAre ==
    \A x : x \in Indices <=> x \in Nat /\ x < Pow2[Top]
  BY PowFacts, LevelFacts DEF Indices

\* A larger multiple of p is larger by at least p.
LEMMA MultiplesOrdered ==
    ASSUME NEW q \in Nat, NEW r \in Nat, NEW p \in Nat, q < r
    PROVE  q * p + p <= r * p
  OBVIOUS

\* Multiples keep the order of their factors.
LEMMA MultiplesNotAfter ==
    ASSUME NEW q \in Nat, NEW r \in Nat, NEW p \in Nat, q <= r
    PROVE  q * p <= r * p
  OBVIOUS

\* And their factors keep the order of the multiples.
LEMMA MultiplesInOrder ==
    ASSUME NEW q \in Nat, NEW r \in Nat, NEW p \in Nat, q * p < r * p
    PROVE  q < r
  OBVIOUS

\* A multiple of the size of a block is a natural number.
LEMMA AlignedIsNat ==
    ASSUME NEW l \in Levels, NEW i, Aligned(i, l) PROVE i \in Nat
<1>1. Pow2[l] \in Nat
  BY PowFacts
<1>2. PICK q \in Nat : i = q * Pow2[l]
  BY DEF Aligned
<1>3. QED
  BY <1>1, <1>2

\* A lower block lies inside a higher one or outside of it.
LEMMA Nested ==
    ASSUME NEW l \in Levels, NEW h \in Levels, l <= h,
           NEW i, NEW j, Aligned(i, l), Aligned(j, h)
    PROVE  \/ i + Pow2[l] <= j
           \/ j + Pow2[h] <= i
           \/ j <= i /\ i + Pow2[l] <= j + Pow2[h]
<1> DEFINE p == Pow2[l]
<1>1. p \in Nat /\ Pow2[h] \in Nat /\ p > 0
  BY PowFacts
<1>2. PICK c \in Nat : c > 0 /\ Pow2[h] = c * p
  BY PowDivides
<1>3. PICK q \in Nat : i = q * p
  BY DEF Aligned
<1>4. PICK s \in Nat : j = s * Pow2[h]
  BY DEF Aligned
<1> HIDE DEF p
<1> DEFINE r == s * c
<1>5. s * (c * p) = r * p /\ r \in Nat
  BY <1>1
<1>6. j = r * p
  BY <1>2, <1>4, <1>5
<1> HIDE DEF r
<1>7. CASE q < r
  BY <1>1, <1>3, <1>5, <1>6, <1>7, MultiplesOrdered DEF p
<1>8. CASE r <= q /\ q < r + c
  <2>1. r * p <= q * p
    BY <1>1, <1>5, <1>8, MultiplesNotAfter
  <2>2. r + c \in Nat /\ (r + c) * p = r * p + c * p
    BY <1>1, <1>5
  <2>3. q * p + p <= (r + c) * p
    BY <1>1, <1>8, <2>2, MultiplesOrdered
  <2>4. QED
    BY <1>2, <1>3, <1>6, <2>1, <2>2, <2>3 DEF p
<1>9. CASE r + c <= q
  <2>1. r + c \in Nat /\ (r + c) * p = r * p + c * p
    BY <1>1, <1>5
  <2>2. (r + c) * p <= q * p
    BY <1>1, <1>9, <2>1, MultiplesNotAfter
  <2>3. QED
    BY <1>2, <1>3, <1>6, <2>1, <2>2
<1>10. q < r \/ (r <= q /\ q < r + c) \/ r + c <= q
  BY <1>5
<1>11. QED
  BY <1>7, <1>8, <1>9, <1>10

\* Block 0 is aligned at the level of the whole heap.
LEMMA WholeHeapAligned == Aligned(0, Top)
<1>1. Pow2[Top] \in Nat
  BY PowFacts, LevelFacts
<1>2. 0 = 0 * Pow2[Top]
  BY <1>1
<1>3. QED
  BY <1>2 DEF Aligned

\* A block that starts in the heap ends in it.
LEMMA BlockInHeap ==
    ASSUME NEW l \in Levels, NEW i \in Indices, Aligned(i, l)
    PROVE  i + Pow2[l] <= Pow2[Top]
<1>1. /\ l <= Top /\ Top \in Levels /\ Pow2[l] \in Nat /\ Pow2[l] > 0
      /\ Pow2[Top] \in Nat /\ i \in Nat /\ i < Pow2[Top]
  BY LevelFacts, PowFacts, IndicesAre
<1>2. \/ i + Pow2[l] <= 0
      \/ 0 + Pow2[Top] <= i
      \/ 0 <= i /\ i + Pow2[l] <= 0 + Pow2[Top]
  BY <1>1, WholeHeapAligned, Nested
<1>3. QED
  BY <1>1, <1>2

\* A block of level l + 1 is two of level l.
LEMMA HalvesFacts ==
    ASSUME NEW l \in Levels, l < Top
    PROVE  l + 1 \in Levels /\ Pow2[l + 1] = Pow2[l] + Pow2[l]
<1>1. l + 1 \in Levels /\ l + 1 > 0 /\ (l + 1) - 1 = l
  BY LevelFacts DEF Levels
<1>2. Pow2[l + 1] = 2 * Pow2[l]
  BY <1>1, PowFacts
<1>3. QED
  BY <1>1, <1>2, PowFacts

\* What % 2 tells of a quotient, as getBuddy uses it.
LEMMA EvenOrOdd ==
    ASSUME NEW q \in Nat
    PROVE  \/ q % 2 = 0 /\ \E k \in Nat : q = 2 * k
           \/ q % 2 = 1 /\ \E k \in Nat : q = 2 * k + 1
<1>1. q \div 2 \in Nat /\ (q = 2 * (q \div 2) \/ q = 2 * (q \div 2) + 1)
  OBVIOUS
<1>2. QED
  BY <1>1

\* Dividing a multiple gives the factor back.
LEMMA Quotient ==
    ASSUME NEW q \in Nat, NEW p \in Nat, p > 0 PROVE (q * p) \div p = q
  OBVIOUS

\* The two halves of a block of level l + 1 are buddies at level l.
LEMMA HalvesAreBuddies ==
    ASSUME NEW l \in Levels, l < Top, NEW i, Aligned(i, l + 1)
    PROVE  /\ Aligned(i, l) /\ Aligned(i + Pow2[l], l)
           /\ BuddyOf(i, l) = i + Pow2[l]
           /\ BuddyOf(i + Pow2[l], l) = i
<1> DEFINE p == Pow2[l]
<1>1. p \in Nat /\ p > 0 /\ Pow2[l + 1] = p + p
  BY PowFacts, HalvesFacts
<1>2. PICK k \in Nat : i = k * (p + p)
  BY <1>1 DEF Aligned
<1> HIDE DEF p
<1>3. k * (p + p) = (2 * k) * p /\ (2 * k + 1) * p = (2 * k) * p + p
      /\ 2 * k \in Nat /\ 2 * k + 1 \in Nat
  BY <1>1
<1>4. i = (2 * k) * p /\ i + p = (2 * k + 1) * p
  BY <1>2, <1>3
<1>5. (2 * k) % 2 = 0 /\ (2 * k + 1) % 2 = 1
  OBVIOUS
<1>6. i \div p = 2 * k /\ (i + p) \div p = 2 * k + 1
  BY <1>1, <1>3, <1>4, Quotient
<1>7. BuddyOf(i, l) = i + p
  BY <1>5, <1>6 DEF BuddyOf, p
<1>8. BuddyOf(i + p, l) = (i + p) - p
  <2> DEFINE j == i + p
  <2>1. j \div p = 2 * k + 1
    BY <1>6
  <2> HIDE DEF j
  <2>2. (j \div p) % 2 = 1
    BY <1>5, <2>1
  <2>3. BuddyOf(j, l) = j - p
    BY <2>2 DEF BuddyOf, p
  <2>4. QED
    BY <2>3 DEF j
<1>9. (i + p) - p = i
  BY <1>1, <1>3, <1>4
<1>10. Aligned(i, l) /\ Aligned(i + p, l)
  BY <1>3, <1>4 DEF Aligned, p
<1>11. QED
  BY <1>7, <1>8, <1>9, <1>10 DEF p

\* A block below the top level is one of the halves of a higher one.
LEMMA BlockIsHalf ==
    ASSUME NEW l \in Levels, l < Top, NEW i, Aligned(i, l)
    PROVE  \E low \in Nat :
              /\ Aligned(low, l + 1)
              /\ \/ i = low /\ BuddyOf(i, l) = low + Pow2[l]
                 \/ i = low + Pow2[l] /\ BuddyOf(i, l) = low
<1> DEFINE p == Pow2[l]
<1>1. p \in Nat /\ p > 0 /\ Pow2[l + 1] = p + p
  BY PowFacts, HalvesFacts
<1>2. PICK q \in Nat : i = q * p
  BY DEF Aligned
<1> HIDE DEF p
<1>3. CASE \E k \in Nat : q = 2 * k
  <2>1. PICK k \in Nat : q = 2 * k
    BY <1>3
  <2>2. (2 * k) * p = k * (p + p) /\ k * (p + p) \in Nat
    BY <1>1
  <2>3. i = k * (p + p) /\ i \in Nat
    BY <1>2, <2>1, <2>2
  <2>4. Aligned(i, l + 1)
    BY <1>1, <2>3 DEF Aligned
  <2>5. BuddyOf(i, l) = i + Pow2[l]
    BY <2>4, HalvesAreBuddies
  <2>6. QED
    BY <2>3, <2>4, <2>5
<1>4. CASE \E k \in Nat : q = 2 * k + 1
  <2>1. PICK k \in Nat : q = 2 * k + 1
    BY <1>4
  <2> DEFINE low == k * (p + p)
  <2>2. (2 * k + 1) * p = low + p /\ low \in Nat
    BY <1>1
  <2>3. i = low + p
    BY <1>2, <2>1, <2>2
  <2>4. Aligned(low, l + 1)
    BY <1>1 DEF Aligned
  <2> HIDE DEF low
  <2>5. BuddyOf(low + Pow2[l], l) = low
    BY <2>4, HalvesAreBuddies
  <2>6. QED
    BY <2>2, <2>3, <2>4, <2>5 DEF p
<1>5. QED
  BY <1>3, <1>4, EvenOrOdd
-----------------------------------------------------------------------------
\* Block i of level l and block j of level h do not overlap.
Beside(i, l, j, h) == i + Pow2[l] <= j \/ j + Pow2[h] <= i

\* The blocks at H with the levels lv cover the heap, each unit once.
Tile(H, lv) ==
    /\ H \subseteq Indices
    /\ \A i \in H : lv[i] \in Levels /\ Aligned(i, lv[i])
    /\ \A i, j \in H : i # j => Beside(i, lv[i], j, lv[j])
    /\ \A x \in Indices : \E i \in H : i <= x /\ x < i + Pow2[lv[i]]

\* The buddy of a block of the tiling starts a block itself, of the same
\* level or of a lower one: the index that mergeBuddy looks at is not the
\* inside of some block.
LEMMA BuddyIsHead ==
    ASSUME NEW H, NEW lv, Tile(H, lv), NEW i \in H, lv[i] < Top
    PROVE  BuddyOf(i, lv[i]) \in H /\ lv[BuddyOf(i, lv[i])] <= lv[i]
<1> DEFINE l == lv[i]
           j == BuddyOf(i, l)
<1>1. /\ l \in Levels /\ l < Top /\ Aligned(i, l) /\ i \in Indices
      /\ l \in Nat /\ i \in Nat
  BY LevelFacts, IndicesAre DEF Tile
<1>2. \A h \in H : /\ h \in Nat /\ h \in Indices /\ lv[h] \in Levels
                   /\ lv[h] \in Nat /\ Pow2[lv[h]] \in Nat
                   /\ Pow2[lv[h]] > 0 /\ Aligned(h, lv[h])
  BY LevelFacts, PowFacts, IndicesAre DEF Tile
<1>3. \A h \in H : h # i => h + Pow2[lv[h]] <= i \/ i + Pow2[l] <= h
  BY DEF Tile, Beside
<1>4. \A x \in Indices : \E h \in H : h <= x /\ x < h + Pow2[lv[h]]
  BY DEF Tile
<1> HIDE DEF l, j
<1>5. PICK low \in Nat : /\ Aligned(low, l + 1)
                         /\ \/ i = low /\ j = low + Pow2[l]
                            \/ i = low + Pow2[l] /\ j = low
  BY <1>1, BlockIsHalf DEF j
<1>6. /\ l + 1 \in Levels /\ Pow2[l + 1] = Pow2[l] + Pow2[l]
      /\ Pow2[l] \in Nat /\ Pow2[l] > 0 /\ Pow2[Top] \in Nat
  BY <1>1, HalvesFacts, PowFacts, LevelFacts
<1>7. low \in Indices /\ low + Pow2[l + 1] <= Pow2[Top]
  <2>1. i < Pow2[Top]
    BY <1>1, IndicesAre
  <2>2. low \in Indices
    BY <1>1, <1>5, <1>6, <2>1, IndicesAre
  <2>3. QED
    BY <1>5, <1>6, <2>2, BlockInHeap
<1>8. j \in Nat /\ j \in Indices
  BY <1>5, <1>6, <1>7, IndicesAre
<1>9. PICK h \in H : h <= j /\ j < h + Pow2[lv[h]]
  BY <1>4, <1>8
<1>10. CASE lv[h] <= l
  <2>1. Aligned(j, l)
    BY <1>1, <1>5, HalvesAreBuddies
  <2>2. \/ h + Pow2[lv[h]] <= j
        \/ j + Pow2[l] <= h
        \/ j <= h /\ h + Pow2[lv[h]] <= j + Pow2[l]
    BY <1>1, <1>2, <1>10, <2>1, Nested
  <2>3. h = j
    BY <1>2, <1>6, <1>8, <1>9, <2>2
  <2>4. QED
    BY <1>10, <2>3 DEF l, j
<1>11. CASE ~(lv[h] <= l)
  <2>1. l + 1 <= lv[h]
    BY <1>1, <1>2, <1>11
  <2>2. \/ low + Pow2[l + 1] <= h
        \/ h + Pow2[lv[h]] <= low
        \/ h <= low /\ low + Pow2[l + 1] <= h + Pow2[lv[h]]
    BY <1>2, <1>5, <1>6, <2>1, Nested
  <2>3. h <= i /\ i < h + Pow2[lv[h]] /\ i + Pow2[l] <= h + Pow2[lv[h]]
    BY <1>1, <1>2, <1>5, <1>6, <1>8, <1>9, <2>2
  <2>4. h = i
    BY <1>1, <1>2, <1>3, <1>6, <2>3
  <2>5. QED
    BY <1>1, <1>11, <2>4 DEF l
<1>12. QED
  BY <1>10, <1>11

SameLevels(v, lv, G) == \A h \in G : v[h] = lv[h]

\* Splitting a block of the tiling into its halves leaves a tiling.
LEMMA TileSplit ==
    ASSUME NEW H, NEW lv, Tile(H, lv), NEW i \in H, NEW l \in Levels, l < Top,
           lv[i] = l + 1, NEW v, v[i] = l, v[i + Pow2[l]] = l,
           SameLevels(v, lv, H \ {i})
    PROVE  i + Pow2[l] \notin H /\ Tile(H \cup {i + Pow2[l]}, v)
<1> DEFINE p == Pow2[l]
           j == i + p
<1>1. /\ p \in Nat /\ p > 0 /\ l \in Nat /\ l + 1 \in Levels
      /\ Pow2[l + 1] = p + p
  BY LevelFacts, PowFacts, HalvesFacts
<1>2. \A h \in H : /\ h \in Nat /\ h \in Indices /\ lv[h] \in Levels
                   /\ Pow2[lv[h]] \in Nat /\ Pow2[lv[h]] > 0
                   /\ Aligned(h, lv[h])
  BY PowFacts, IndicesAre DEF Tile
<1>3. \A h, k \in H : h # k => h + Pow2[lv[h]] <= k \/ k + Pow2[lv[k]] <= h
  BY DEF Tile, Beside
<1>4. \A x \in Indices : \E h \in H : h <= x /\ x < h + Pow2[lv[h]]
  BY DEF Tile
<1>5. Aligned(i, l) /\ Aligned(j, l)
  BY <1>2, HalvesAreBuddies
<1>6. i + Pow2[l + 1] <= Pow2[Top] /\ Pow2[Top] \in Nat
  BY <1>1, <1>2, BlockInHeap, PowFacts, LevelFacts
<1> HIDE DEF p
<1>7. j \in Nat /\ j \in Indices
  BY <1>1, <1>2, <1>6, IndicesAre
<1>8. \A h \in H : h # i => h + Pow2[lv[h]] <= i \/ i + (p + p) <= h
  BY <1>1, <1>3
<1>9. j \notin H
  BY <1>1, <1>2, <1>8
<1>10. v[i] = l /\ v[j] = l /\ j = i + p
  BY DEF p
<1> HIDE DEF j
<1>11. \A h \in H : h # i => v[h] = lv[h]
  BY DEF SameLevels
<1>12. ASSUME NEW h \in H, h # i
       PROVE  /\ h + Pow2[v[h]] <= i \/ i + p <= h
              /\ h + Pow2[v[h]] <= j \/ j + p <= h
  <2>1. h + Pow2[lv[h]] <= i \/ i + (p + p) <= h
    BY <1>8, <1>12
  <2>2. v[h] = lv[h] /\ h \in Nat /\ Pow2[lv[h]] \in Nat
    BY <1>2, <1>11, <1>12
  <2>3. QED
    BY <1>1, <1>2, <1>10, <2>1, <2>2
<1>13. \A h \in H \cup {j} : v[h] \in Levels /\ Aligned(h, v[h])
  BY <1>2, <1>5, <1>10, <1>11
<1>14. ASSUME NEW h \in H \cup {j}, NEW k \in H \cup {j}, h # k
       PROVE  h + Pow2[v[h]] <= k \/ k + Pow2[v[k]] <= h
  <2>0. Pow2[v[i]] = p /\ Pow2[v[j]] = p
    BY <1>10 DEF p
  <2>1. CASE h \in {i, j} /\ k \in {i, j}
    BY <1>10, <1>14, <2>0, <2>1
  <2>2. CASE h \in H /\ h # i /\ k \in {i, j}
    BY <1>12, <2>0, <2>2
  <2>3. CASE h \in {i, j} /\ k \in H /\ k # i
    BY <1>12, <2>0, <2>3
  <2>4. CASE h \in H /\ h # i /\ k \in H /\ k # i
    BY <1>3, <1>11, <1>14, <2>4
  <2>5. QED
    BY <2>1, <2>2, <2>3, <2>4
<1>15. ASSUME NEW x \in Indices
       PROVE  \E h \in H \cup {j} : h <= x /\ x < h + Pow2[v[h]]
  <2>1. PICK h \in H : h <= x /\ x < h + Pow2[lv[h]]
    BY <1>4
  <2>2. x \in Nat
    BY IndicesAre
  <2>3. CASE h # i
    BY <1>11, <2>1, <2>3
  <2>4. CASE h = i
    <3>1. i <= x /\ x < i + (p + p)
      BY <1>1, <2>1, <2>4
    <3>2. (i <= x /\ x < i + p) \/ (j <= x /\ x < j + p)
      BY <1>1, <1>2, <1>10, <2>2, <3>1
    <3>3. QED
      BY <1>10, <3>2 DEF p
  <2>5. QED
    BY <2>3, <2>4
<1>16. H \cup {j} \subseteq Indices
  BY <1>2, <1>7
<1>17. Tile(H \cup {j}, v)
  BY <1>13, <1>14, <1>15, <1>16 DEF Tile, Beside
<1>18. QED
  BY <1>9, <1>17 DEF j, p

\* Making one block of two buddies leaves a tiling.
LEMMA TileMerge ==
    ASSUME NEW H, NEW lv, Tile(H, lv), NEW l \in Levels, l < Top,
           NEW low \in H, NEW j \in H, j = low + Pow2[l],
           Aligned(low, l + 1), lv[low] = l, lv[j] = l,
           NEW v, v[low] = l + 1, SameLevels(v, lv, H \ {low, j})
    PROVE  Tile(H \ {j}, v)
<1> DEFINE p == Pow2[l]
           G == H \ {j}
<1>1. /\ p \in Nat /\ p > 0 /\ l \in Nat /\ l + 1 \in Levels
      /\ Pow2[l + 1] = p + p
  BY LevelFacts, PowFacts, HalvesFacts
<1>2. \A h \in H : /\ h \in Nat /\ h \in Indices /\ lv[h] \in Levels
                   /\ Pow2[lv[h]] \in Nat /\ Pow2[lv[h]] > 0
                   /\ Aligned(h, lv[h])
  BY PowFacts, IndicesAre DEF Tile
<1>3. \A h, k \in H : h # k => h + Pow2[lv[h]] <= k \/ k + Pow2[lv[k]] <= h
  BY DEF Tile, Beside
<1>4. \A x \in Indices : \E h \in H : h <= x /\ x < h + Pow2[lv[h]]
  BY DEF Tile
<1>5. /\ j \in H /\ j = low + p /\ v[low] = l + 1 /\ Pow2[lv[low]] = p
      /\ Pow2[lv[j]] = p
      /\ \A h \in H : h # low /\ h # j => v[h] = lv[h]
  BY DEF SameLevels
<1> HIDE DEF p
<1>6. low # j
  BY <1>1, <1>2, <1>5
<1>7. ASSUME NEW h \in G, h # low
      PROVE  h + Pow2[v[h]] <= low \/ low + (p + p) <= h
  <2>1. h \in H /\ h # j /\ v[h] = lv[h] /\ h \in Nat /\ Pow2[lv[h]] \in Nat
        /\ Pow2[lv[h]] > 0
    BY <1>2, <1>5, <1>7
  <2>2. h + Pow2[lv[h]] <= low \/ low + p <= h
    BY <1>3, <1>5, <1>7, <2>1
  <2>3. h + Pow2[lv[h]] <= j \/ j + p <= h
    BY <1>3, <1>5, <2>1
  <2>4. QED
    BY <1>1, <1>2, <1>5, <2>1, <2>2, <2>3
<1>8. \A h \in G : v[h] \in Levels /\ Aligned(h, v[h])
  BY <1>1, <1>2, <1>5
<1>9. ASSUME NEW h \in G, NEW k \in G, h # k
      PROVE  h + Pow2[v[h]] <= k \/ k + Pow2[v[k]] <= h
  <2>0. Pow2[v[low]] = p + p
    BY <1>1, <1>5
  <2>1. CASE h = low
    BY <1>7, <1>9, <2>0, <2>1
  <2>2. CASE k = low
    BY <1>7, <1>9, <2>0, <2>2
  <2>3. CASE h # low /\ k # low
    BY <1>3, <1>5, <1>9, <2>3
  <2>4. QED
    BY <2>1, <2>2, <2>3
<1>10. ASSUME NEW x \in Indices
       PROVE  \E h \in G : h <= x /\ x < h + Pow2[v[h]]
  <2>1. PICK h \in H : h <= x /\ x < h + Pow2[lv[h]]
    BY <1>4
  <2>2. x \in Nat /\ low \in Nat /\ low \in G
    BY <1>2, <1>6, IndicesAre
  <2>3. CASE h # low /\ h # j
    BY <1>5, <2>1, <2>3
  <2>4. CASE h = low \/ h = j
    <3>1. low <= x /\ x < low + (p + p)
      BY <1>1, <1>5, <2>1, <2>2, <2>4
    <3>2. QED
      BY <1>1, <1>5, <2>2, <3>1
  <2>5. QED
    BY <2>3, <2>4
<1>11. G \subseteq Indices
  BY <1>2
<1>12. Tile(G, v)
  BY <1>8, <1>9, <1>10, <1>11 DEF Tile, Beside
<1>13. QED
  BY <1>12

\* low and j are the halves of a block of level l + 1 in v, of level l in lv.
Halves(H, lv, l, low, j, v) ==
    /\ Tile(H, lv) /\ l \in Levels /\ l < Top
    /\ low \in H /\ j \in H /\ j = low + Pow2[l] /\ Aligned(low, l + 1)
    /\ lv[low] = l /\ lv[j] = l /\ v[low] = l + 1
    /\ SameLevels(v, lv, H \ {low, j})

\* The same, to be cited of blocks and levels that are expressions.
LEMMA HalvesTile ==
    ASSUME NEW H, NEW lv, NEW l, NEW low, NEW j, NEW v,
           Halves(H, lv, l, low, j, v)
    PROVE  Tile(H \ {j}, v)
  BY TileMerge DEF Halves

-----------------------------------------------------------------------------
\* No two places of f have the same entry.
Distinct(f) == \A j, k \in 1..Len(f) : j # k => f[j] # f[k]

\* The members of a sequence are what it has at its places.
LEMMA InSet ==
    ASSUME NEW S, NEW f \in Seq(S), NEW x
    PROVE  x \in ToSet(f) <=> \E k \in 1..Len(f) : f[k] = x
<1>1. DOMAIN f = 1..Len(f)
  BY LenProperties
<1>2. QED
  BY <1>1 DEF ToSet

\* Unlinking a block from a bucket takes nothing else out of it.
LEMMA RemoveFirstFacts ==
    ASSUME NEW S, NEW f \in Seq(S), Distinct(f), NEW e \in ToSet(f)
    PROVE  /\ RemoveFirst(f, e) \in Seq(S) /\ Distinct(RemoveFirst(f, e))
           /\ ToSet(RemoveFirst(f, e)) = ToSet(f) \ {e}
<1> DEFINE I == {k \in 1..Len(f) : f[k] = e}
           i == Min(I)
           r == RemoveAt(f, i)
           N == Len(f)
<1>1. I # {} /\ I \in SUBSET Nat
  BY InSet
<1>2. i \in I
  BY <1>1, MinFacts
<1>3. SelectInSeq(f, LAMBDA v : v = e) = i
  BY <1>1 DEF SelectInSeq
<1>4. RemoveFirst(f, e) = r
  BY <1>1, <1>3 DEF RemoveFirst
<1>5. i \in 1..N /\ f[i] = e /\ N \in Nat
  BY <1>2, LenProperties
<1> HIDE DEF I, i
<1>6. /\ r \in Seq(S) /\ Len(r) = N - 1
      /\ \A k \in 1..(N - 1) : r[k] = IF k < i THEN f[k] ELSE f[k + 1]
  BY <1>5, RemoveAtFacts
<1> HIDE DEF r
<1> DEFINE old(k) == IF k < i THEN k ELSE k + 1
<1>7. \A k \in 1..(N - 1) : old(k) \in 1..N /\ old(k) # i /\ r[k] = f[old(k)]
  BY <1>5, <1>6
<1>8. \A j, k \in 1..(N - 1) : j # k => old(j) # old(k)
  BY <1>5
<1>9. ASSUME NEW k \in 1..N, k # i
      PROVE  \E j \in 1..(N - 1) : r[j] = f[k]
  <2>1. CASE k < i
    <3>1. k \in 1..(N - 1) /\ r[k] = f[k]
      BY <1>5, <1>6, <2>1
    <3>2. QED
      BY <3>1
  <2>2. CASE ~(k < i)
    <3>1. k - 1 \in 1..(N - 1) /\ ~(k - 1 < i) /\ (k - 1) + 1 = k
      BY <1>5, <1>9, <2>2
    <3>2. r[k - 1] = f[k]
      BY <1>6, <3>1
    <3>3. QED
      BY <3>1, <3>2
  <2>3. QED
    BY <2>1, <2>2
<1> HIDE DEF old
<1>10. \A j, k \in 1..N : j # k => f[j] # f[k]
  BY DEF Distinct
<1>11. Distinct(r)
  BY <1>6, <1>7, <1>8, <1>10 DEF Distinct
<1>12. ASSUME NEW x PROVE x \in ToSet(r) <=> x \in ToSet(f) /\ x # e
  <2>1. x \in ToSet(r) <=> \E k \in 1..(N - 1) : r[k] = x
    BY <1>6, InSet
  <2>2. x \in ToSet(f) <=> \E k \in 1..N : f[k] = x
    BY InSet
  <2>3. ASSUME NEW k \in 1..(N - 1), r[k] = x
        PROVE  (\E j \in 1..N : f[j] = x) /\ x # e
    BY <1>5, <1>7, <1>10, <2>3
  <2>4. ASSUME NEW k \in 1..N, f[k] = x, x # e
        PROVE  \E j \in 1..(N - 1) : r[j] = x
    BY <1>5, <1>9, <2>4
  <2>5. QED
    BY <2>1, <2>2, <2>3, <2>4
<1>13. QED
  BY <1>4, <1>6, <1>11, <1>12

\* Linking a block in at the front adds it to a bucket.
LEMMA ConsSet ==
    ASSUME NEW S, NEW f \in Seq(S), Distinct(f), NEW e \in S, e \notin ToSet(f)
    PROVE  /\ <<e>> \o f \in Seq(S) /\ Distinct(<<e>> \o f)
           /\ ToSet(<<e>> \o f) = ToSet(f) \cup {e}
           /\ <<e>> \o f # <<>> /\ Head(<<e>> \o f) = e
<1> DEFINE r == <<e>> \o f
           N == Len(f)
<1>1. N \in Nat
  BY LenProperties
<1>2. /\ r \in Seq(S) /\ Len(r) = N + 1
      /\ \A k \in 1..(N + 1) : r[k] = IF k = 1 THEN e ELSE f[k - 1]
  BY ConsFacts
<1> HIDE DEF r
<1>3. 1 \in 1..(N + 1) /\ r[1] = e
  BY <1>1, <1>2
<1>4. \A k \in 1..(N + 1) : k # 1 => k - 1 \in 1..N /\ r[k] = f[k - 1]
  BY <1>1, <1>2
<1>5. \A k \in 1..N : k + 1 \in 1..(N + 1) /\ r[k + 1] = f[k] /\ k + 1 # 1
  <2>1. \A k \in 1..N : k + 1 \in 1..(N + 1) /\ (k + 1) - 1 = k /\ k + 1 # 1
    BY <1>1
  <2>2. QED
    BY <1>2, <2>1
<1>6. \A j, k \in 1..N : j # k => f[j] # f[k]
  BY DEF Distinct
<1>7. \A k \in 1..N : f[k] # e
  BY InSet
<1>8. Distinct(r)
  <2>1. ASSUME NEW j \in 1..(N + 1), NEW k \in 1..(N + 1), j # k
        PROVE  r[j] # r[k]
    <3>1. CASE j = 1
      BY <1>3, <1>4, <1>7, <2>1, <3>1
    <3>2. CASE k = 1
      BY <1>3, <1>4, <1>7, <2>1, <3>2
    <3>3. CASE j # 1 /\ k # 1
      <4>1. j - 1 # k - 1
        BY <1>1, <2>1
      <4>2. QED
        BY <1>4, <1>6, <3>3, <4>1
    <3>4. QED
      BY <3>1, <3>2, <3>3
  <2>2. QED
    BY <1>2, <2>1 DEF Distinct
<1>9. ASSUME NEW x PROVE x \in ToSet(r) <=> x \in ToSet(f) \/ x = e
  <2>1. x \in ToSet(r) <=> \E k \in 1..(N + 1) : r[k] = x
    BY <1>2, InSet
  <2>2. x \in ToSet(f) <=> \E k \in 1..N : f[k] = x
    BY InSet
  <2>3. QED
    BY <1>3, <1>4, <1>5, <2>1, <2>2
<1>10. r # <<>>
  BY <1>1, <1>2
<1>11. Head(r) = e
  BY <1>2, <1>3, <1>10
<1>12. QED
  BY <1>2, <1>8, <1>9, <1>10, <1>11 DEF r

MemType == [level : [Indices -> Levels], allocated : [Indices -> BOOLEAN],
            bucket : [Levels -> Seq(Indices)],
            info : [allocated : Int, free : Int]]

\* The types of the fields of the heap's state.
LEMMA FieldTypes ==
    ASSUME NEW m \in MemType
    PROVE  /\ m.level \in [Indices -> Levels]
           /\ m.allocated \in [Indices -> BOOLEAN]
           /\ m.bucket \in [Levels -> Seq(Indices)]
           /\ m.info \in [allocated : Int, free : Int]
  BY DEF MemType

\* The blocks of each level have some bytes.
LEMMA SizeIsNat == \A l \in Levels : Size(l) \in Nat
<1>1. \A a, b \in Nat : a * b \in Nat
  OBVIOUS
<1>2. QED
  BY <1>1, PowFacts, LevelFacts DEF Size

\* What moving n bytes from free to allocated makes of memory_info.
LEMMA MovedFacts ==
    ASSUME NEW info \in [allocated : Int, free : Int], NEW n \in Int
    PROVE  /\ Moved(info, n) \in [allocated : Int, free : Int]
           /\ Moved(info, n).allocated = info.allocated + n
           /\ Moved(info, n).free = info.free - n
  BY DEF Moved

\* What removeBlock does to each field.
LEMMA RemoveBlockIs ==
    ASSUME NEW m \in MemType, NEW i \in Indices, NEW l \in Levels,
           m.level[i] = l, RemoveFirst(m.bucket[l], i) \in Seq(Indices)
    PROVE  /\ RemoveBlock(m, i) \in MemType
           /\ RemoveBlock(m, i).level = m.level
           /\ RemoveBlock(m, i).allocated = [m.allocated EXCEPT ![i] = TRUE]
           /\ RemoveBlock(m, i).bucket
                = [m.bucket EXCEPT ![l] = RemoveFirst(m.bucket[l], i)]
           /\ RemoveBlock(m, i).info = Moved(m.info, Size(l))
<1> DEFINE b == [m.bucket EXCEPT ![l] = RemoveFirst(m.bucket[l], i)]
           a == [m.allocated EXCEPT ![i] = TRUE]
           o == Moved(m.info, Size(l))
           r == [m EXCEPT !.bucket = b, !.allocated = a, !.info = o]
<1>1. RemoveBlock(m, i) = r
  BY DEF RemoveBlock
<1>2. b \in [Levels -> Seq(Indices)] /\ a \in [Indices -> BOOLEAN]
      /\ o \in [allocated : Int, free : Int]
  <2>1. Size(l) \in Int
    BY SizeIsNat
  <2>2. QED
    BY <2>1, FieldTypes, MovedFacts
<1> HIDE DEF b, a, o
<1>3. /\ r \in MemType /\ r.level = m.level /\ r.allocated = a
      /\ r.bucket = b /\ r.info = o
  BY <1>2 DEF MemType
<1>4. QED
  BY <1>1, <1>3 DEF a, b, o

\* What addBlock does to each field.
LEMMA AddBlockIs ==
    ASSUME NEW m \in MemType, NEW i \in Indices, NEW l \in Levels,
           m.level[i] = l, <<i>> \o m.bucket[l] \in Seq(Indices)
    PROVE  /\ AddBlock(m, i) \in MemType
           /\ AddBlock(m, i).level = m.level
           /\ AddBlock(m, i).allocated = [m.allocated EXCEPT ![i] = FALSE]
           /\ AddBlock(m, i).bucket
                = [m.bucket EXCEPT ![l] = <<i>> \o m.bucket[l]]
           /\ AddBlock(m, i).info = Moved(m.info, -Size(l))
<1> DEFINE b == [m.bucket EXCEPT ![l] = <<i>> \o m.bucket[l]]
           a == [m.allocated EXCEPT ![i] = FALSE]
           o == Moved(m.info, -Size(l))
           r == [m EXCEPT !.bucket = b, !.allocated = a, !.info = o]
<1>1. AddBlock(m, i) = r
  BY DEF AddBlock
<1>2. b \in [Levels -> Seq(Indices)] /\ a \in [Indices -> BOOLEAN]
      /\ o \in [allocated : Int, free : Int]
  <2>1. -Size(l) \in Int
    BY SizeIsNat
  <2>2. QED
    BY <2>1, FieldTypes, MovedFacts
<1> HIDE DEF b, a, o
<1>3. /\ r \in MemType /\ r.level = m.level /\ r.allocated = a
      /\ r.bucket = b /\ r.info = o
  BY <1>2 DEF MemType
<1>4. QED
  BY <1>1, <1>3 DEF a, b, o
-----------------------------------------------------------------------------
\* The blocks in the buckets.
FreeOf(m) == UNION {ToSet(m.bucket[l]) : l \in Levels}

BucketsOK(m) ==
    \A l \in Levels :
        /\ Distinct(m.bucket[l])
        /\ \A i \in ToSet(m.bucket[l]) :
              i \in Indices /\ m.level[i] = l /\ m.allocated[i] = FALSE

\* A free block is in the bucket of its level.
LEMMA FreeIs ==
    ASSUME NEW m, BucketsOK(m), NEW i
    PROVE  i \in FreeOf(m) <=>
              i \in Indices /\ m.level[i] \in Levels
              /\ i \in ToSet(m.bucket[m.level[i]])
  BY DEF FreeOf, BucketsOK

\* The units in the blocks in the buckets.
Room(m) ==
    {x \in Indices : \E i \in FreeOf(m) : i <= x /\ x < i + Pow2[m.level[i]]}

Counted(m) ==
    /\ m.info.free = Unit * Cardinality(Room(m))
    /\ m.info.allocated + m.info.free = Size(Top)

(***************************************************************************)
(* The blocks in g are in use and the others in their buckets, together    *)
(* they tile the heap, and the counters are right.  It holds between the   *)
(* calls that split and merge too, with the blocks being moved in g.       *)
(***************************************************************************)
Sound(m, g) ==
    /\ m \in MemType
    /\ g \cap FreeOf(m) = {}
    /\ Tile(g \cup FreeOf(m), m.level)
    /\ BucketsOK(m)
    /\ Counted(m)

Cells(i, l) == {x \in Indices : i <= x /\ x < i + Pow2[l]}

\* A block of level l has 1 << l units.
LEMMA CellsCounted ==
    ASSUME NEW l \in Levels, NEW i \in Indices, Aligned(i, l)
    PROVE  IsFiniteSet(Cells(i, l)) /\ Cardinality(Cells(i, l)) = Pow2[l]
<1>1. /\ i \in Int /\ Pow2[l] \in Nat /\ Pow2[l] > 0 /\ Pow2[Top] \in Nat
      /\ i + Pow2[l] <= Pow2[Top] /\ i \in Nat
  BY PowFacts, LevelFacts, IndicesAre, BlockInHeap
<1>2. Cells(i, l) = i..(i + Pow2[l] - 1)
  BY <1>1, IndicesAre DEF Cells
<1>3. i + Pow2[l] - 1 \in Int /\ ~(i > i + Pow2[l] - 1)
  BY <1>1
<1>4. /\ IsFiniteSet(i..(i + Pow2[l] - 1))
      /\ Cardinality(i..(i + Pow2[l] - 1)) = (i + Pow2[l] - 1) - i + 1
  BY <1>1, <1>3, FS_Interval
<1>5. (i + Pow2[l] - 1) - i + 1 = Pow2[l]
  BY <1>1
<1>6. QED
  BY <1>2, <1>4, <1>5

\* The free units can be counted.
LEMMA RoomFinite ==
    ASSUME NEW m PROVE IsFiniteSet(Room(m)) /\ Cardinality(Room(m)) \in Nat
<1>1. IsFiniteSet(Indices)
  <2>1. 0 \in Int /\ Pow2[Top] - 1 \in Int
    BY PowFacts, LevelFacts
  <2>2. QED
    BY <2>1, FS_Interval DEF Indices
<1>2. Room(m) \in SUBSET Indices
  BY DEF Room
<1>3. IsFiniteSet(Room(m))
  BY <1>1, <1>2, FS_Subset
<1>4. QED
  BY <1>3, FS_CardinalityType

\* A block that joins the free ones adds its units to theirs.
LEMMA RoomGrows ==
    ASSUME NEW m, NEW r, NEW g, Tile(g \cup FreeOf(m), m.level),
           NEW i \in g, i \notin FreeOf(m), r.level = m.level,
           FreeOf(r) = FreeOf(m) \cup {i}
    PROVE  Cardinality(Room(r)) = Cardinality(Room(m)) + Pow2[m.level[i]]
<1> DEFINE l == m.level[i]
           C == Cells(i, l)
<1>1. l \in Levels /\ i \in Indices /\ Aligned(i, l)
  BY DEF Tile
<1>2. IsFiniteSet(C) /\ Cardinality(C) = Pow2[l] /\ Pow2[l] \in Nat
  BY <1>1, CellsCounted, PowFacts
<1>3. Room(r) = Room(m) \cup C
  BY DEF Room, Cells
<1>4. Room(m) \cap C = {}
  <2> SUFFICES ASSUME NEW x \in Room(m), x \in C PROVE FALSE
    OBVIOUS
  <2>1. PICK j \in FreeOf(m) : j <= x /\ x < j + Pow2[m.level[j]]
    BY DEF Room
  <2>2. i <= x /\ x < i + Pow2[l] /\ x \in Nat /\ j # i
    BY IndicesAre DEF Cells
  <2>3. /\ m.level[j] \in Levels /\ j \in Indices
        /\ i + Pow2[l] <= j \/ j + Pow2[m.level[j]] <= i
    BY <2>2 DEF Tile, Beside
  <2>4. i \in Nat /\ j \in Nat /\ Pow2[m.level[j]] \in Nat
    BY <1>1, <2>3, IndicesAre, PowFacts
  <2>5. QED
    BY <1>2, <2>1, <2>2, <2>3, <2>4
<1>5. IsFiniteSet(Room(m)) /\ Cardinality(Room(m)) \in Nat
  BY RoomFinite
<1> HIDE DEF C
<1>6. Cardinality(Room(m) \cup C)
        = Cardinality(Room(m)) + Cardinality(C) - Cardinality(Room(m) \cap C)
  BY <1>2, <1>5, FS_Union
<1>7. Cardinality(Room(m) \cap C) = 0
  BY <1>4, FS_EmptySet
<1>8. QED
  BY <1>2, <1>3, <1>5, <1>6, <1>7
-----------------------------------------------------------------------------
\* removeBlock takes a free block into use.
LEMMA RemoveSound ==
    ASSUME NEW m, NEW g, Sound(m, g), NEW i \in FreeOf(m)
    PROVE  /\ Sound(RemoveBlock(m, i), g \cup {i})
           /\ RemoveBlock(m, i).level = m.level
           /\ FreeOf(RemoveBlock(m, i)) = FreeOf(m) \ {i}
           /\ RemoveBlock(m, i).allocated = [m.allocated EXCEPT ![i] = TRUE]
<1> DEFINE r == RemoveBlock(m, i)
           l == m.level[i]
           f == m.bucket[l]
           h == RemoveFirst(f, i)
<1>1. /\ m \in MemType /\ BucketsOK(m) /\ g \cap FreeOf(m) = {}
      /\ Tile(g \cup FreeOf(m), m.level)
  BY DEF Sound
<1>2. i \in Indices /\ l \in Levels /\ i \in ToSet(f)
  BY <1>1, FreeIs
<1>3. f \in Seq(Indices) /\ Distinct(f)
  BY <1>1, <1>2, FieldTypes DEF BucketsOK
<1> HIDE DEF f, l
<1>4. h \in Seq(Indices) /\ Distinct(h) /\ ToSet(h) = ToSet(f) \ {i}
  BY <1>2, <1>3, RemoveFirstFacts
<1>5. /\ r \in MemType /\ r.level = m.level
      /\ r.allocated = [m.allocated EXCEPT ![i] = TRUE]
      /\ r.bucket = [m.bucket EXCEPT ![l] = h]
      /\ r.info = Moved(m.info, Size(l))
  BY <1>1, <1>2, <1>4, RemoveBlockIs DEF l, f
<1> HIDE DEF r, h
<1>6. m.bucket \in [Levels -> Seq(Indices)]
      /\ m.allocated \in [Indices -> BOOLEAN]
      /\ m.info \in [allocated : Int, free : Int]
  BY <1>1, FieldTypes
<1>7. r.bucket[l] = h /\ \A k \in Levels : k # l => r.bucket[k] = m.bucket[k]
  BY <1>2, <1>5, <1>6
<1>8. \A k \in Levels : ToSet(r.bucket[k]) = ToSet(m.bucket[k]) \ {i}
  <2> SUFFICES ASSUME NEW k \in Levels
               PROVE  ToSet(r.bucket[k]) = ToSet(m.bucket[k]) \ {i}
    OBVIOUS
  <2>1. CASE k = l
    BY <1>4, <1>7, <2>1 DEF f
  <2>2. CASE k # l
    <3>1. i \notin ToSet(m.bucket[k])
      BY <1>1, <2>2 DEF BucketsOK, l
    <3>2. QED
      BY <1>7, <2>2, <3>1
  <2>3. QED
    BY <2>1, <2>2
<1>9. FreeOf(r) = FreeOf(m) \ {i}
  BY <1>8 DEF FreeOf
<1>10. BucketsOK(r)
  <2> SUFFICES ASSUME NEW k \in Levels
               PROVE  /\ Distinct(r.bucket[k])
                      /\ \A j \in ToSet(r.bucket[k]) :
                            /\ j \in Indices /\ r.level[j] = k
                            /\ r.allocated[j] = FALSE
    BY DEF BucketsOK
  <2>1. Distinct(r.bucket[k])
    BY <1>1, <1>4, <1>7 DEF BucketsOK
  <2>2. ASSUME NEW j \in ToSet(r.bucket[k])
        PROVE  j \in Indices /\ r.level[j] = k /\ r.allocated[j] = FALSE
    <3>1. j \in ToSet(m.bucket[k]) /\ j # i
      BY <1>8
    <3>2. j \in Indices /\ m.level[j] = k /\ m.allocated[j] = FALSE
      BY <1>1, <3>1 DEF BucketsOK
    <3>3. r.allocated[j] = m.allocated[j]
      BY <1>5, <1>6, <3>1, <3>2
    <3>4. QED
      BY <1>5, <3>2, <3>3
  <2>3. QED
    BY <2>1, <2>2
<1>11. (g \cup {i}) \cup FreeOf(r) = g \cup FreeOf(m)
  BY <1>9
<1>12. Tile((g \cup {i}) \cup FreeOf(r), r.level)
  BY <1>1, <1>5, <1>11
<1>13. (g \cup {i}) \cap FreeOf(r) = {}
  BY <1>1, <1>9
<1>14. Cardinality(Room(m)) = Cardinality(Room(r)) + Pow2[l]
  <2>1. i \in g \cup {i} /\ i \notin FreeOf(r) /\ m.level = r.level
        /\ FreeOf(m) = FreeOf(r) \cup {i}
    BY <1>5, <1>9
  <2>2. Cardinality(Room(m)) = Cardinality(Room(r)) + Pow2[r.level[i]]
    BY <1>12, <2>1, RoomGrows
  <2>3. QED
    BY <2>1, <2>2 DEF l
<1>15. Counted(r)
  <2>1. /\ m.info.free = Unit * Cardinality(Room(m))
        /\ m.info.allocated + m.info.free = Size(Top)
        /\ m.info.free \in Int /\ m.info.allocated \in Int
    BY <1>1, <1>6 DEF Sound, Counted
  <2>2. Size(l) \in Int /\ Size(l) = Pow2[l] * Unit /\ Unit \in Nat
        /\ Pow2[l] \in Nat /\ Cardinality(Room(r)) \in Nat
    BY <1>2, SizeIsNat, PowFacts, LevelFacts, RoomFinite DEF Size
  <2>3. /\ r.info.allocated = m.info.allocated + Size(l)
        /\ r.info.free = m.info.free - Size(l)
    <3>1. m.info \in [allocated : Int, free : Int] /\ Size(l) \in Int
      BY <1>6, <2>2
    <3>2. QED
      BY <1>5, <3>1, MovedFacts
  <2>4. \A a, p, u \in Nat : u * (a + p) - p * u = u * a
    OBVIOUS
  <2>5. r.info.free = Unit * Cardinality(Room(r))
    BY <1>14, <2>1, <2>2, <2>3, <2>4
  <2>6. r.info.allocated + r.info.free = Size(Top)
    BY <2>1, <2>2, <2>3
  <2>7. QED
    BY <2>5, <2>6 DEF Counted
<1>16. QED
  BY <1>5, <1>9, <1>10, <1>12, <1>13, <1>15 DEF r, Sound

\* The block that malloc or splitBlock takes next from the bucket of level l.
Newest(m, l, i) == m.bucket[l] # <<>> /\ Head(m.bucket[l]) = i

\* addBlock gives a block in use to the bucket of its level.
LEMMA AddSound ==
    ASSUME NEW m, NEW g, Sound(m, g), NEW i \in g
    PROVE  /\ Sound(AddBlock(m, i), g \ {i})
           /\ AddBlock(m, i).level = m.level
           /\ FreeOf(AddBlock(m, i)) = FreeOf(m) \cup {i}
           /\ AddBlock(m, i).allocated = [m.allocated EXCEPT ![i] = FALSE]
           /\ Newest(AddBlock(m, i), m.level[i], i)
<1> DEFINE r == AddBlock(m, i)
           l == m.level[i]
           f == m.bucket[l]
           h == <<i>> \o f
<1>1. /\ m \in MemType /\ BucketsOK(m) /\ g \cap FreeOf(m) = {}
      /\ Tile(g \cup FreeOf(m), m.level)
  BY DEF Sound
<1>2. i \in Indices /\ l \in Levels /\ i \notin FreeOf(m)
  BY <1>1 DEF Tile
<1>3. f \in Seq(Indices) /\ Distinct(f) /\ i \notin ToSet(f)
  <2>1. f \in Seq(Indices) /\ Distinct(f)
    BY <1>1, <1>2, FieldTypes DEF BucketsOK
  <2>2. i \notin ToSet(f)
    BY <1>2 DEF FreeOf
  <2>3. QED
    BY <2>1, <2>2
<1> HIDE DEF f, l
<1>4. /\ h \in Seq(Indices) /\ Distinct(h) /\ ToSet(h) = ToSet(f) \cup {i}
      /\ h # <<>> /\ Head(h) = i
  BY <1>2, <1>3, ConsSet
<1>5. /\ r \in MemType /\ r.level = m.level
      /\ r.allocated = [m.allocated EXCEPT ![i] = FALSE]
      /\ r.bucket = [m.bucket EXCEPT ![l] = h]
      /\ r.info = Moved(m.info, -Size(l))
  <2>1. m.level[i] = l /\ <<i>> \o m.bucket[l] \in Seq(Indices)
    BY <1>4 DEF l, f
  <2>2. /\ r \in MemType /\ r.level = m.level
        /\ r.allocated = [m.allocated EXCEPT ![i] = FALSE]
        /\ r.bucket = [m.bucket EXCEPT ![l] = <<i>> \o m.bucket[l]]
        /\ r.info = Moved(m.info, -Size(l))
    BY <1>1, <1>2, <2>1, AddBlockIs
  <2>3. h = <<i>> \o m.bucket[l]
    BY DEF f
  <2>4. QED
    BY <2>2, <2>3
<1> HIDE DEF r, h
<1>6. m.bucket \in [Levels -> Seq(Indices)]
      /\ m.allocated \in [Indices -> BOOLEAN]
      /\ m.info \in [allocated : Int, free : Int]
  BY <1>1, FieldTypes
<1>7. r.bucket[l] = h /\ \A k \in Levels : k # l => r.bucket[k] = m.bucket[k]
  BY <1>2, <1>5, <1>6
<1>8. /\ ToSet(r.bucket[l]) = ToSet(m.bucket[l]) \cup {i}
      /\ \A k \in Levels : k # l => ToSet(r.bucket[k]) = ToSet(m.bucket[k])
  BY <1>4, <1>7 DEF f
<1>9. FreeOf(r) = FreeOf(m) \cup {i}
  BY <1>2, <1>8 DEF FreeOf
<1>10. BucketsOK(r)
  <2> SUFFICES ASSUME NEW k \in Levels
               PROVE  /\ Distinct(r.bucket[k])
                      /\ \A j \in ToSet(r.bucket[k]) :
                            /\ j \in Indices /\ r.level[j] = k
                            /\ r.allocated[j] = FALSE
    BY DEF BucketsOK
  <2>1. Distinct(r.bucket[k])
    BY <1>1, <1>4, <1>7 DEF BucketsOK
  <2>2. ASSUME NEW j \in ToSet(r.bucket[k])
        PROVE  j \in Indices /\ r.level[j] = k /\ r.allocated[j] = FALSE
    <3>1. CASE j = i
      <4>1. k = l
        BY <1>2, <1>8, <3>1, FreeIs DEF FreeOf
      <4>2. r.allocated[j] = FALSE
        BY <1>2, <1>5, <1>6, <3>1
      <4>3. r.level[j] = k
        BY <1>5, <3>1, <4>1 DEF l
      <4>4. QED
        BY <1>2, <3>1, <4>2, <4>3
    <3>2. CASE j # i
      <4>1. j \in ToSet(m.bucket[k])
        BY <1>8, <3>2
      <4>2. j \in Indices /\ m.level[j] = k /\ m.allocated[j] = FALSE
        BY <1>1, <4>1 DEF BucketsOK
      <4>3. r.allocated[j] = m.allocated[j]
        BY <1>5, <1>6, <3>2, <4>2
      <4>4. QED
        BY <1>5, <4>2, <4>3
    <3>3. QED
      BY <3>1, <3>2
  <2>3. QED
    BY <2>1, <2>2
<1>11. (g \ {i}) \cup FreeOf(r) = g \cup FreeOf(m)
  BY <1>9
<1>12. Tile((g \ {i}) \cup FreeOf(r), r.level)
  BY <1>1, <1>5, <1>11
<1>13. (g \ {i}) \cap FreeOf(r) = {}
  BY <1>1, <1>9
<1>14. Cardinality(Room(r)) = Cardinality(Room(m)) + Pow2[l]
  <2>1. Cardinality(Room(r)) = Cardinality(Room(m)) + Pow2[m.level[i]]
    <3>1. /\ Tile(g \cup FreeOf(m), m.level) /\ i \notin FreeOf(m)
          /\ r.level = m.level /\ FreeOf(r) = FreeOf(m) \cup {i}
      BY <1>1, <1>2, <1>5, <1>9
    <3>2. QED
      BY <3>1, RoomGrows
  <2>2. QED
    BY <2>1 DEF l
<1>15. Counted(r)
  <2>1. /\ m.info.free = Unit * Cardinality(Room(m))
        /\ m.info.allocated + m.info.free = Size(Top)
        /\ m.info.free \in Int /\ m.info.allocated \in Int
    BY <1>1, <1>6 DEF Sound, Counted
  <2>2. Size(l) \in Int /\ Size(l) = Pow2[l] * Unit /\ Unit \in Nat
        /\ Pow2[l] \in Nat /\ Cardinality(Room(m)) \in Nat
    BY <1>2, SizeIsNat, PowFacts, LevelFacts, RoomFinite DEF Size
  <2>3. -Size(l) \in Int
    BY <2>2
  <2>4. /\ r.info.allocated = m.info.allocated + (-Size(l))
        /\ r.info.free = m.info.free - (-Size(l))
    <3> DEFINE n == -Size(l)
    <3>1. m.info \in [allocated : Int, free : Int] /\ n \in Int
          /\ r.info = Moved(m.info, n)
      BY <1>5, <1>6, <2>3
    <3> HIDE DEF n
    <3>2. r.info.allocated = m.info.allocated + n
          /\ r.info.free = m.info.free - n
      BY <3>1, MovedFacts
    <3>3. QED
      BY <3>2 DEF n
  <2>5. \A a, p, u \in Nat : u * a - (-(p * u)) = u * (a + p)
    OBVIOUS
  <2>6. r.info.free = Unit * Cardinality(Room(r))
    BY <1>14, <2>1, <2>2, <2>4, <2>5
  <2>7. r.info.allocated + r.info.free = Size(Top)
    BY <2>1, <2>2, <2>4
  <2>8. QED
    BY <2>6, <2>7 DEF Counted
<1>16. QED
  BY <1>4, <1>5, <1>7, <1>9, <1>10, <1>12, <1>13, <1>15 DEF r, l, Sound, Newest
-----------------------------------------------------------------------------
SetLevel(m, i, k) == [m EXCEPT !.level[i] = k]

\* Only the level of index i changes.
LEMMA LevelChanged ==
    ASSUME NEW m \in MemType, NEW i \in Indices, NEW k \in Levels
    PROVE  /\ SetLevel(m, i, k) \in MemType
           /\ SetLevel(m, i, k).level = [m.level EXCEPT ![i] = k]
           /\ SetLevel(m, i, k).allocated = m.allocated
           /\ SetLevel(m, i, k).bucket = m.bucket
           /\ SetLevel(m, i, k).info = m.info
<1> DEFINE r == SetLevel(m, i, k)
           v == [m.level EXCEPT ![i] = k]
           x == [m EXCEPT !.level = v]
<1>1. r = x
  BY DEF SetLevel
<1>2. v \in [Indices -> Levels]
  BY FieldTypes
<1> HIDE DEF v
<1>3. /\ x \in MemType /\ x.level = v /\ x.allocated = m.allocated
      /\ x.bucket = m.bucket /\ x.info = m.info
  BY <1>2 DEF MemType
<1>4. QED
  BY <1>1, <1>3 DEF v

\* The levels of blocks in use may change as long as the heap stays tiled.
LEMMA LevelsSound ==
    ASSUME NEW m, NEW g, Sound(m, g), NEW r \in MemType,
           r.allocated = m.allocated, r.bucket = m.bucket, r.info = m.info,
           \A h \in FreeOf(m) : r.level[h] = m.level[h],
           NEW u, u \cap FreeOf(m) = {}, Tile(u \cup FreeOf(m), r.level)
    PROVE  Sound(r, u) /\ FreeOf(r) = FreeOf(m)
<1>1. BucketsOK(m) /\ Counted(m)
  BY DEF Sound
<1>2. FreeOf(r) = FreeOf(m)
  BY DEF FreeOf
<1>3. Room(r) = Room(m)
  BY <1>2 DEF Room
<1>4. Counted(r)
  BY <1>1, <1>3 DEF Counted
<1>5. BucketsOK(r)
  <2>1. \A l \in Levels : \A i \in ToSet(m.bucket[l]) : i \in FreeOf(m)
    BY DEF FreeOf
  <2>2. QED
    BY <1>1, <2>1 DEF BucketsOK
<1>6. QED
  BY <1>2, <1>4, <1>5 DEF Sound

\* The head of a bucket is a free block of its level.
LEMMA HeadIsFree ==
    ASSUME NEW m, NEW g, Sound(m, g), NEW l \in Levels, m.bucket[l] # <<>>
    PROVE  /\ Head(m.bucket[l]) \in FreeOf(m)
           /\ m.level[Head(m.bucket[l])] = l
           /\ Head(m.bucket[l]) \in Indices
<1> DEFINE f == m.bucket[l]
<1>1. f \in Seq(Indices) /\ BucketsOK(m)
  BY FieldTypes DEF Sound
<1> HIDE DEF f
<1>2. f # <<>>
  BY DEF f
<1>3. Head(f) = f[1] /\ 1 \in 1..Len(f)
  BY <1>1, <1>2
<1>4. Head(f) \in ToSet(f)
  BY <1>1, <1>3, InSet
<1>5. QED
  BY <1>1, <1>4 DEF BucketsOK, FreeOf, f

\* Memory r is m with the free block i of level l + 1 split into i and j.
SplitInto(m, g, l, i, j, r) ==
    /\ Sound(r, g)
    /\ i \in FreeOf(m) /\ j \notin g \cup FreeOf(m)
    /\ FreeOf(r) = FreeOf(m) \cup {j}
    /\ Newest(r, l, i)
    /\ r.level[i] = l /\ r.level[j] = l
    /\ SameLevels(r.level, m.level, (g \cup FreeOf(m)) \ {i})
    /\ \A h \in g : r.allocated[h] = m.allocated[h]

\* splitBlock makes two blocks of the next lower level of the newest one of a
\* level, and the lower half is the newest of the two.
LEMMA SplitFacts ==
    ASSUME NEW m, NEW g, Sound(m, g), NEW l \in Levels, l < Top,
           NEW i, Newest(m, l + 1, i)
    PROVE  SplitInto(m, g, l, i, i + Pow2[l], SplitBlock(m, l + 1))
<1> DEFINE r == SplitBlock(m, l + 1)
           a == RemoveBlock(m, i)
           b == SetLevel(a, i, l)
           j == GetBuddy(b, i)
           c == SetLevel(b, j, l)
           d == AddBlock(c, j)
           u == (g \cup {i}) \cup {j}
<1>1. /\ m \in MemType /\ g \cap FreeOf(m) = {} /\ g \subseteq Indices
      /\ Tile(g \cup FreeOf(m), m.level) /\ FreeOf(m) \subseteq Indices
  BY DEF Sound, Tile
<1>2. /\ l + 1 \in Levels /\ Pow2[l + 1] = Pow2[l] + Pow2[l] /\ l + 1 # 0
      /\ (l + 1) - 1 = l
  <2>1. l + 1 \in Levels /\ Pow2[l + 1] = Pow2[l] + Pow2[l]
    BY HalvesFacts
  <2>2. l \in Nat
    BY LevelFacts
  <2>3. QED
    BY <2>1, <2>2
<1>3. r = AddBlock(d, i)
  BY <1>2 DEF SplitBlock, SetLevel, Newest
<1> HIDE DEF r
<1>4. i \in FreeOf(m) /\ m.level[i] = l + 1 /\ i \in Indices
  BY <1>2, HeadIsFree DEF Newest
<1>5. /\ Sound(a, g \cup {i}) /\ a.level = m.level
      /\ FreeOf(a) = FreeOf(m) \ {i}
      /\ a.allocated = [m.allocated EXCEPT ![i] = TRUE]
  BY <1>4, RemoveSound
<1> HIDE DEF a
<1>6. a \in MemType
  BY <1>5 DEF Sound
<1>7. /\ b \in MemType /\ b.level = [m.level EXCEPT ![i] = l]
      /\ b.allocated = a.allocated /\ b.bucket = a.bucket /\ b.info = a.info
  BY <1>4, <1>5, <1>6, LevelChanged
<1> HIDE DEF b
<1>8. m.level \in [Indices -> Levels] /\ m.allocated \in [Indices -> BOOLEAN]
  BY <1>1, FieldTypes
<1>9. b.level[i] = l
  BY <1>4, <1>7, <1>8
<1>10. Aligned(i, l + 1)
  BY <1>1, <1>4 DEF Tile
<1>11. j = i + Pow2[l]
  BY <1>9, <1>10, GetBuddyIs, HalvesAreBuddies
<1>12. i + Pow2[l] \in Indices /\ i + Pow2[l] # i
  <2>1. i + Pow2[l + 1] <= Pow2[Top]
    BY <1>2, <1>4, <1>10, BlockInHeap
  <2>2. i \in Nat /\ Pow2[l] \in Nat /\ Pow2[l] > 0 /\ Pow2[Top] \in Nat
    BY <1>4, IndicesAre, PowFacts, LevelFacts
  <2>3. QED
    BY <1>2, <2>1, <2>2, IndicesAre
<1> HIDE DEF j
<1>13. /\ c \in MemType /\ c.level = [b.level EXCEPT ![j] = l]
       /\ c.allocated = a.allocated /\ c.bucket = a.bucket /\ c.info = a.info
  BY <1>7, <1>11, <1>12, LevelChanged
<1> HIDE DEF c
<1>14. /\ c.level[i] = l /\ c.level[j] = l
       /\ \A h \in Indices : h # i /\ h # j => c.level[h] = m.level[h]
  BY <1>4, <1>7, <1>8, <1>11, <1>12, <1>13
<1>15. j \notin g \cup FreeOf(m) /\ Tile((g \cup FreeOf(m)) \cup {j}, c.level)
  <2> DEFINE H == g \cup FreeOf(m)
             v == [h \in Indices |-> IF h = i \/ h = j THEN l ELSE m.level[h]]
  <2>1. i \in H /\ Tile(H, m.level) /\ H \subseteq Indices
    BY <1>1, <1>4
  <2>2. v[i] = l /\ v[j] = l
    BY <1>4, <1>11, <1>12
  <2>3. c.level = v
    BY <1>7, <1>8, <1>13
  <2> HIDE DEF H, v
  <2>4. j \notin H
    <3>1. Aligned(j, l) /\ Pow2[l] \in Nat /\ Pow2[l] > 0
      BY <1>10, <1>11, HalvesAreBuddies, PowFacts
    <3>2. ASSUME j \in H PROVE FALSE
      <4>1. i + Pow2[l + 1] <= j \/ j + Pow2[m.level[j]] <= i
        BY <1>4, <1>11, <1>12, <2>1, <3>2 DEF Tile, Beside
      <4>2. m.level[j] \in Levels /\ i \in Nat /\ j \in Nat
        BY <1>4, <1>11, <1>12, <2>1, <3>2, IndicesAre DEF Tile
      <4>3. Pow2[m.level[j]] \in Nat
        BY <4>2, PowFacts
      <4>4. ~(i + (Pow2[l] + Pow2[l]) <= i + Pow2[l])
            /\ ~((i + Pow2[l]) + Pow2[m.level[j]] <= i)
        <5>1. \A x, p, q \in Nat : p > 0 =>
                 ~(x + (p + p) <= x + p) /\ ~((x + p) + q <= x)
          OBVIOUS
        <5>2. QED
          BY <3>1, <4>2, <4>3, <5>1
      <4>5. QED
        BY <1>2, <1>11, <4>1, <4>4
    <3>3. QED
      BY <3>2
  <2>5. SameLevels(c.level, m.level, H \ {i})
    BY <1>14, <2>1, <2>4 DEF SameLevels
  <2>6. Tile(H \cup {i + Pow2[l]}, c.level)
    <3>1. c.level[i] = l /\ c.level[i + Pow2[l]] = l /\ m.level[i] = l + 1
      BY <1>4, <1>11, <1>14
    <3>2. QED
      BY <2>1, <2>5, <3>1, TileSplit
  <2>7. QED
    BY <1>11, <2>4, <2>6 DEF H
<1>16. Sound(c, u) /\ FreeOf(c) = FreeOf(m) \ {i}
  <2>1. u \cap FreeOf(a) = {}
    BY <1>1, <1>5, <1>15
  <2>2. u \cup FreeOf(a) = (g \cup FreeOf(m)) \cup {j}
    BY <1>4, <1>5
  <2>3. Tile(u \cup FreeOf(a), c.level)
    BY <1>15, <2>2
  <2>4. \A h \in FreeOf(a) : c.level[h] = a.level[h]
    BY <1>1, <1>5, <1>14, <1>15
  <2> HIDE DEF u
  <2>5. Sound(c, u) /\ FreeOf(c) = FreeOf(a)
    BY <1>5, <1>13, <2>1, <2>3, <2>4, LevelsSound
  <2>6. QED
    BY <1>5, <2>5
<1>17. j \in u /\ u \ {j} = g \cup {i} /\ i \notin g /\ (g \cup {i}) \ {i} = g
  BY <1>1, <1>4, <1>11, <1>12, <1>15
<1> HIDE DEF u
<1>18. /\ Sound(d, g \cup {i}) /\ d.level = c.level
       /\ FreeOf(d) = FreeOf(c) \cup {j}
       /\ d.allocated = [c.allocated EXCEPT ![j] = FALSE]
  <2>1. /\ Sound(d, u \ {j}) /\ d.level = c.level
        /\ FreeOf(d) = FreeOf(c) \cup {j}
        /\ d.allocated = [c.allocated EXCEPT ![j] = FALSE]
    BY <1>16, <1>17, AddSound
  <2>2. QED
    BY <1>17, <2>1
<1> HIDE DEF d
<1>19. /\ Sound(r, g) /\ r.level = d.level
       /\ FreeOf(r) = FreeOf(d) \cup {i}
       /\ r.allocated = [d.allocated EXCEPT ![i] = FALSE]
       /\ Newest(r, d.level[i], i)
  <2> DEFINE w == g \cup {i}
  <2>1. i \in w /\ Sound(d, w) /\ w \ {i} = g
    BY <1>17, <1>18
  <2> HIDE DEF w
  <2>2. /\ Sound(r, w \ {i}) /\ r.level = d.level
        /\ FreeOf(r) = FreeOf(d) \cup {i}
        /\ r.allocated = [d.allocated EXCEPT ![i] = FALSE]
        /\ Newest(r, d.level[i], i)
    BY <1>3, <2>1, AddSound
  <2>3. QED
    BY <2>1, <2>2
<1>21. FreeOf(r) = FreeOf(m) \cup {i + Pow2[l]}
  BY <1>4, <1>11, <1>16, <1>18, <1>19
<1>22. \A h \in g : r.allocated[h] = m.allocated[h]
  <2> SUFFICES ASSUME NEW h \in g PROVE r.allocated[h] = m.allocated[h]
    OBVIOUS
  <2>1. h # i /\ h # j /\ h \in Indices
    BY <1>1, <1>4, <1>15
  <2>2. a.allocated[h] = m.allocated[h]
    BY <1>5, <1>8, <2>1
  <2>3. a.allocated \in [Indices -> BOOLEAN]
        /\ d.allocated \in [Indices -> BOOLEAN]
    BY <1>6, <1>18, FieldTypes DEF Sound
  <2>4. d.allocated[h] = a.allocated[h]
    BY <1>13, <1>18, <2>1, <2>3
  <2>5. r.allocated[h] = d.allocated[h]
    BY <1>19, <2>1, <2>3
  <2>6. QED
    BY <2>2, <2>4, <2>5
<1>23. SameLevels(r.level, m.level, (g \cup FreeOf(m)) \ {i})
  BY <1>1, <1>14, <1>15, <1>18, <1>19 DEF SameLevels
<1>24. Newest(r, l, i)
       /\ r.level[i] = l /\ r.level[i + Pow2[l]] = l
  BY <1>11, <1>14, <1>18, <1>19
<1>25. QED
  BY <1>4, <1>11, <1>15, <1>19, <1>21, <1>22, <1>23, <1>24 DEF SplitInto, r
-----------------------------------------------------------------------------
\* What programs hold is marked as allocated.
Flags(m, g) == \A h \in g : m.allocated[h] = TRUE

\* Memory r is m with the free buddies i and j of level l made one at low.
MergeInto(m, g, l, i, j, low, r) ==
    /\ l \in Levels /\ l < Top /\ m.level[j] = l
    /\ j \in FreeOf(m) /\ low \in {i, j}
    /\ Sound(r, g)
    /\ FreeOf(r) = (FreeOf(m) \ {i, j}) \cup {low}
    /\ r.level[low] = l + 1
    /\ SameLevels(r.level, m.level, (g \cup FreeOf(m)) \ {i, j})
    /\ \A h \in g : r.allocated[h] = m.allocated[h]

\* mergeBuddy makes one block of block i and its buddy, and of no other.
LEMMA MergeOnceFacts ==
    ASSUME NEW m, NEW g, Sound(m, g), Flags(m, g), NEW i \in FreeOf(m),
           CanMerge(m, i), NEW l, l = m.level[i], NEW j, j = GetBuddy(m, i),
           NEW low, low = Min({i, j}), NEW r, r = MergeOnce(m, i)
    PROVE  MergeInto(m, g, l, i, j, low, r)
<1> DEFINE H == g \cup FreeOf(m)
           a == RemoveBlock(m, i)
           b == RemoveBlock(a, j)
           c == SetLevel(b, low, l + 1)
           high == low + Pow2[l]
           u == H \ {high}
           w == (g \cup {i}) \cup {j}
           x == w \ {high}
<1>1. /\ m \in MemType /\ g \cap FreeOf(m) = {}
      /\ Tile(H, m.level) /\ H \subseteq Indices
  BY DEF Sound, Tile
<1>2. /\ m.level \in [Indices -> Levels]
      /\ m.allocated \in [Indices -> BOOLEAN]
  BY <1>1, FieldTypes
<1>3. i \in H /\ i \in Indices /\ l \in Levels /\ i \in Nat /\ Aligned(i, l)
  BY <1>1, <1>2, IndicesAre DEF Tile
<1>4. l < Top /\ m.level[j] = l /\ ~m.allocated[i] /\ ~m.allocated[j]
  BY DEF CanMerge
<1>5. j = BuddyOf(i, l)
  BY GetBuddyIs
<1>6. j \in H
  <2>1. i \in H /\ Tile(H, m.level) /\ m.level[i] < Top
    BY <1>1, <1>3, <1>4
  <2> HIDE DEF H
  <2>2. BuddyOf(i, m.level[i]) \in H
    BY <2>1, BuddyIsHead
  <2>3. QED
    BY <1>5, <2>2
<1>7. j \in FreeOf(m) /\ j \in Indices /\ j \in Nat
  <2>1. j \notin g
    BY <1>4, Zenon DEF Flags
  <2>2. QED
    BY <1>1, <1>6, <2>1, IndicesAre
<1>8. /\ Pow2[l] \in Nat /\ Pow2[l] > 0 /\ l + 1 \in Levels /\ l \in Nat
      /\ Pow2[l + 1] = Pow2[l] + Pow2[l]
  BY <1>3, <1>4, PowFacts, HalvesFacts, LevelFacts
<1>9. /\ Aligned(low, l + 1) /\ low \in Nat
      /\ \/ i = low /\ j = high
         \/ i = high /\ j = low
  <2>1. PICK k \in Nat : /\ Aligned(k, l + 1)
                         /\ \/ i = k /\ j = k + Pow2[l]
                            \/ i = k + Pow2[l] /\ j = k
    BY <1>3, <1>4, <1>5, BlockIsHalf
  <2>2. low \in {i, j} /\ low <= i /\ low <= j
    <3>1. {i, j} \in SUBSET Nat /\ {i, j} # {}
      BY <1>3, <1>7
    <3>2. Min({i, j}) \in {i, j} /\ \A y \in {i, j} : Min({i, j}) <= y
      BY <3>1, MinFacts
    <3>3. QED
      BY <3>2
  <2>3. low = k
    BY <1>3, <1>7, <1>8, <2>1, <2>2
  <2>4. QED
    BY <2>1, <2>3
<1>10. low # high /\ low \in H /\ high \in H /\ {i, j} = {low, high}
       /\ i # j /\ low \in Indices
  <2>1. low # high
    BY <1>8, <1>9
  <2>2. {i, j} = {low, high}
    BY <1>9
  <2>3. i \in H /\ j \in H /\ H \subseteq Indices
    BY <1>1, <1>3, <1>6
  <2> HIDE DEF H, high
  <2>4. QED
    BY <1>9, <2>1, <2>2, <2>3
<1> HIDE DEF H
<1>11. /\ Sound(a, g \cup {i}) /\ a.level = m.level
       /\ FreeOf(a) = FreeOf(m) \ {i}
       /\ a.allocated = [m.allocated EXCEPT ![i] = TRUE]
  BY RemoveSound
<1> HIDE DEF a
<1>12. /\ Sound(b, w) /\ b.level = a.level
       /\ FreeOf(b) = FreeOf(a) \ {j}
       /\ b.allocated = [a.allocated EXCEPT ![j] = TRUE]
  <2> DEFINE y == g \cup {i}
  <2>1. Sound(a, y) /\ j \in FreeOf(a)
    BY <1>7, <1>10, <1>11
  <2> HIDE DEF y
  <2>2. /\ Sound(b, y \cup {j}) /\ b.level = a.level
        /\ FreeOf(b) = FreeOf(a) \ {j}
        /\ b.allocated = [a.allocated EXCEPT ![j] = TRUE]
    BY <2>1, RemoveSound
  <2>3. QED
    BY <2>2 DEF y
<1> HIDE DEF b
<1>13. b \in MemType
  BY <1>12 DEF Sound
<1>14. /\ c \in MemType /\ c.level = [b.level EXCEPT ![low] = l + 1]
       /\ c.allocated = b.allocated /\ c.bucket = b.bucket /\ c.info = b.info
  <2> DEFINE k == l + 1
  <2>1. low \in Indices /\ k \in Levels
    BY <1>8, <1>10
  <2> HIDE DEF k
  <2>2. /\ SetLevel(b, low, k) \in MemType
        /\ SetLevel(b, low, k).level = [b.level EXCEPT ![low] = k]
        /\ SetLevel(b, low, k).allocated = b.allocated
        /\ SetLevel(b, low, k).bucket = b.bucket
        /\ SetLevel(b, low, k).info = b.info
    BY <1>13, <2>1, LevelChanged
  <2>3. QED
    BY <2>2 DEF k
<1>15. r = AddBlock(c, low)
  <2> DEFINE mm == RemoveBlock(RemoveBlock(m, i), j)
             k == mm.level[low] + 1
  <2>1. r = AddBlock([mm EXCEPT !.level[low] = k], low)
    BY DEF MergeOnce
  <2>2. mm = b
    BY DEF a, b
  <2>3. b.level[low] = l
    BY <1>4, <1>9, <1>11, <1>12
  <2> HIDE DEF mm
  <2>4. k = l + 1
    BY <2>2, <2>3
  <2> HIDE DEF k
  <2>5. QED
    BY <2>1, <2>2, <2>4 DEF SetLevel
<1> HIDE DEF c
<1>16. c.level[low] = l + 1
       /\ \A h \in Indices : h # low => c.level[h] = m.level[h]
  BY <1>2, <1>8, <1>10, <1>11, <1>12, <1>14
<1>17. Tile(u, c.level)
  <2>0. high = low + Pow2[l]
    OBVIOUS
  <2> HIDE DEF high
  <2>1. SameLevels(c.level, m.level, H \ {low, high})
    BY <1>1, <1>16 DEF SameLevels
  <2>2. /\ low \in H /\ high \in H /\ m.level[low] = l
        /\ m.level[high] = l
    BY <1>4, <1>9, <1>10
  <2>3. Tile(H, m.level)
    BY <1>1
  <2>4. Tile(H \ {high}, c.level)
    <3>1. l \in Levels /\ l < Top /\ Aligned(low, l + 1) /\ c.level[low] = l + 1
      BY <1>3, <1>4, <1>9, <1>16
    <3>2. Halves(H, m.level, l, low, high, c.level)
      BY <2>0, <2>1, <2>2, <2>3, <3>1 DEF Halves
    <3>3. QED
      BY <3>2, HalvesTile
  <2>5. QED
    BY <2>4
<1>18. Sound(c, x) /\ FreeOf(c) = FreeOf(b)
  <2>1. x \cap FreeOf(b) = {}
    BY <1>1, <1>11, <1>12
  <2>2. x \cup FreeOf(b) = u
    BY <1>7, <1>9, <1>10, <1>11, <1>12 DEF H
  <2>3. Tile(x \cup FreeOf(b), c.level)
    BY <1>17, <2>2
  <2>4. \A h \in FreeOf(b) : c.level[h] = b.level[h]
    BY <1>1, <1>9, <1>10, <1>11, <1>12, <1>16 DEF H
  <2> HIDE DEF x
  <2>5. QED
    BY <1>12, <1>14, <2>1, <2>3, <2>4, LevelsSound
<1>19. low \in x /\ x \ {low} = g
  BY <1>1, <1>7, <1>9, <1>10
<1> HIDE DEF x
<1>20. /\ Sound(r, g) /\ r.level = c.level
       /\ FreeOf(r) = FreeOf(c) \cup {low}
       /\ r.allocated = [c.allocated EXCEPT ![low] = FALSE]
  <2>1. /\ Sound(r, x \ {low}) /\ r.level = c.level
        /\ FreeOf(r) = FreeOf(c) \cup {low}
        /\ r.allocated = [c.allocated EXCEPT ![low] = FALSE]
    BY <1>15, <1>18, <1>19, AddSound
  <2>2. QED
    BY <1>19, <2>1
<1>21. FreeOf(r) = (FreeOf(m) \ {i, j}) \cup {low}
  BY <1>11, <1>12, <1>18, <1>20
<1>22. ASSUME NEW h \in g PROVE r.allocated[h] = m.allocated[h]
  <2>1. h # i /\ h # j /\ h # low /\ h \in Indices
    BY <1>1, <1>7, <1>9 DEF H
  <2>2. /\ a.allocated \in [Indices -> BOOLEAN]
        /\ b.allocated \in [Indices -> BOOLEAN]
        /\ c.allocated \in [Indices -> BOOLEAN]
    BY <1>11, <1>13, <1>14, FieldTypes DEF Sound
  <2>3. a.allocated[h] = m.allocated[h]
    BY <1>2, <1>11, <2>1
  <2>4. b.allocated[h] = a.allocated[h]
    BY <1>12, <2>1, <2>2
  <2>5. r.allocated[h] = c.allocated[h]
    BY <1>20, <2>1, <2>2
  <2>6. QED
    BY <1>14, <2>3, <2>4, <2>5
<1>23. SameLevels(r.level, m.level, (g \cup FreeOf(m)) \ {i, j})
  BY <1>1, <1>10, <1>16, <1>20 DEF SameLevels, H
<1>24. r.level[low] = l + 1 /\ low \in {i, j}
  BY <1>10, <1>16, <1>20
<1>25. QED
  BY <1>3, <1>4, <1>7, <1>20, <1>21, <1>22, <1>23, <1>24 DEF MergeInto
-----------------------------------------------------------------------------
\* No two of the free blocks in F are buddies of one level.
MergedIn(m, F) ==
    \A i, j \in F :
        m.level[i] < Top /\ m.level[j] = m.level[i] =>
            j # BuddyOf(i, m.level[i])

\* Free blocks that are taken away leave the others merged.
LEMMA MergedInPart ==
    ASSUME NEW m, NEW r, NEW F, NEW G \in SUBSET F, MergedIn(m, F),
           SameLevels(r.level, m.level, G)
    PROVE  MergedIn(r, G)
  BY DEF MergedIn, SameLevels

\* The buddy of the buddy is the block itself.
LEMMA BuddyOfBuddy ==
    ASSUME NEW l \in Levels, l < Top, NEW i, Aligned(i, l)
    PROVE  BuddyOf(BuddyOf(i, l), l) = i
<1>1. PICK low \in Nat : /\ Aligned(low, l + 1)
                         /\ \/ i = low /\ BuddyOf(i, l) = low + Pow2[l]
                            \/ i = low + Pow2[l] /\ BuddyOf(i, l) = low
  BY BlockIsHalf
<1>2. BuddyOf(low, l) = low + Pow2[l] /\ BuddyOf(low + Pow2[l], l) = low
  BY <1>1, HalvesAreBuddies
<1>3. QED
  BY <1>1, <1>2

\* A step that touches no flag of a held block keeps their flags.
LEMMA FlagsKept ==
    ASSUME NEW m, NEW r, NEW g, Flags(m, g),
           \A h \in g : r.allocated[h] = m.allocated[h]
    PROVE  Flags(r, g)
  BY Zenon DEF Flags

\* A free block is aligned at its level and has its flag down.
LEMMA FreeBlockFacts ==
    ASSUME NEW m, NEW g, Sound(m, g), NEW i \in FreeOf(m)
    PROVE  /\ i \in Indices /\ m.level[i] \in Levels
           /\ Aligned(i, m.level[i]) /\ m.allocated[i] = FALSE
<1>1. BucketsOK(m) /\ Tile(g \cup FreeOf(m), m.level)
  BY DEF Sound
<1>2. i \in Indices /\ m.level[i] \in Levels /\ Aligned(i, m.level[i])
  BY <1>1 DEF Tile
<1>3. i \in ToSet(m.bucket[m.level[i]])
  BY <1>1, FreeIs
<1>4. QED
  BY <1>1, <1>2, <1>3 DEF BucketsOK

\* Where mergeBuddy stops no two free blocks are buddies any more.
LEMMA NoMoreMerges ==
    ASSUME NEW m, NEW g, Sound(m, g), NEW i \in FreeOf(m), ~CanMerge(m, i),
           MergedIn(m, FreeOf(m) \ {i})
    PROVE  MergedIn(m, FreeOf(m))
<1> SUFFICES ASSUME NEW a \in FreeOf(m), NEW b \in FreeOf(m), NEW l,
                    l = m.level[a], l < Top, m.level[b] = l,
                    b = BuddyOf(a, l)
             PROVE  FALSE
  BY DEF MergedIn
<1>1. l \in Levels /\ Aligned(a, l)
  BY FreeBlockFacts
<1>2. BuddyOf(b, l) = a
  BY <1>1, BuddyOfBuddy
<1>3. m.allocated[a] = FALSE /\ m.allocated[b] = FALSE
  BY FreeBlockFacts
<1>4. CASE i = a
  <2>1. GetBuddy(m, i) = b
    BY <1>4, GetBuddyIs
  <2>2. CanMerge(m, i)
    BY <1>3, <1>4, <2>1 DEF CanMerge
  <2>3. QED
    BY <2>2
<1>5. CASE i = b
  <2>1. GetBuddy(m, i) = a
    BY <1>2, <1>5, GetBuddyIs
  <2>2. CanMerge(m, i)
    BY <1>3, <1>5, <2>1 DEF CanMerge
  <2>3. QED
    BY <2>2
<1>6. CASE i # a /\ i # b
  BY <1>6 DEF MergedIn
<1>7. QED
  BY <1>4, <1>5, <1>6

\* One call of mergeBuddy.
MergeStep(s) ==
    IF CanMerge(s.m, s.i)
    THEN [m |-> MergeOnce(s.m, s.i), i |-> Min({s.i, GetBuddy(s.m, s.i)})]
    ELSE s

\* What every call of mergeBuddy finds: only the block at hand may have a
\* free buddy, and the blocks in use are as they were.
Merging(s, m, g) ==
    /\ Sound(s.m, g) /\ Flags(s.m, g)
    /\ s.i \in FreeOf(s.m)
    /\ MergedIn(s.m, FreeOf(s.m) \ {s.i})
    /\ SameLevels(s.m.level, m.level, g)

\* One call of mergeBuddy keeps the heap sound and leaves at most the block
\* it goes on with beside a free buddy.
LEMMA MergeStepKeeps ==
    ASSUME NEW s, NEW m, NEW g, Merging(s, m, g), NEW t, t = MergeStep(s),
           CanMerge(s.m, s.i)
    PROVE  /\ Merging(t, m, g) /\ t.m \in MemType /\ t.i \in Indices
           /\ t = [m |-> t.m, i |-> t.i]
           /\ t.m.level[t.i] = s.m.level[s.i] + 1
<1> DEFINE a == s.m
           i == s.i
           j == GetBuddy(a, i)
           low == Min({i, j})
           r == MergeOnce(a, i)
<1>1. t = [m |-> r, i |-> low]
  BY DEF MergeStep
<1>2. t.m = r /\ t.i = low /\ t = [m |-> t.m, i |-> t.i]
  BY <1>1
<1>3. /\ Sound(a, g) /\ Flags(a, g) /\ i \in FreeOf(a)
      /\ MergedIn(a, FreeOf(a) \ {i}) /\ SameLevels(a.level, m.level, g)
      /\ CanMerge(a, i)
  BY DEF Merging
<1> HIDE DEF a, i
<1>4. /\ j \in FreeOf(a) /\ low \in {i, j} /\ Sound(r, g)
      /\ FreeOf(r) = (FreeOf(a) \ {i, j}) \cup {low}
      /\ r.level[low] = a.level[i] + 1
      /\ SameLevels(r.level, a.level, (g \cup FreeOf(a)) \ {i, j})
      /\ \A h \in g : r.allocated[h] = a.allocated[h]
  <2> DEFINE l == a.level[i]
  <2>1. /\ l = a.level[i] /\ j = GetBuddy(a, i) /\ low = Min({i, j})
        /\ r = MergeOnce(a, i)
    OBVIOUS
  <2> HIDE DEF l, j, low, r
  <2>2. MergeInto(a, g, l, i, j, low, r)
    BY <1>3, <2>1, MergeOnceFacts
  <2>3. QED
    BY <2>1, <2>2 DEF MergeInto
<1> HIDE DEF r, low, j
<1>5. g \cap FreeOf(a) = {} /\ r \in MemType
  BY <1>3, <1>4 DEF Sound
<1>6. Flags(r, g)
  BY <1>3, <1>4, FlagsKept
<1>7. low \in FreeOf(r) /\ low \in Indices
  <2>1. low \in FreeOf(r)
    BY <1>4
  <2>2. QED
    BY <1>4, <2>1, FreeBlockFacts
<1>8. SameLevels(r.level, m.level, g)
  BY <1>3, <1>4, <1>5 DEF SameLevels
<1>9. MergedIn(r, FreeOf(r) \ {low})
  <2> DEFINE G == FreeOf(r) \ {low}
             F == FreeOf(a) \ {i}
  <2>1. G \in SUBSET F /\ SameLevels(r.level, a.level, G)
    BY <1>4 DEF SameLevels
  <2> HIDE DEF G, F
  <2>2. MergedIn(a, F)
    BY <1>3 DEF F
  <2>3. MergedIn(r, G)
    BY <2>1, <2>2, MergedInPart
  <2>4. QED
    BY <2>3 DEF G
<1>10. Merging(t, m, g)
  BY <1>2, <1>4, <1>6, <1>7, <1>8, <1>9 DEF Merging
<1>11. QED
  BY <1>2, <1>4, <1>5, <1>7, <1>10 DEF a, i
\* mergeBuddy leaves no two free buddies and does not touch what is in use.
LEMMA MergeBuddyFacts ==
    ASSUME NEW m, NEW g, Sound(m, g), Flags(m, g), NEW i \in FreeOf(m),
           MergedIn(m, FreeOf(m) \ {i}), NEW r, r = MergeBuddy(m, i)
    PROVE  /\ Sound(r, g) /\ Flags(r, g) /\ MergedIn(r, FreeOf(r))
           /\ SameLevels(r.level, m.level, g)
<1> DEFINE S == {s \in [m : MemType, i : Indices] : Merging(s, m, g)}
           one == [s \in S |-> MergeStep(s)]
           step == [k \in 1..Top |-> one]
           first == [m |-> m, i |-> i]
<1>1. first \in S
  <2>1. first.m = m /\ first.i = i
    OBVIOUS
  <2>2. m \in MemType /\ i \in Indices
    BY FreeBlockFacts DEF Sound
  <2>3. SameLevels(m.level, m.level, g)
    BY DEF SameLevels
  <2>4. Merging(first, m, g)
    BY <2>1, <2>3 DEF Merging
  <2>5. QED
    BY <2>2, <2>4
<1>2. ASSUME NEW s \in S
      PROVE  /\ MergeStep(s) \in S
             /\ CanMerge(s.m, s.i) =>
                   MergeStep(s).m.level[MergeStep(s).i] = s.m.level[s.i] + 1
  <2>0. Merging(s, m, g)
    OBVIOUS
  <2>1. CASE CanMerge(s.m, s.i)
    <3> DEFINE t == MergeStep(s)
    <3>1. /\ Merging(t, m, g) /\ t.m \in MemType /\ t.i \in Indices
          /\ t = [m |-> t.m, i |-> t.i]
          /\ t.m.level[t.i] = s.m.level[s.i] + 1
      BY <2>0, <2>1, MergeStepKeeps
    <3> HIDE DEF t
    <3>2. t \in [m : MemType, i : Indices]
      BY <3>1
    <3>3. t \in S
      BY <3>1, <3>2
    <3>4. QED
      BY <3>1, <3>3 DEF t
  <2>2. CASE ~CanMerge(s.m, s.i)
    BY <2>2 DEF MergeStep
  <2>3. QED
    BY <2>1, <2>2
<1> HIDE DEF S, first
<1>3. step \in [1..Top -> [S -> S]]
  BY <1>2
<1>4. \A k \in 1..Top, s \in S : step[k][s] = MergeStep(s)
  OBVIOUS
<1> HIDE DEF one, step
<1>5. PICK f : Stages(f, S, Top, first, step)
  BY <1>1, <1>3, StagesExist, LevelFacts
<1>6. f = [k \in Levels |-> IF k = 0 THEN first ELSE MergeStep(f[k - 1])]
  <2>1. f \in [Levels -> S] /\ f[0] = first
    BY <1>5 DEF Stages, Levels
  <2>2. ASSUME NEW k \in Levels, k # 0 PROVE f[k] = MergeStep(f[k - 1])
    <3>1. k \in 1..Top /\ k - 1 \in Levels
      BY <2>2, LevelFacts DEF Levels
    <3>2. f[k] = step[k][f[k - 1]] /\ f[k - 1] \in S
      BY <1>5, <2>1, <3>1 DEF Stages
    <3>3. QED
      BY <1>4, <3>1, <3>2
  <2>3. QED
    BY <2>1, <2>2
<1> DEFINE up == CHOOSE h : h = [k \in Levels |->
                    IF k = 0 THEN first ELSE MergeStep(h[k - 1])]
<1>7. up = [k \in Levels |-> IF k = 0 THEN first ELSE MergeStep(up[k - 1])]
  BY <1>6
<1>8. r = up[Top].m
  BY DEF MergeBuddy, MergeStep, first
<1> HIDE DEF up
<1> DEFINE Good(k) == /\ up[k] \in S
                      /\ \/ ~CanMerge(up[k].m, up[k].i)
                         \/ up[k].m.level[up[k].i] >= k
           T == {k \in Levels : ~Good(k)}
<1>9. \A s \in S : /\ Merging(s, m, g) /\ s.i \in FreeOf(s.m) /\ Sound(s.m, g)
                   /\ s.m.level[s.i] \in Levels
  <2> SUFFICES ASSUME NEW s \in S
               PROVE  /\ Merging(s, m, g) /\ s.i \in FreeOf(s.m)
                      /\ Sound(s.m, g) /\ s.m.level[s.i] \in Levels
    OBVIOUS
  <2>1. Merging(s, m, g)
    BY DEF S
  <2>2. s.i \in FreeOf(s.m) /\ Sound(s.m, g)
    BY <2>1 DEF Merging
  <2>3. QED
    BY <2>1, <2>2, FreeBlockFacts
<1>10. T = {}
  <2> SUFFICES ASSUME T # {} PROVE FALSE
    OBVIOUS
  <2>1. T \in SUBSET Nat
    BY LevelFacts
  <2>2. PICK k \in T : \A y \in T : k <= y
    BY <2>1, LeastNat
  <2>3. k \in Levels /\ k \in Nat /\ ~Good(k)
    BY LevelFacts
  <2>4. CASE k = 0
    <3>1. up[k] = first
      BY <1>7, <2>3, <2>4
    <3>2. up[k] \in S
      BY <1>1, <3>1
    <3>3. up[k].m.level[up[k].i] >= k
      <4> DEFINE v == up[k].m.level[up[k].i]
      <4>1. v \in Levels
        BY <1>9, <3>2
      <4> HIDE DEF v
      <4>2. v \in Nat
        BY <4>1, LevelFacts
      <4>3. v >= k
        BY <2>4, <4>2
      <4>4. QED
        BY <4>3 DEF v
    <3>4. QED
      BY <2>3, <3>2, <3>3
  <2>5. CASE k # 0
    <3>1. k - 1 \in Levels /\ ~(k <= k - 1)
      BY <2>3, <2>5, LevelFacts DEF Levels
    <3>2. Good(k - 1)
      BY <2>2, <3>1
    <3> DEFINE s == up[k - 1]
    <3>3. up[k] = MergeStep(s)
      BY <1>7, <2>3, <2>5
    <3>4. s \in S /\ (~CanMerge(s.m, s.i) \/ s.m.level[s.i] >= k - 1)
      BY <3>2
    <3> HIDE DEF s
    <3>5. up[k] \in S
      BY <1>2, <3>3, <3>4
    <3>6. CASE CanMerge(s.m, s.i)
      <4>1. s.m.level[s.i] >= k - 1 /\ s.m.level[s.i] \in Nat
        BY <1>9, <3>4, <3>6, LevelFacts
      <4>2. up[k].m.level[up[k].i] = s.m.level[s.i] + 1
        BY <1>2, <3>3, <3>4, <3>6
      <4>3. up[k].m.level[up[k].i] >= k
        BY <2>3, <4>1, <4>2
      <4>4. QED
        BY <2>3, <3>5, <4>3
    <3>7. CASE ~CanMerge(s.m, s.i)
      <4>1. up[k] = s
        BY <3>3, <3>7 DEF MergeStep
      <4>2. QED
        BY <2>3, <3>5, <3>7, <4>1
    <3>8. QED
      BY <3>6, <3>7
  <2>6. QED
    BY <2>4, <2>5
<1> DEFINE s == up[Top]
<1>11. s \in S /\ (~CanMerge(s.m, s.i) \/ s.m.level[s.i] >= Top)
  BY <1>10, LevelFacts
<1> HIDE DEF s
<1>12. ~CanMerge(s.m, s.i)
  <2> DEFINE v == s.m.level[s.i]
  <2>1. v \in Levels
    BY <1>9, <1>11
  <2> HIDE DEF v
  <2>2. v \in Nat /\ Top \in Nat
    BY <2>1, LevelFacts
  <2>3. v >= Top => ~(v < Top)
    BY <2>2
  <2>4. QED
    BY <1>11, <2>3 DEF CanMerge, v
<1>13. Merging(s, m, g)
  BY <1>9, <1>11
<1>14. /\ Sound(s.m, g) /\ Flags(s.m, g) /\ SameLevels(s.m.level, m.level, g)
       /\ s.i \in FreeOf(s.m) /\ MergedIn(s.m, FreeOf(s.m) \ {s.i})
  BY <1>13 DEF Merging
<1>15. MergedIn(s.m, FreeOf(s.m))
  BY <1>12, <1>14, NoMoreMerges
<1>16. r = s.m
  BY <1>8 DEF s
<1>17. QED
  BY <1>14, <1>15, <1>16
-----------------------------------------------------------------------------
\* The blocks of the level that malloc computes are large enough: both
\* roundings, the one of log2n and the one of the division, are made up for.
LEMMA LevelForFacts ==
    ASSUME NEW n \in 0..Size(Top)
    PROVE  LevelFor(n) \in Levels /\ Size(LevelFor(n)) >= n
<1> DEFINE u == Unit
           q == n \div Unit
           l == Log2n(q)
<1>1. Size(Top) = Pow2[Top] * u /\ Pow2[Top] \in Nat /\ u \in Nat /\ u > 0
      /\ Top \in Levels
  BY PowFacts, LevelFacts DEF Size
<1>2. n \in Nat /\ n <= Pow2[Top] * u
  <2>1. Pow2[Top] * u \in Nat
    BY <1>1
  <2>2. QED
    BY <1>1, <2>1
<1>3. q \in Nat /\ q * u <= n /\ n < q * u + u
  <2>1. \A a, b \in Nat : b > 0 =>
           a \div b \in Nat /\ (a \div b) * b <= a /\ a < (a \div b) * b + b
    OBVIOUS
  <2>2. QED
    BY <1>1, <1>2, <2>1
<1> HIDE DEF u, q
<1>4. q <= Pow2[Top]
  <2>1. q * u <= Pow2[Top] * u
    BY <1>1, <1>2, <1>3
  <2>2. \A a, b, c \in Nat : c > 0 /\ a * c <= b * c => a <= b
    OBVIOUS
  <2>3. QED
    BY <1>1, <1>3, <2>1, <2>2
<1>5. l \in Levels /\ q + 1 <= 2 * Pow2[l]
  <2>1. CASE q = 0
    <3>1. l = 0
      BY <2>1 DEF Log2n
    <3>2. QED
      BY <2>1, <3>1, PowFacts, LevelFacts
  <2>2. CASE q # 0
    <3> DEFINE K == {k \in Levels : q < 2 * Pow2[k]}
    <3>1. Top \in K /\ K \in SUBSET Nat
      <4>1. q < 2 * Pow2[Top]
        BY <1>1, <1>3, <1>4, <2>2
      <4>2. QED
        BY <1>1, <4>1, LevelFacts
    <3>2. PICK k \in K : \A y \in K : k <= y
      BY <3>1, LeastNat
    <3>3. k \in Levels /\ q < 2 * Pow2[k] /\ k \in Nat /\ Pow2[k] \in Nat
      BY LevelFacts, PowFacts
    <3>4. Pow2[k] <= q
      <4>1. CASE k = 0
        BY <1>3, <2>2, <4>1, PowFacts
      <4>2. CASE k # 0
        <5>1. k - 1 \in Levels /\ ~(k <= k - 1) /\ k > 0
          BY <3>3, <4>2, LevelFacts DEF Levels
        <5>2. ~(q < 2 * Pow2[k - 1])
          BY <3>2, <5>1
        <5>3. Pow2[k] = 2 * Pow2[k - 1]
          BY <3>3, <5>1, PowFacts
        <5>4. QED
          BY <1>3, <3>3, <5>2, <5>3
      <4>3. QED
        BY <4>1, <4>2
    <3> DEFINE c == CHOOSE j \in Levels : Pow2[j] <= q /\ q < 2 * Pow2[j]
    <3>5. c \in Levels /\ q < 2 * Pow2[c]
      BY <3>3, <3>4
    <3>6. l = c
      BY <2>2 DEF Log2n
    <3> HIDE DEF c
    <3>7. Pow2[c] \in Nat
      BY <3>5, PowFacts
    <3>8. QED
      BY <1>3, <3>5, <3>6, <3>7
  <2>3. QED
    BY <2>1, <2>2
<1>6. LevelFor(n) = IF Size(l) < n THEN l + 1 ELSE l
  BY DEF LevelFor, q
<1> HIDE DEF l
<1>7. Size(l) \in Nat /\ Pow2[l] \in Nat
  BY <1>5, SizeIsNat, PowFacts
<1>8. CASE ~(Size(l) < n)
  BY <1>2, <1>5, <1>6, <1>7, <1>8
<1>9. CASE Size(l) < n
  <2>1. l # Top
    BY <1>1, <1>2, <1>7, <1>9
  <2>2. l < Top
    BY <1>5, <2>1, LevelFacts
  <2>3. l + 1 \in Levels /\ Pow2[l + 1] = Pow2[l] + Pow2[l]
    BY <1>5, <2>2, HalvesFacts
  <2> DEFINE p == Pow2[l + 1]
  <2>4. p \in Nat /\ q + 1 <= p
    BY <1>3, <1>5, <1>7, <2>3
  <2>5. Size(l + 1) = p * u
    BY DEF Size, u
  <2> HIDE DEF p
  <2>6. \A a, b, v \in Nat : a + 1 <= b => a * v + v <= b * v
    OBVIOUS
  <2>7. q * u + u <= p * u
    BY <1>1, <1>3, <2>4, <2>6
  <2>8. p * u \in Nat /\ q * u \in Nat
    BY <1>1, <1>3, <2>4
  <2>9. n <= p * u
    BY <1>1, <1>2, <1>3, <2>7, <2>8
  <2>10. QED
    BY <1>2, <1>6, <1>9, <2>3, <2>5, <2>8, <2>9
<1>10. QED
  BY <1>8, <1>9

\* What malloc has after some of its splits, with blocks of level l to take.
Splitting(a, m, g, l) ==
    /\ Sound(a, g) /\ Flags(a, g) /\ SameLevels(a.level, m.level, g)
    /\ \E i : Newest(a, l, i) /\ MergedIn(a, FreeOf(a) \ {i})

\* One more split, with blocks of the level below to take.
LEMMA SplitKeeps ==
    ASSUME NEW a, NEW m, NEW g, NEW l \in Levels, l < Top,
           Splitting(a, m, g, l + 1)
    PROVE  Splitting(SplitBlock(a, l + 1), m, g, l)
<1> DEFINE r == SplitBlock(a, l + 1)
<1>1. PICK i : Newest(a, l + 1, i) /\ MergedIn(a, FreeOf(a) \ {i})
  BY DEF Splitting
<1>2. /\ Sound(a, g) /\ Flags(a, g) /\ SameLevels(a.level, m.level, g)
  BY DEF Splitting
<1> DEFINE j == i + Pow2[l]
<1>3. /\ Sound(r, g)
      /\ i \in FreeOf(a) /\ j \notin g \cup FreeOf(a)
      /\ FreeOf(r) = FreeOf(a) \cup {j}
      /\ Newest(r, l, i)
      /\ r.level[i] = l /\ r.level[j] = l
      /\ SameLevels(r.level, a.level, (g \cup FreeOf(a)) \ {i})
      /\ \A h \in g : r.allocated[h] = a.allocated[h]
  <2>1. SplitInto(a, g, l, i, j, r)
    BY <1>1, <1>2, SplitFacts
  <2> HIDE DEF r, j
  <2>2. QED
    BY <2>1 DEF SplitInto
<1> HIDE DEF r, j
<1>4. Flags(r, g)
  BY <1>2, <1>3, FlagsKept
<1>5. i \notin g
  BY <1>2, <1>3 DEF Sound
<1>6. SameLevels(r.level, m.level, g)
  BY <1>2, <1>3, <1>5 DEF SameLevels
<1>7. j \in FreeOf(r) /\ i \in FreeOf(r)
  BY <1>3
<1>8. i # j
  BY <1>3
<1>9. BuddyOf(j, l) = i /\ Aligned(i, l) /\ Aligned(j, l)
  <2>1. Aligned(i, l + 1)
    <3>1. a.level[i] = l + 1 /\ l + 1 \in Levels
      <4>1. l + 1 \in Levels
        BY HalvesFacts
      <4>2. QED
        BY <1>1, <1>2, <4>1, HeadIsFree DEF Newest
    <3>2. QED
      BY <1>2, <1>3, <3>1, FreeBlockFacts
  <2>2. QED
    BY <2>1, HalvesAreBuddies DEF j
<1>10. MergedIn(r, FreeOf(r) \ {i})
  <2> SUFFICES ASSUME NEW x \in FreeOf(r), NEW y \in FreeOf(r),
                      x # i, y # i, r.level[x] < Top,
                      r.level[y] = r.level[x], y = BuddyOf(x, r.level[x])
               PROVE  FALSE
    BY DEF MergedIn
  <2>1. CASE x = j
    BY <1>3, <1>9, <2>1
  <2>2. CASE y = j
    <3>1. r.level[x] = l
      BY <1>3, <2>2
    <3>2. Aligned(x, l)
      BY <1>3, <3>1, FreeBlockFacts
    <3>3. BuddyOf(y, l) = x
      BY <3>1, <3>2, BuddyOfBuddy
    <3>4. QED
      BY <1>9, <2>2, <3>3
  <2>3. CASE x # j /\ y # j
    <3>1. x \in FreeOf(a) \ {i} /\ y \in FreeOf(a) \ {i}
      BY <1>3, <2>3
    <3>2. r.level[x] = a.level[x] /\ r.level[y] = a.level[y]
      BY <1>3, <3>1 DEF SameLevels
    <3>3. QED
      BY <1>1, <3>1, <3>2 DEF MergedIn
  <2>4. QED
    BY <2>1, <2>2, <2>3
<1>11. QED
  BY <1>3, <1>4, <1>6, <1>10 DEF Splitting, r
\* The splits of malloc end with a block of the wanted level to take.
LEMMA SplitForFacts ==
    ASSUME NEW g, Sound(mem, g), Flags(mem, g), MergedIn(mem, FreeOf(mem)),
           NEW n \in 0..Size(Top), Usable(n) # {}
    PROVE  Splitting(SplitFor(n), mem, g, LevelFor(n))
<1> DEFINE want == LevelFor(n)
           from == Min(Usable(n))
           d == from - want
           S == {a \in MemType : Sound(a, g)}
           step == [k \in 1..d |-> [a \in S |-> SplitBlock(a, from + 1 - k)]]
           after == CHOOSE h : h = [k \in 0..d |->
                       IF k = 0 THEN mem ELSE SplitBlock(h[k - 1], from + 1 - k)]
<1>1. SplitFor(n) = after[d]
  BY DEF SplitFor
<1>2. want \in Levels /\ want \in Nat
  BY LevelForFacts, LevelFacts
<1>3. /\ from \in want..Top /\ mem.bucket[from] # <<>> /\ from \in Levels
  <2>1. Usable(n) \in SUBSET Nat
    BY <1>2, LevelFacts DEF Usable
  <2>2. Min(Usable(n)) \in Usable(n)
    BY <2>1, MinFacts
  <2> HIDE DEF from, want
  <2>3. from \in Usable(n)
    BY <2>2 DEF from
  <2>4. from \in want..Top /\ mem.bucket[from] # <<>>
    BY <2>3 DEF Usable, want
  <2>5. QED
    BY <1>2, <2>4, LevelFacts DEF Levels
<1> HIDE DEF from, want
<1>4. d \in Nat /\ from \in Nat /\ Top \in Nat
      /\ \A k \in 1..d : from - k \in Levels /\ from - k < Top
                         /\ from + 1 - k = (from - k) + 1 /\ k - 1 \in 0..d
  BY <1>2, <1>3, LevelFacts DEF Levels
<1>5. ASSUME NEW k \in 1..d, NEW a \in S
      PROVE  SplitBlock(a, from + 1 - k) \in S
  <2> DEFINE l == from - k
  <2>1. /\ l \in Levels /\ l < Top /\ from + 1 - k = l + 1
        /\ a \in MemType /\ Sound(a, g)
    BY <1>4
  <2> HIDE DEF l
  <2>2. CASE a.bucket[l + 1] = <<>>
    BY <2>1, <2>2 DEF SplitBlock
  <2>3. CASE a.bucket[l + 1] # <<>>
    <3>1. Newest(a, l + 1, Head(a.bucket[l + 1]))
      BY <2>3 DEF Newest
    <3> DEFINE i == Head(a.bucket[l + 1])
               r == SplitBlock(a, l + 1)
    <3>2. SplitInto(a, g, l, i, i + Pow2[l], r)
      BY <2>1, <3>1, SplitFacts
    <3> HIDE DEF i, r
    <3>3. Sound(r, g)
      BY <3>2 DEF SplitInto
    <3>4. r \in S
      BY <3>3 DEF Sound
    <3>5. QED
      BY <2>1, <3>4 DEF r
  <2>4. QED
    BY <2>2, <2>3
<1>6. mem \in S
  BY DEF Sound
<1> HIDE DEF d, S
<1>7. step \in [1..d -> [S -> S]]
  BY <1>5
<1>8. \A k \in 1..d, a \in S : step[k][a] = SplitBlock(a, from + 1 - k)
  OBVIOUS
<1> HIDE DEF step
<1>9. PICK f : Stages(f, S, d, mem, step)
  BY <1>4, <1>6, <1>7, StagesExist
<1>10. f = [k \in 0..d |->
              IF k = 0 THEN mem ELSE SplitBlock(f[k - 1], from + 1 - k)]
  <2>1. f \in [0..d -> S] /\ f[0] = mem
    BY <1>9 DEF Stages
  <2>2. ASSUME NEW k \in 0..d, k # 0
        PROVE  f[k] = SplitBlock(f[k - 1], from + 1 - k)
    <3>1. k \in 1..d /\ k - 1 \in 0..d
      BY <1>4, <2>2
    <3>2. f[k] = step[k][f[k - 1]] /\ f[k - 1] \in S
      BY <1>9, <2>1, <3>1 DEF Stages
    <3>3. QED
      BY <1>8, <3>1, <3>2
  <2>3. QED
    BY <2>1, <2>2
<1>11. after = [k \in 0..d |->
              IF k = 0 THEN mem ELSE SplitBlock(after[k - 1], from + 1 - k)]
  BY <1>10
<1> HIDE DEF after
<1> DEFINE Good(k) == Splitting(after[k], mem, g, from - k)
           T == {k \in 0..d : ~Good(k)}
<1>12. T = {}
  <2> SUFFICES ASSUME T # {} PROVE FALSE
    OBVIOUS
  <2>1. T \in SUBSET Nat
    BY <1>4
  <2>2. PICK k \in T : \A y \in T : k <= y
    BY <2>1, LeastNat
  <2>3. k \in 0..d /\ ~Good(k)
    OBVIOUS
  <2>4. CASE k = 0
    <3>1. after[k] = mem /\ from - k = from
      BY <1>4, <1>11, <2>3, <2>4
    <3>2. SameLevels(mem.level, mem.level, g)
      BY DEF SameLevels
    <3>3. MergedIn(mem, FreeOf(mem) \ {Head(mem.bucket[from])})
      BY DEF MergedIn
    <3>4. Newest(mem, from, Head(mem.bucket[from]))
      BY <1>3 DEF Newest
    <3>5. Splitting(mem, mem, g, from)
      BY <3>2, <3>3, <3>4 DEF Splitting
    <3>6. QED
      BY <2>3, <3>1, <3>5
  <2>5. CASE k # 0
    <3>1. k - 1 \in 0..d /\ ~(k <= k - 1) /\ k \in 1..d
      BY <1>4, <2>3, <2>5
    <3>2. Good(k - 1)
      BY <2>2, <3>1
    <3> DEFINE l == from - k
               a == after[k - 1]
    <3>3. /\ l \in Levels /\ l < Top /\ from + 1 - k = l + 1
          /\ from - (k - 1) = l + 1
      BY <1>4, <3>1
    <3>4. Splitting(a, mem, g, l + 1)
      BY <3>2, <3>3
    <3>5. after[k] = SplitBlock(a, l + 1)
      BY <1>11, <2>3, <2>5, <3>3
    <3> HIDE DEF a, l
    <3>6. Splitting(SplitBlock(a, l + 1), mem, g, l)
      BY <3>3, <3>4, SplitKeeps
    <3>7. Good(k)
      BY <3>5, <3>6 DEF l
    <3>8. QED
      BY <2>3, <3>7
  <2>6. QED
    BY <2>4, <2>5
<1>13. d \in 0..d /\ from - d = want
  BY <1>2, <1>4 DEF d
<1>14. Splitting(after[d], mem, g, want)
  BY <1>12, <1>13
<1>15. QED
  BY <1>1, <1>14 DEF want

(***************************************************************************)
(* The inductive invariant of the buddy heap: the blocks that programs     *)
(* hold and those in the buckets tile the heap, what is held has its flag, *)
(* and no two free blocks are buddies of one level.                        *)
(***************************************************************************)
BuddyInv ==
    /\ Sound(mem, DOMAIN granted)
    /\ Flags(mem, DOMAIN granted)
    /\ MergedIn(mem, FreeOf(mem))
    /\ granted = [b \in DOMAIN granted |-> granted[b]]

\* initMemoryManager: one free block of the top level.
LEMMA BuddyInvInit == BuddyInit => BuddyInv
<1> SUFFICES ASSUME BuddyInit PROVE BuddyInv
  OBVIOUS
<1> DEFINE v == [i \in Indices |-> IF i = 0 THEN Top ELSE 0]
           f == [i \in Indices |-> FALSE]
           b == [l \in Levels |-> IF l = Top THEN <<0>> ELSE <<>>]
           c == [allocated |-> 0, free |-> Size(Top)]
<1>1. mem = [level |-> v, allocated |-> f, bucket |-> b, info |-> c]
      /\ granted = [i \in {} |-> 0]
  BY DEF BuddyInit
<1>2. DOMAIN granted = {}
  BY <1>1
<1>3. 0 \in Indices /\ Top \in Levels /\ 0 \in Levels /\ Pow2[Top] \in Nat
      /\ Pow2[Top] > 0
  BY LevelFacts, PowFacts, IndicesAre
<1>4. /\ v \in [Indices -> Levels] /\ f \in [Indices -> BOOLEAN]
      /\ c \in [allocated : Int, free : Int]
  <2>1. Size(Top) \in Int
    BY <1>3, SizeIsNat
  <2>2. QED
    BY <1>3, <2>1
<1>5. b \in [Levels -> Seq(Indices)]
  BY <1>3
<1>6. /\ ToSet(b[Top]) = {0} /\ Distinct(b[Top])
      /\ \A l \in Levels : l # Top => ToSet(b[l]) = {} /\ Distinct(b[l])
  BY <1>3 DEF ToSet, Distinct
<1>7. v[0] = Top /\ \A i \in Indices : f[i] = FALSE
  BY <1>3
<1> HIDE DEF v, f, b, c
<1>8. mem \in MemType /\ mem.level = v /\ mem.allocated = f /\ mem.bucket = b
      /\ mem.info = c
  BY <1>1, <1>4, <1>5 DEF MemType
<1>9. FreeOf(mem) = {0}
  BY <1>3, <1>6, <1>8 DEF FreeOf
<1>10. BucketsOK(mem)
  <2> SUFFICES ASSUME NEW l \in Levels
               PROVE  /\ Distinct(b[l])
                      /\ \A i \in ToSet(b[l]) :
                            i \in Indices /\ v[i] = l /\ f[i] = FALSE
    BY <1>8 DEF BucketsOK
  <2>1. CASE l = Top
    BY <1>3, <1>6, <1>7, <2>1
  <2>2. CASE l # Top
    BY <1>6, <2>2
  <2>3. QED
    BY <2>1, <2>2
<1>11. Tile({0}, v)
  <2>1. \A x \in Indices : 0 <= x /\ x < 0 + Pow2[v[0]]
    BY <1>3, <1>7, IndicesAre
  <2>2. QED
    BY <1>3, <1>7, <2>1, WholeHeapAligned DEF Tile
<1>12. Counted(mem)
  <2>1. Room(mem) = Cells(0, Top)
    BY <1>7, <1>8, <1>9 DEF Room, Cells
  <2>2. Cardinality(Room(mem)) = Pow2[Top]
    BY <1>3, <2>1, WholeHeapAligned, CellsCounted
  <2>3. mem.info.allocated = 0 /\ mem.info.free = Size(Top)
    BY <1>8 DEF c
  <2>4. Size(Top) = Unit * Pow2[Top] /\ Size(Top) \in Nat
    BY <1>3, LevelFacts, SizeIsNat DEF Size
  <2>5. QED
    BY <2>2, <2>3, <2>4 DEF Counted
<1>13. Sound(mem, {})
  <2>1. {} \cup FreeOf(mem) = {0} /\ {} \cap FreeOf(mem) = {}
    BY <1>9
  <2>2. Tile({} \cup FreeOf(mem), mem.level)
    BY <1>8, <1>11, <2>1
  <2>3. QED
    BY <1>8, <1>10, <1>12, <2>1, <2>2 DEF Sound
<1>14. MergedIn(mem, FreeOf(mem))
  <2>1. ~(Top < Top)
    BY LevelFacts
  <2>2. QED
    BY <1>7, <1>8, <1>9, <2>1 DEF MergedIn
<1>15. Flags(mem, {})
  BY DEF Flags
<1>16. granted = [i \in DOMAIN granted |-> granted[i]]
  BY <1>1
<1>17. QED
  BY <1>2, <1>13, <1>14, <1>15, <1>16 DEF BuddyInv
\* What malloc grants was free, has the level asked for, and leaves the
\* blocks that programs hold as they are.
LEMMA BuddyMallocFacts ==
    ASSUME BuddyInv, NEW n \in BuddyRequests, BuddyMalloc(n)
    PROVE  \E i \in Indices :
              /\ i \notin DOMAIN granted
              /\ granted' = [b \in DOMAIN granted \cup {i} |->
                               IF b = i THEN n ELSE granted[b]]
              /\ Sound(mem', DOMAIN granted \cup {i})
              /\ Flags(mem', DOMAIN granted \cup {i})
              /\ MergedIn(mem', FreeOf(mem'))
              /\ mem'.level[i] = LevelFor(n)
              /\ SameLevels(mem'.level, mem.level, DOMAIN granted)
<1> DEFINE g == DOMAIN granted
           l == LevelFor(n)
           a == SplitFor(n)
           i == Head(a.bucket[l])
           r == RemoveBlock(a, i)
<1>1. /\ Usable(n) # {} /\ mem' = r
      /\ granted' = [b \in g \cup {i} |-> IF b = i THEN n ELSE granted[b]]
  BY DEF BuddyMalloc
<1>2. n \in 0..Size(Top)
  BY BuddyAssumption
<1>3. l \in Levels
  BY <1>2, LevelForFacts
<1>4. /\ Sound(mem, g) /\ Flags(mem, g) /\ MergedIn(mem, FreeOf(mem))
  BY DEF BuddyInv
<1> HIDE DEF g
<1>5. Splitting(a, mem, g, l)
  BY <1>1, <1>2, <1>4, SplitForFacts
<1> HIDE DEF a, l
<1>6. /\ Sound(a, g) /\ Flags(a, g) /\ SameLevels(a.level, mem.level, g)
      /\ a.bucket[l] # <<>> /\ MergedIn(a, FreeOf(a) \ {i})
  BY <1>5 DEF Splitting, Newest
<1>7. i \in FreeOf(a) /\ a.level[i] = l /\ i \in Indices
  BY <1>3, <1>6, HeadIsFree
<1> HIDE DEF i
<1>8. /\ Sound(r, g \cup {i}) /\ r.level = a.level
      /\ FreeOf(r) = FreeOf(a) \ {i}
      /\ r.allocated = [a.allocated EXCEPT ![i] = TRUE]
  BY <1>6, <1>7, RemoveSound
<1> HIDE DEF r
<1>9. i \notin g /\ g \subseteq Indices /\ a \in MemType
  BY <1>6, <1>7 DEF Sound, Tile
<1>10. Flags(r, g \cup {i})
  <2> SUFFICES ASSUME NEW h \in g \cup {i} PROVE r.allocated[h] = TRUE
    BY Zenon DEF Flags
  <2>1. a.allocated \in [Indices -> BOOLEAN]
    BY <1>9, FieldTypes
  <2>2. CASE h = i
    BY <1>7, <1>8, <2>1, <2>2
  <2>3. CASE h # i
    <3>1. h \in g
      BY <2>3
    <3>2. r.allocated[h] = a.allocated[h]
      BY <1>8, <1>9, <2>1, <2>3, <3>1
    <3>3. a.allocated[h] = TRUE
      BY <1>6, <3>1, Zenon DEF Flags
    <3>4. QED
      BY <3>2, <3>3
  <2>4. QED
    BY <2>2, <2>3
<1>11. MergedIn(r, FreeOf(r))
  <2>1. SameLevels(r.level, a.level, FreeOf(r))
    BY <1>8 DEF SameLevels
  <2>2. QED
    BY <1>6, <1>8, <2>1, MergedInPart
<1>12. SameLevels(r.level, mem.level, g)
  BY <1>6, <1>8
<1>13. r.level[i] = l
  BY <1>7, <1>8
<1>14. QED
  BY <1>1, <1>7, <1>8, <1>9, <1>10, <1>11, <1>12, <1>13 DEF g, l

\* A successful malloc preserves the invariant.
LEMMA BuddyMallocKeeps ==
    ASSUME BuddyInv, NEW n \in BuddyRequests, BuddyMalloc(n)
    PROVE  BuddyInv'
<1>1. PICK i \in Indices :
         /\ granted' = [b \in DOMAIN granted \cup {i} |->
                          IF b = i THEN n ELSE granted[b]]
         /\ Sound(mem', DOMAIN granted \cup {i})
         /\ Flags(mem', DOMAIN granted \cup {i})
         /\ MergedIn(mem', FreeOf(mem'))
  BY BuddyMallocFacts
<1>2. DOMAIN granted' = DOMAIN granted \cup {i}
  BY <1>1
<1>3. granted' = [b \in DOMAIN granted' |-> granted'[b]]
  BY <1>1
<1>4. QED
  BY <1>1, <1>2, <1>3 DEF BuddyInv

\* free takes a block from those in use, merges it as far as it goes and
\* leaves the others as they are.
LEMMA BuddyFreeFacts ==
    ASSUME BuddyInv, NEW i \in DOMAIN granted, BuddyFree(i)
    PROVE  /\ granted' = Restrict(granted, DOMAIN granted \ {i})
           /\ Sound(mem', DOMAIN granted \ {i})
           /\ Flags(mem', DOMAIN granted \ {i})
           /\ MergedIn(mem', FreeOf(mem'))
           /\ SameLevels(mem'.level, mem.level, DOMAIN granted \ {i})
<1> DEFINE g == DOMAIN granted
           u == g \ {i}
           a == AddBlock(mem, i)
           r == MergeBuddy(a, i)
<1>1. mem' = r /\ granted' = Restrict(granted, u)
  BY DEF BuddyFree
<1>2. /\ Sound(mem, g) /\ Flags(mem, g) /\ MergedIn(mem, FreeOf(mem))
      /\ i \in g
  BY DEF BuddyInv
<1> HIDE DEF g
<1>3. /\ Sound(a, u) /\ a.level = mem.level
      /\ FreeOf(a) = FreeOf(mem) \cup {i}
      /\ a.allocated = [mem.allocated EXCEPT ![i] = FALSE]
  BY <1>2, AddSound
<1> HIDE DEF a
<1>4. mem \in MemType /\ g \subseteq Indices /\ i \notin FreeOf(mem)
  BY <1>2 DEF Sound, Tile
<1>5. Flags(a, u)
  <2> SUFFICES ASSUME NEW h \in u PROVE a.allocated[h] = TRUE
    BY Zenon DEF Flags
  <2>1. mem.allocated \in [Indices -> BOOLEAN]
    BY <1>4, FieldTypes
  <2>2. a.allocated[h] = mem.allocated[h]
    BY <1>3, <1>4, <2>1
  <2>3. mem.allocated[h] = TRUE
    BY <1>2, Zenon DEF Flags
  <2>4. QED
    BY <2>2, <2>3
<1>6. MergedIn(a, FreeOf(a) \ {i})
  <2>1. FreeOf(a) \ {i} = FreeOf(mem)
    BY <1>3, <1>4
  <2>2. QED
    BY <1>2, <1>3, <2>1 DEF MergedIn
<1> HIDE DEF u
<1>7. /\ Sound(r, u) /\ Flags(r, u) /\ MergedIn(r, FreeOf(r))
      /\ SameLevels(r.level, a.level, u)
  <2>1. i \in FreeOf(a)
    BY <1>3
  <2>2. QED
    BY <1>3, <1>5, <1>6, <2>1, MergeBuddyFacts
<1>8. SameLevels(r.level, mem.level, u)
  BY <1>3, <1>7
<1>9. QED
  BY <1>1, <1>7, <1>8 DEF u, g

\* A free of a live block preserves the invariant.
LEMMA BuddyFreeKeeps ==
    ASSUME BuddyInv, NEW i \in DOMAIN granted, BuddyFree(i)
    PROVE  BuddyInv'
<1>1. /\ granted' = Restrict(granted, DOMAIN granted \ {i})
      /\ Sound(mem', DOMAIN granted \ {i})
      /\ Flags(mem', DOMAIN granted \ {i})
      /\ MergedIn(mem', FreeOf(mem'))
  BY BuddyFreeFacts
<1>2. DOMAIN granted' = DOMAIN granted \ {i}
  BY <1>1 DEF Restrict
<1>3. granted' = [b \in DOMAIN granted' |-> granted'[b]]
  BY <1>1, <1>2 DEF Restrict
<1>4. QED
  BY <1>1, <1>2, <1>3 DEF BuddyInv

\* The invariant of the buddy heap holds after any sequence of malloc and
\* free, for every size of the heap and of its unit.
THEOREM BuddyInvHolds == BuddySpec => []BuddyInv
<1>1. BuddyInv /\ [BuddyNext]_buddyVars => BuddyInv'
  <2> SUFFICES ASSUME BuddyInv, [BuddyNext]_buddyVars PROVE BuddyInv'
    OBVIOUS
  <2>1. CASE UNCHANGED buddyVars
    BY <2>1 DEF buddyVars, BuddyInv
  <2>2. ASSUME NEW n \in BuddyRequests, BuddyMalloc(n) PROVE BuddyInv'
    BY <2>2, BuddyMallocKeeps
  <2>3. ASSUME NEW n \in BuddyRequests, BuddyMallocFails(n) PROVE BuddyInv'
    BY <2>1, <2>3 DEF BuddyMallocFails
  <2>4. ASSUME NEW i \in DOMAIN granted, BuddyFree(i) PROVE BuddyInv'
    BY <2>4, BuddyFreeKeeps
  <2>5. ASSUME NEW ptr \in BuddyPointers, BuddyFreeImposter(ptr)
        PROVE  BuddyInv'
    BY <2>1, <2>5 DEF BuddyFreeImposter
  <2>6. QED
    BY <2>1, <2>2, <2>3, <2>4, <2>5 DEF BuddyNext
<1>2. QED
  BY <1>1, BuddyInvInit, PTL DEF BuddySpec

-----------------------------------------------------------------------------
\* A block that is aligned lies in the heap as a whole.
LEMMA SpansAreCells ==
    ASSUME NEW i \in Indices, mem.level[i] \in Levels,
           Aligned(i, mem.level[i])
    PROVE  Span(i) = Cells(i, mem.level[i])
<1> DEFINE p == Pow2[mem.level[i]]
<1>1. /\ i \in Nat /\ p \in Nat /\ Pow2[Top] \in Nat /\ i + p <= Pow2[Top]
  BY IndicesAre, PowFacts, LevelFacts, BlockInHeap
<1> HIDE DEF p
<1>2. \A x \in Int : x \in i..(i + p - 1) <=> i <= x /\ x < i + p
  BY <1>1
<1>3. Span(i) = i..(i + p - 1)
  BY DEF Span, p
<1>4. \A x : x \in Span(i) => x \in Int
  BY <1>3
<1>5. \A x : x \in Cells(i, mem.level[i]) <=>
               x \in Nat /\ x < Pow2[Top] /\ i <= x /\ x < i + p
  BY IndicesAre DEF Cells, p
<1>6. \A x : x \in Span(i) <=> x \in Cells(i, mem.level[i])
  BY <1>1, <1>2, <1>3, <1>4, <1>5
<1>7. QED
  BY <1>6

\* The invariant says that the blocks cover the heap once and are counted.
LEMMA InvTiles == BuddyInv => BuddiesTileTheHeap
<1> SUFFICES ASSUME BuddyInv PROVE BuddiesTileTheHeap
  OBVIOUS
<1> DEFINE H == FreeBlocks \cup DOMAIN granted
<1>1. /\ Tile(DOMAIN granted \cup FreeOf(mem), mem.level)
      /\ BucketsOK(mem) /\ Counted(mem) /\ mem \in MemType
  BY DEF BuddyInv, Sound
<1>2. FreeBlocks = FreeOf(mem)
  BY DEF FreeBlocks, FreeOf
<1>3. H = DOMAIN granted \cup FreeOf(mem)
  BY <1>2
<1> HIDE DEF H
<1>4. \A i \in H : /\ i \in Indices /\ mem.level[i] \in Levels
                   /\ Aligned(i, mem.level[i]) /\ i \in Nat
                   /\ Pow2[mem.level[i]] \in Nat /\ Pow2[mem.level[i]] > 0
  BY <1>1, <1>3, IndicesAre, PowFacts DEF Tile
<1>5. \A i \in H : Span(i) = Cells(i, mem.level[i])
  BY <1>4, SpansAreCells
<1>6. ASSUME NEW i \in H, NEW j \in H, i # j PROVE Span(i) \cap Span(j) = {}
  <2>1. i + Pow2[mem.level[i]] <= j \/ j + Pow2[mem.level[j]] <= i
    BY <1>1, <1>3, <1>6 DEF Tile, Beside
  <2>2. \A x \in Indices : x \in Nat
    BY IndicesAre
  <2>3. QED
    BY <1>4, <1>5, <2>1, <2>2 DEF Cells
<1>7. UNION {Span(i) : i \in H} = Indices
  <2>1. \A x \in Indices : \E i \in H : x \in Span(i)
    BY <1>1, <1>3, <1>5 DEF Tile, Cells
  <2>2. \A i \in H : Span(i) \subseteq Indices
    BY <1>5 DEF Cells
  <2>3. QED
    BY <2>1, <2>2
<1>8. ASSUME NEW i \in H PROVE i % Pow2[mem.level[i]] = 0
  <2> DEFINE p == Pow2[mem.level[i]]
  <2>1. PICK q \in Nat : i = q * p
    BY <1>4 DEF Aligned
  <2>2. p \in Nat /\ p > 0
    BY <1>4
  <2> HIDE DEF p
  <2>3. (q * p) % p = 0
    BY <2>2
  <2>4. QED
    BY <2>1, <2>3 DEF p
<1>9. \A l \in Levels : \A i \in ToSet(mem.bucket[l]) : mem.level[i] = l
  BY <1>1 DEF BucketsOK
<1>10. UNION {Span(i) : i \in FreeBlocks} = Room(mem)
  <2>1. \A i \in FreeOf(mem) : Span(i) = Cells(i, mem.level[i])
    BY <1>3, <1>5
  <2>2. QED
    BY <1>2, <2>1 DEF Room, Cells
<1>11. QED
  BY <1>1, <1>6, <1>7, <1>8, <1>9, <1>10 DEF BuddiesTileTheHeap, Counted, H

\* After any sequence of malloc and free of memoryBuddy.c the blocks in the
\* buckets and the blocks that programs hold cover the heap once, each at a
\* multiple of its size, and memory_info counts exactly what is free.
THEOREM BuddiesTileAlways == BuddySpec => []BuddiesTileTheHeap
  BY InvTiles, BuddyInvHolds, PTL

\* mergeBuddy goes as far as it can: no free block is left apart from its
\* free buddy, so that freeing everything gives the whole heap back.
THEOREM BuddiesMergedAlways == BuddySpec => []FreeBuddiesAreMerged
<1>1. BuddyInv => FreeBuddiesAreMerged
  <2> SUFFICES ASSUME BuddyInv, NEW l \in 0..(Top - 1),
                      NEW i \in ToSet(mem.bucket[l]),
                      GetBuddy(mem, i) \in ToSet(mem.bucket[l])
               PROVE  FALSE
    BY DEF FreeBuddiesAreMerged
  <2>1. l \in Levels /\ l < Top
    BY LevelFacts DEF Levels
  <2> DEFINE j == GetBuddy(mem, i)
  <2>2. BucketsOK(mem) /\ MergedIn(mem, FreeOf(mem)) /\ j \in ToSet(mem.bucket[l])
    BY DEF BuddyInv, Sound
  <2>3. j = BuddyOf(i, mem.level[i])
    BY GetBuddyIs
  <2> HIDE DEF j
  <2>4. mem.level[i] = l /\ mem.level[j] = l
    BY <2>1, <2>2 DEF BucketsOK
  <2>5. i \in FreeOf(mem) /\ j \in FreeOf(mem)
    BY <2>1, <2>2 DEF FreeOf
  <2>6. QED
    BY <2>1, <2>2, <2>3, <2>4, <2>5 DEF MergedIn
<1>2. QED
  BY <1>1, BuddyInvHolds, PTL

-----------------------------------------------------------------------------
\* The state of the contract that the buddy heap stands for.
Held == [a \in {i * Unit : i \in DOMAIN granted} |->
           [asked |-> granted[a \div Unit],
            size |-> Size(mem.level[a \div Unit])]]

\* A block is where its index says, in units.
LEMMA UnitsScale ==
    /\ \A i \in Nat : i * Unit \in Nat /\ (i * Unit) \div Unit = i
    /\ \A i, j, p \in Nat :
          i + p <= j => i * Unit + p * Unit <= j * Unit
<1>1. Unit \in Nat /\ Unit > 0
  BY BuddyAssumption
<1>2. \A i, u \in Nat : u > 0 => i * u \in Nat /\ (i * u) \div u = i
  OBVIOUS
<1>3. \A i, j, p, u \in Nat : i + p <= j => i * u + p * u <= j * u
  <2> SUFFICES ASSUME NEW i \in Nat, NEW j \in Nat, NEW p \in Nat,
                      NEW u \in Nat, i + p <= j
               PROVE  i * u + p * u <= j * u
    OBVIOUS
  <2>1. PICK d \in Nat : j = i + p + d
    <3>1. j - (i + p) \in Nat /\ j = i + p + (j - (i + p))
      OBVIOUS
    <3>2. QED
      BY <3>1
  <2>2. j * u = i * u + p * u + d * u
    BY <2>1
  <2>3. i * u \in Nat /\ p * u \in Nat /\ d * u \in Nat
    OBVIOUS
  <2>4. QED
    BY <2>2, <2>3
<1>4. QED
  BY <1>1, <1>2, <1>3

\* The blocks that are live for the contract, by their index.
LEMMA HeldIs ==
    ASSUME DOMAIN granted \subseteq Nat
    PROVE  /\ DOMAIN Held = {i * Unit : i \in DOMAIN granted}
           /\ \A i \in DOMAIN granted :
                 Held[i * Unit] = [asked |-> granted[i],
                                   size |-> Size(mem.level[i])]
<1>1. \A i \in DOMAIN granted : (i * Unit) \div Unit = i
  BY UnitsScale
<1>2. QED
  BY <1>1 DEF Held

\* The blocks that are live stay what they were in a step of malloc, and the
\* new one is apart from them.
LEMMA BuddyMallocOfHeld ==
    ASSUME BuddyInv, NEW n \in BuddyRequests, BuddyMalloc(n)
    PROVE  \E a, z :
              /\ a \notin DOMAIN Held
              /\ z \in Nat /\ z >= n
              /\ a \in Nat /\ a + z <= Size(Top)
              /\ \A c \in DOMAIN Held :
                    (a..(a + z - 1)) \cap (c..(c + Held[c].size - 1)) = {}
              /\ Held' = [c \in DOMAIN Held \cup {a} |->
                            IF c = a THEN [asked |-> n, size |-> z]
                            ELSE Held[c]]
<1>1. PICK i \in Indices :
         /\ i \notin DOMAIN granted
         /\ granted' = [b \in DOMAIN granted \cup {i} |->
                          IF b = i THEN n ELSE granted[b]]
         /\ Sound(mem', DOMAIN granted \cup {i})
         /\ mem'.level[i] = LevelFor(n)
         /\ SameLevels(mem'.level, mem.level, DOMAIN granted)
  BY BuddyMallocFacts
<1> DEFINE g == DOMAIN granted
           l == LevelFor(n)
           a == i * Unit
           z == Size(l)
<1>2. /\ Tile(g \cup {i} \cup FreeOf(mem'), mem'.level)
      /\ mem' \in MemType
  BY <1>1 DEF Sound
<1>3. /\ g \cup {i} \subseteq Indices /\ Indices \subseteq Nat
      /\ DOMAIN granted' = g \cup {i}
  BY <1>1, <1>2, IndicesAre DEF Tile
<1>4. /\ DOMAIN Held = {j * Unit : j \in g}
      /\ \A j \in g : Held[j * Unit] = [asked |-> granted[j],
                                        size |-> Size(mem.level[j])]
  BY <1>3, HeldIs
<1>5. \A j \in g : mem'.level[j] = mem.level[j]
  BY <1>1 DEF SameLevels
<1>6. n \in 0..Size(Top) /\ n \in Nat
  <2>1. n \in 0..Size(Top)
    BY BuddyAssumption
  <2>2. QED
    BY <2>1
<1>7. l \in Levels /\ z >= n /\ z \in Nat /\ Pow2[l] \in Nat
      /\ z = Pow2[l] * Unit
  BY <1>6, LevelForFacts, SizeIsNat, PowFacts DEF Size
<1> HIDE DEF l
<1>8. a + z <= Size(Top)
  <2>1. Aligned(i, l)
    BY <1>1, <1>2 DEF Tile, l
  <2>2. i + Pow2[l] <= Pow2[Top]
    BY <1>1, <1>7, <2>1, BlockInHeap
  <2>3. Pow2[Top] \in Nat /\ i \in Nat
    BY <1>3, PowFacts, LevelFacts
  <2>4. i * Unit + Pow2[l] * Unit <= Pow2[Top] * Unit
    BY <1>7, <2>2, <2>3, UnitsScale
  <2>5. QED
    BY <1>7, <2>4 DEF Size
<1>9. ASSUME NEW j \in g
      PROVE  /\ j * Unit # a
             /\ (a..(a + z - 1))
                   \cap ((j * Unit)..(j * Unit + Size(mem.level[j]) - 1)) = {}
  <2> DEFINE h == mem.level[j]
             c == j * Unit
             y == Size(h)
  <2>1. /\ h \in Levels
        /\ i + Pow2[l] <= j \/ j + Pow2[h] <= i
    <3>1. j # i /\ mem'.level[i] = l /\ mem'.level[j] = h
      BY <1>1, <1>5 DEF l
    <3>2. QED
      BY <1>2, <3>1 DEF Tile, Beside
  <2>2. y \in Nat /\ y = Pow2[h] * Unit /\ Pow2[h] \in Nat /\ Pow2[h] > 0
        /\ Pow2[l] > 0 /\ i \in Nat /\ j \in Nat
    BY <1>3, <1>7, <2>1, SizeIsNat, PowFacts DEF Size
  <2>3. a + z <= c \/ c + y <= a
    BY <1>7, <2>1, <2>2, UnitsScale
  <2>4. a \in Nat /\ c \in Nat
    BY <2>2, UnitsScale
  <2>5. c # a
    <3>1. (i * Unit) \div Unit = i /\ (j * Unit) \div Unit = j
      BY <2>2, UnitsScale
    <3>2. i # j
      BY <1>1
    <3>3. QED
      BY <3>1, <3>2
  <2> HIDE DEF a, z, c, y
  <2>6. (a..(a + z - 1)) \cap (c..(c + y - 1)) = {}
    BY <1>7, <2>2, <2>3, <2>4
  <2>7. QED
    BY <2>5, <2>6 DEF c, y
<1>10. a \notin DOMAIN Held
  <2>1. \A c \in {j * Unit : j \in g} : \E j \in g : c = j * Unit
    OBVIOUS
  <2>2. \A j \in g : j * Unit # a
    BY <1>9
  <2> HIDE DEF a, g
  <2>3. a \notin {j * Unit : j \in g}
    BY <2>1, <2>2
  <2>4. QED
    BY <1>4, <2>3
<1>11. \A c \in DOMAIN Held :
          (a..(a + z - 1)) \cap (c..(c + Held[c].size - 1)) = {}
  <2> SUFFICES ASSUME NEW c \in DOMAIN Held
               PROVE  (a..(a + z - 1)) \cap (c..(c + Held[c].size - 1)) = {}
    OBVIOUS
  <2>1. PICK j \in g : c = j * Unit
    BY <1>4
  <2>2. Held[j * Unit] = [asked |-> granted[j], size |-> Size(mem.level[j])]
    BY <1>4
  <2>3. Held[c].size = Size(mem.level[j])
    BY <2>1, <2>2
  <2>4. QED
    BY <1>9, <2>1, <2>3
<1>12. /\ DOMAIN Held' = {j * Unit : j \in g \cup {i}}
       /\ \A j \in g \cup {i} :
             Held'[j * Unit] = [asked |-> granted'[j],
                                size |-> Size(mem'.level[j])]
  <2>1. \A j \in g \cup {i} : (j * Unit) \div Unit = j
    BY <1>3, UnitsScale
  <2>2. Held' = [c \in {j * Unit : j \in g \cup {i}} |->
                   [asked |-> granted'[c \div Unit],
                    size |-> Size(mem'.level[c \div Unit])]]
    BY <1>3 DEF Held
  <2>3. QED
    BY <2>1, <2>2
<1>13. Held' = [c \in DOMAIN Held \cup {a} |->
                  IF c = a THEN [asked |-> n, size |-> z] ELSE Held[c]]
  <2> DEFINE F == [c \in DOMAIN Held \cup {a} |->
                    IF c = a THEN [asked |-> n, size |-> z] ELSE Held[c]]
  <2>1. DOMAIN Held' = DOMAIN Held \cup {a}
    BY <1>4, <1>12
  <2>2. ASSUME NEW c \in DOMAIN Held \cup {a} PROVE Held'[c] = F[c]
    <3>1. CASE c = a
      <4>1. granted'[i] = n /\ mem'.level[i] = l
        BY <1>1 DEF l
      <4>2. QED
        BY <1>12, <3>1, <4>1
    <3>2. CASE c # a
      <4>1. PICK j \in g : c = j * Unit
        BY <1>4, <3>2
      <4>2. granted'[j] = granted[j] /\ mem'.level[j] = mem.level[j]
        BY <1>1, <1>5
      <4>3. Held'[c] = Held[c]
        BY <1>4, <1>12, <4>1, <4>2
      <4>4. QED
        BY <3>2, <4>3
    <3>3. QED
      BY <3>1, <3>2
  <2>3. Held' = [c \in DOMAIN Held' |-> Held'[c]]
    BY DEF Held
  <2>4. QED
    BY <2>1, <2>2, <2>3
<1>14. a \in Nat
  BY <1>3, UnitsScale
<1> HIDE DEF a, z
<1>15. QED
  BY <1>7, <1>8, <1>10, <1>11, <1>13, <1>14

\* free takes its block from those that are live and leaves the others.
LEMMA BuddyFreeOfHeld ==
    ASSUME BuddyInv, NEW i \in DOMAIN granted, BuddyFree(i)
    PROVE  \E a \in DOMAIN Held : Held' = Restrict(Held, DOMAIN Held \ {a})
<1> DEFINE g == DOMAIN granted
           a == i * Unit
<1>1. /\ granted' = Restrict(granted, g \ {i})
      /\ SameLevels(mem'.level, mem.level, g \ {i})
  BY BuddyFreeFacts
<1>2. g \subseteq Nat
  BY IndicesAre DEF BuddyInv, Sound, Tile
<1>3. /\ DOMAIN granted' = g \ {i}
      /\ \A j \in g \ {i} : /\ granted'[j] = granted[j]
                            /\ mem'.level[j] = mem.level[j]
  BY <1>1 DEF Restrict, SameLevels
<1>4. /\ DOMAIN Held = {j * Unit : j \in g}
      /\ \A j \in g : Held[j * Unit] = [asked |-> granted[j],
                                        size |-> Size(mem.level[j])]
  BY <1>2, HeldIs
<1>5. /\ DOMAIN Held' = {j * Unit : j \in g \ {i}}
      /\ \A j \in g \ {i} :
            Held'[j * Unit] = [asked |-> granted'[j],
                               size |-> Size(mem'.level[j])]
  <2>1. \A j \in g \ {i} : (j * Unit) \div Unit = j
    BY <1>2, UnitsScale
  <2>2. Held' = [c \in {j * Unit : j \in g \ {i}} |->
                   [asked |-> granted'[c \div Unit],
                    size |-> Size(mem'.level[c \div Unit])]]
    BY <1>3 DEF Held
  <2>3. QED
    BY <2>1, <2>2
<1>6. \A j \in g : j * Unit = a => j = i
  <2>1. \A j \in g : (j * Unit) \div Unit = j
    BY <1>2, UnitsScale
  <2>2. QED
    BY <2>1
<1>7. DOMAIN Held' = DOMAIN Held \ {a}
  BY <1>4, <1>5, <1>6
<1>8. ASSUME NEW c \in DOMAIN Held \ {a} PROVE Held'[c] = Held[c]
  <2>1. PICK j \in g \ {i} : c = j * Unit
    BY <1>4
  <2>2. QED
    BY <1>3, <1>4, <1>5, <2>1
<1>9. Held' = [c \in DOMAIN Held' |-> Held'[c]]
  BY DEF Held
<1>10. Held' = [c \in DOMAIN Held \ {a} |-> Held[c]]
  BY <1>7, <1>8, <1>9
<1>11. a \in DOMAIN Held
  BY <1>4
<1>12. QED
  BY <1>10, <1>11 DEF Restrict

\* Nothing is live at first.
LEMMA BuddyContractInit == BuddyInit => BuddyContract!Init
<1> SUFFICES ASSUME BuddyInit PROVE BuddyContract!Init
  OBVIOUS
<1>1. DOMAIN granted = {}
  BY DEF BuddyInit
<1>2. QED
  BY <1>1 DEF BuddyContract!Init

\* Each step of the heap is a step of the contract or changes nothing of it.
LEMMA BuddyContractStep ==
    ASSUME BuddyInv, [BuddyNext]_buddyVars
    PROVE  BuddyContract!Next \/ Held' = Held
<1>1. ASSUME NEW n \in BuddyRequests, BuddyMalloc(n)
      PROVE  BuddyContract!Next
  <2>1. PICK a, z :
           /\ a \notin DOMAIN Held
           /\ z \in Nat /\ z >= n
           /\ a \in Nat /\ a + z <= Size(Top)
           /\ \A c \in DOMAIN Held :
                 (a..(a + z - 1)) \cap (c..(c + Held[c].size - 1)) = {}
           /\ Held' = [c \in DOMAIN Held \cup {a} |->
                         IF c = a THEN [asked |-> n, size |-> z]
                         ELSE Held[c]]
    BY <1>1, BuddyMallocOfHeld
  <2> DEFINE b == [asked |-> n, size |-> z]
  <2>2. b.asked = n /\ b.size >= n /\ b.size = z
    BY <2>1
  <2>3. a..(a + b.size - 1) \subseteq 0..(Size(Top) - 1)
    <3>1. Size(Top) \in Nat
      BY LevelFacts, SizeIsNat
    <3>2. QED
      BY <2>1, <2>2, <3>1
  <2> HIDE DEF b
  <2>4. a \in DOMAIN Held' \ DOMAIN Held /\ Held'[a] = b
    BY <2>1 DEF b
  <2>5. /\ \A c \in DOMAIN Held :
              (a..(a + b.size - 1)) \cap (c..(c + Held[c].size - 1)) = {}
        /\ Held' = [c \in DOMAIN Held \cup {a} |->
                      IF c = a THEN b ELSE Held[c]]
    BY <2>1, <2>2 DEF b
  <2>6. b = Held'[a]
    BY <2>4
  <2>7. BuddyContract!Grant(n, a, Held'[a])
    BY <2>1, <2>2, <2>3, <2>5, <2>6
       DEF BuddyContract!Grant, BuddyContract!Extent, Held
  <2>8. QED
    BY <2>4, <2>7 DEF BuddyContract!Next, Held
<1>2. ASSUME NEW i \in DOMAIN granted, BuddyFree(i)
      PROVE  BuddyContract!Next
  <2>1. PICK a \in DOMAIN Held : Held' = Restrict(Held, DOMAIN Held \ {a})
    BY <1>2, BuddyFreeOfHeld
  <2>2. BuddyContract!Free(a)
    BY <2>1 DEF BuddyContract!Free, Held, Restrict, BuddyContract!Restrict
  <2>3. QED
    BY <2>1, <2>2 DEF BuddyContract!Next, Held
<1>3. ASSUME UNCHANGED buddyVars PROVE Held' = Held
  BY <1>3 DEF buddyVars, Held
<1>4. ASSUME NEW n \in BuddyRequests, BuddyMallocFails(n)
      PROVE  Held' = Held
  BY <1>3, <1>4 DEF BuddyMallocFails
<1>5. ASSUME NEW ptr \in BuddyPointers, BuddyFreeImposter(ptr)
      PROVE  Held' = Held
  BY <1>3, <1>5 DEF BuddyFreeImposter
<1>6. QED
  BY <1>1, <1>2, <1>3, <1>4, <1>5 DEF BuddyNext

\* memoryBuddy.c keeps the same contract of malloc and free as
\* memoryManager.c, for every request that fits the heap and programs that free
\* no block twice: the flag of one that was merged away is still set.
THEOREM BuddyKeepsContract == BuddySpec => BuddyImplementsAllocator
<1>1. BuddyInit => BuddyContract!Init
  BY BuddyContractInit
<1>2. BuddyInv /\ [BuddyNext]_buddyVars => [BuddyContract!Next]_Held
  BY BuddyContractStep
<1>3. QED
  BY <1>1, <1>2, BuddyInvHolds, PTL
     DEF BuddySpec, BuddyImplementsAllocator, BuddyContract!Spec, Held

=============================================================================
