--------------------------- MODULE SchedulerProofs ---------------------------
(***************************************************************************)
(* What Scheduler guarantees for every number of processes, every quantum  *)
(* and every set of priorities, when processes end by themselves or by     *)
(* Ctrl-C while they have the CPU: Uses is at most {"block"}.              *)
(***************************************************************************)
EXTENDS Scheduler, FiniteSetTheorems, SequenceTheorems, TLAPS

States == {"NEW", "READY", "RUNNING", "BLOCKED", "KILLED"}
NodeRec == [proc : Pids, next : NodeIds, quantums : Nat]
ProcRec == [ppid : Pids, state : States, priority : Nat, children : Int,
            waits : BOOLEAN]

IsKernel(k) ==
    /\ k = [node |-> k.node, proc |-> k.proc, current |-> k.current,
            first |-> k.first, foreground |-> k.foreground,
            background |-> k.background, counter |-> k.counter,
            pidc |-> k.pidc]
    /\ DOMAIN k.node \subseteq NodeIds /\ k.node \in [DOMAIN k.node -> NodeRec]
    /\ DOMAIN k.proc \subseteq Pids /\ k.proc \in [DOMAIN k.proc -> ProcRec]
    /\ k.current \in DOMAIN k.node
    /\ k.counter \in Nat /\ k.pidc \in Nat

\* r lists the nodes in the order of the ring, from first on.
Ring(k, r) ==
    /\ k.counter >= 2
    /\ r \in [0..(k.counter - 1) -> DOMAIN k.node]
    /\ \A n \in DOMAIN k.node : \E i \in 0..(k.counter - 1) : r[i] = n
    /\ \A i, j \in 0..(k.counter - 1) : r[i] = r[j] => i = j
    /\ r[0] = k.first
    /\ \A i \in 0..(k.counter - 2) : k.node[r[i]].next = r[i + 1]
    /\ k.node[r[k.counter - 1]].next = r[0]

\* Each process is in one node.
Homes(k) ==
    /\ \A n \in DOMAIN k.node : PidAt(k, n) \in DOMAIN k.proc
    /\ \A p \in DOMAIN k.proc : \E n \in DOMAIN k.node : PidAt(k, n) = p
    /\ \A m, n \in DOMAIN k.node : PidAt(k, m) = PidAt(k, n) => m = n
    /\ IsFiniteSet(DOMAIN k.node) /\ Cardinality(DOMAIN k.node) = k.counter
    /\ IsFiniteSet(DOMAIN k.proc) /\ Cardinality(DOMAIN k.proc) = k.counter

(***************************************************************************)
(* The node behind IDLE's is the shell's, and the process in front, if it  *)
(* is another, is in the node behind that one: the nodes that destroy_node *)
(* frees, which follow a process that ends, are neither.                   *)
(***************************************************************************)
ShellNode(k) == k.node[k.first].next

Pointers(k) ==
    /\ k.first \in DOMAIN k.node /\ PidAt(k, k.first) = Idle
    /\ ShellNode(k) \in DOMAIN k.node /\ PidAt(k, ShellNode(k)) = Shell
    /\ k.background = NoNode => k.foreground = ShellNode(k)
    /\ k.background # NoNode =>
          /\ k.background = ShellNode(k)
          /\ k.foreground = k.node[ShellNode(k)].next
          /\ k.foreground \in DOMAIN k.node
          /\ PidAt(k, k.foreground) \notin {Idle, Shell}

Shape(k) == IsKernel(k) /\ (\E r : Ring(k, r)) /\ Homes(k) /\ Pointers(k)

ChildrenOf(k, p) == {q \in DOMAIN k.proc \ {Idle} : k.proc[q].ppid = p}

Family(k) ==
    /\ \A p \in DOMAIN k.proc : p < k.pidc /\ k.proc[p].ppid < k.pidc
    /\ \A p \in DOMAIN k.proc \ {Idle} : k.proc[p].ppid < p
    /\ \A p \in DOMAIN k.proc :
          k.proc[p].children = Cardinality(ChildrenOf(k, p))
    /\ \A p \in DOMAIN k.proc : k.proc[p].waits => k.proc[p].children # 0
    /\ k.proc[Idle].state \in {"READY", "RUNNING"}

Marked(k) ==
    /\ \A p \in DOMAIN k.proc : k.proc[p].state = "RUNNING" => p = CurrentPid(k)
    /\ k.proc[CurrentPid(k)].state \in {"RUNNING", "READY"}
NoneRuns(k) == \A p \in DOMAIN k.proc : k.proc[p].state # "RUNNING"

\* Between steps only the process that has the CPU runs, or is READY in it.
Sound(k) == Shape(k) /\ Family(k) /\ Marked(k)

\* The inductive invariant.
SchedInv == Sound(kernel)

\* What a step may do to the foreground (ForegroundReturns).
Returns(k, l) ==
    k.background # NoNode /\ l.foreground # k.foreground
      => /\ l.foreground = k.background
         /\ l.background = NoNode
         /\ StateAt(l, l.foreground) # "BLOCKED"

-----------------------------------------------------------------------------
\* Every non-empty set of naturals has a least element.
LEMMA LeastNat ==
    ASSUME NEW T \in SUBSET Nat, T # {}
    PROVE  \E x \in T : \A y \in T : x <= y
<1>1. PICK R : IsWellFoundedOn(R, Nat) /\ R = OpToRel(<, Nat)
  BY NatLessThanWellFounded, Zenon
<1>2. R = {ss \in Nat \X Nat : ss[1] < ss[2]}
  BY <1>1, Zenon DEF OpToRel
<1>3. PICK x \in T : \A y \in T : ~(<<y, x>> \in R)
  BY <1>1, WFMin
<1>4. \A u, v \in Nat : <<u, v>> \in R <=> u < v
  BY <1>2
<1>5. \A y \in T : x \in Nat /\ y \in Nat /\ ~(y < x)
  BY <1>3, <1>4
<1>6. \A y \in T : x <= y
  BY <1>5
<1>7. QED
  BY <1>6

(***************************************************************************)
(* What Hops meets from the node at place j of the ring on: the rest of    *)
(* the ring, and its beginning again.                                      *)
(***************************************************************************)
Around(k, r, j) ==
    [i \in 0..k.counter |-> IF i + j < k.counter THEN r[i + j]
                            ELSE r[i + j - k.counter]]

\* Each of them is linked to the next.
LEMMA AroundFollows ==
    ASSUME NEW k, NEW r, IsKernel(k), Ring(k, r), NEW j \in 0..(k.counter - 1)
    PROVE  Around(k, r, j)
             = [i \in 0..k.counter |->
                  IF i = 0 THEN r[j] ELSE k.node[Around(k, r, j)[i - 1]].next]
<1> DEFINE N == k.counter
           g == Around(k, r, j)
<1>1. N \in Nat /\ N >= 2 /\ j \in Nat /\ j < N
  BY DEF IsKernel, Ring
<1> SUFFICES ASSUME NEW i \in 0..N
             PROVE  g[i] = IF i = 0 THEN r[j] ELSE k.node[g[i - 1]].next
  BY DEF Around
<1>2. g[i] = IF i + j < N THEN r[i + j] ELSE r[i + j - N]
  BY DEF Around
<1>3. CASE i = 0
  BY <1>1, <1>2, <1>3
<1>4. CASE i # 0
  <2>1. i - 1 \in 0..N
    BY <1>1, <1>4
  <2>2. g[i - 1] = IF i - 1 + j < N THEN r[i - 1 + j] ELSE r[i - 1 + j - N]
    BY <2>1 DEF Around
  <2>3. CASE i + j < N
    <3>1. i - 1 + j \in 0..(N - 2) /\ (i - 1 + j) + 1 = i + j /\ i - 1 + j < N
      BY <1>1, <1>4, <2>3
    <3>2. g[i] = r[i + j] /\ g[i - 1] = r[i - 1 + j]
      BY <1>2, <2>2, <2>3, <3>1
    <3>3. k.node[r[i - 1 + j]].next = r[(i - 1 + j) + 1]
      BY <3>1 DEF Ring
    <3>4. QED
      BY <1>4, <3>1, <3>2, <3>3
  <2>4. CASE i + j = N
    <3>1. i - 1 + j = N - 1 /\ i - 1 + j < N /\ i + j - N = 0 /\ ~(i + j < N)
      BY <1>1, <2>4
    <3>2. g[i] = r[0] /\ g[i - 1] = r[N - 1]
      BY <1>2, <2>2, <3>1
    <3>3. QED
      BY <1>4, <3>2 DEF Ring
  <2>5. CASE i + j > N
    <3>1. /\ i - 1 + j - N \in 0..(N - 2) /\ (i - 1 + j - N) + 1 = i + j - N
          /\ ~(i - 1 + j < N) /\ ~(i + j < N)
      BY <1>1, <1>4, <2>5
    <3>2. g[i] = r[i + j - N] /\ g[i - 1] = r[i - 1 + j - N]
      BY <1>2, <2>2, <3>1
    <3>3. k.node[r[i - 1 + j - N]].next = r[(i - 1 + j - N) + 1]
      BY <3>1 DEF Ring
    <3>4. QED
      BY <1>4, <3>1, <3>2, <3>3
  <2>6. QED
    BY <1>1, <2>3, <2>4, <2>5
<1>5. QED
  BY <1>3, <1>4

\* Following next from any node leads around the ring.
LEMMA HopsAround ==
    ASSUME NEW k, NEW r, IsKernel(k), Ring(k, r), Homes(k),
           NEW j \in 0..(k.counter - 1)
    PROVE  Hops(k, r[j]) = Around(k, r, j)
<1> DEFINE N == k.counter
           g == Around(k, r, j)
           h == Hops(k, r[j])
           Meets(f) == f = [i \in 0..N |-> IF i = 0 THEN r[j]
                                           ELSE k.node[f[i - 1]].next]
<1>1. N \in Nat /\ N >= 2 /\ j \in Nat /\ j < N /\ Cardinality(DOMAIN k.node) = N
  BY DEF IsKernel, Ring, Homes
<1>2. h = CHOOSE f : Meets(f)
  BY <1>1 DEF Hops
<1>3. Meets(g)
  BY AroundFollows
<1>4. Meets(h)
  BY <1>2, <1>3
<1> HIDE DEF h, g
<1> DEFINE T == {i \in 0..N : h[i] # g[i]}
<1>5. T = {}
  <2> SUFFICES ASSUME T # {} PROVE FALSE
    OBVIOUS
  <2>1. T \in SUBSET Nat
    BY <1>1
  <2>2. PICK i \in T : \A y \in T : i <= y
    BY <2>1, LeastNat
  <2>3. i \in 0..N /\ h[i] # g[i]
    OBVIOUS
  <2>4. CASE i = 0
    BY <1>3, <1>4, <2>3, <2>4
  <2>5. CASE i # 0
    <3>1. i - 1 \in 0..N /\ ~(i <= i - 1)
      BY <1>1, <2>3, <2>5
    <3>2. h[i - 1] = g[i - 1]
      BY <2>2, <3>1
    <3>3. h[i] = k.node[h[i - 1]].next /\ g[i] = k.node[g[i - 1]].next
      BY <1>3, <1>4, <2>3, <2>5
    <3>4. QED
      BY <2>3, <3>2, <3>3
  <2>6. QED
    BY <2>4, <2>5
<1>6. \A i \in 0..N : h[i] = g[i]
  BY <1>5
<1>7. h = [i \in 0..N |-> h[i]] /\ g = [i \in 0..N |-> g[i]]
  BY <1>3, <1>4
<1>8. h = g
  BY <1>6, <1>7
<1>9. QED
  BY <1>8 DEF h, g

\* From any node all nodes are met, and no other.
LEMMA AllAreMet ==
    ASSUME NEW k, Shape(k), NEW n \in DOMAIN k.node
    PROVE  /\ DOMAIN Hops(k, n) = 0..k.counter
           /\ \A i \in 0..k.counter : Hops(k, n)[i] \in DOMAIN k.node
           /\ \A m \in DOMAIN k.node : \E i \in 0..k.counter : Hops(k, n)[i] = m
<1>1. PICK r : Ring(k, r)
  BY DEF Shape
<1> DEFINE N == k.counter
<1>2. N \in Nat /\ N >= 2 /\ r \in [0..(N - 1) -> DOMAIN k.node]
  BY <1>1 DEF Shape, IsKernel, Ring
<1>3. PICK j \in 0..(N - 1) : r[j] = n
  BY <1>1 DEF Ring
<1>4. Hops(k, n) = Around(k, r, j)
  BY <1>1, <1>3, HopsAround DEF Shape
<1>5. \A i \in 0..N : Hops(k, n)[i] = IF i + j < N THEN r[i + j] ELSE r[i + j - N]
  BY <1>4 DEF Around
<1>6. DOMAIN Hops(k, n) = 0..N
  BY <1>4 DEF Around
<1>7. ASSUME NEW i \in 0..N PROVE Hops(k, n)[i] \in DOMAIN k.node
  <2>1. i + j < N => i + j \in 0..(N - 1)
    BY <1>2
  <2>2. ~(i + j < N) => i + j - N \in 0..(N - 1)
    BY <1>2
  <2>3. QED
    BY <1>2, <1>5, <2>1, <2>2
<1>8. ASSUME NEW m \in DOMAIN k.node PROVE \E i \in 0..N : Hops(k, n)[i] = m
  <2>1. PICK l \in 0..(N - 1) : r[l] = m
    BY <1>1 DEF Ring
  <2>2. CASE l >= j
    <3>1. l - j \in 0..N /\ (l - j) + j < N /\ (l - j) + j = l
      BY <1>2, <2>2
    <3>2. Hops(k, n)[l - j] = r[l]
      BY <1>5, <3>1
    <3>3. QED
      BY <2>1, <3>1, <3>2
  <2>3. CASE l < j
    <3>1. /\ l - j + N \in 0..N /\ ~((l - j + N) + j < N)
          /\ (l - j + N) + j - N = l
      BY <1>2, <2>3
    <3>2. Hops(k, n)[l - j + N] = r[l]
      BY <1>5, <3>1
    <3>3. QED
      BY <2>1, <3>1, <3>2
  <2>4. QED
    BY <2>2, <2>3
<1>9. QED
  BY <1>6, <1>7, <1>8

\* next leads to another node.
LEMMA NextIsOther ==
    ASSUME NEW k, Shape(k), NEW n \in DOMAIN k.node
    PROVE  k.node[n].next \in DOMAIN k.node /\ k.node[n].next # n
<1>1. PICK r : Ring(k, r)
  BY DEF Shape
<1>2. k.counter \in Nat /\ k.counter >= 2
  BY <1>1 DEF Shape, IsKernel, Ring
<1>3. PICK j \in 0..(k.counter - 1) : r[j] = n
  BY <1>1 DEF Ring
<1>4. CASE j # k.counter - 1
  <2>1. j \in 0..(k.counter - 2) /\ j + 1 \in 0..(k.counter - 1) /\ j # j + 1
    BY <1>2, <1>4
  <2>2. k.node[n].next = r[j + 1]
    BY <1>1, <1>3, <2>1 DEF Ring
  <2>3. QED
    BY <1>1, <1>3, <2>1, <2>2 DEF Ring
<1>5. CASE j = k.counter - 1
  <2>1. 0 \in 0..(k.counter - 1) /\ j # 0
    BY <1>2, <1>5
  <2>2. k.node[n].next = r[0]
    BY <1>1, <1>3, <1>5 DEF Ring
  <2>3. QED
    BY <1>1, <1>3, <2>1, <2>2 DEF Ring
<1>6. QED
  BY <1>4, <1>5

\* The nodes met from first on are all there are.
LEMMA RangeIsAll ==
    ASSUME NEW k, Shape(k) PROVE Range(Hops(k, k.first)) = DOMAIN k.node
<1>1. PICK n \in DOMAIN k.node : n = k.first
  BY DEF Shape, Pointers
<1>2. PICK f : f = Hops(k, n)
  OBVIOUS
<1>3. /\ DOMAIN f = 0..k.counter
      /\ \A i \in 0..k.counter : f[i] \in DOMAIN k.node
      /\ \A m \in DOMAIN k.node : \E i \in 0..k.counter : f[i] = m
  BY <1>2, AllAreMet
<1>4. Range(f) = DOMAIN k.node
  BY <1>3 DEF Range
<1>5. QED
  BY <1>1, <1>2, <1>4

\* find_node finds the node of every process there is, and NULL for a pid
\* that no process has.
LEMMA FindNodeFinds ==
    ASSUME NEW k, Shape(k), NEW p
    PROVE  /\ p \in DOMAIN k.proc => /\ FindNode(k, p) \in DOMAIN k.node
                                     /\ FindNode(k, p) # NoNode
                                     /\ PidAt(k, FindNode(k, p)) = p
           /\ p \notin DOMAIN k.proc => FindNode(k, p) = NoNode
<1> DEFINE found == {n \in Range(Hops(k, k.first)) : PidAt(k, n) = p}
<1>1. Range(Hops(k, k.first)) = DOMAIN k.node
  BY RangeIsAll
<1>2. found = {n \in DOMAIN k.node : PidAt(k, n) = p}
  BY <1>1
<1>3. NoNode \notin DOMAIN k.node
  BY DEF Shape, IsKernel, NodeIds, NoNode
<1>4. FindNode(k, p) = IF found = {} THEN NoNode ELSE CHOOSE n \in found : TRUE
  BY DEF FindNode
<1> HIDE DEF found
<1>5. found # {} => FindNode(k, p) \in found
  BY <1>4
<1>6. p \in DOMAIN k.proc <=> found # {}
  BY <1>2 DEF Shape, Homes
<1>7. QED
  BY <1>2, <1>3, <1>4, <1>5, <1>6

\* find_next_ready finds a process that may run, if there is one.
LEMMA FindNextReadyFinds ==
    ASSUME NEW k, Shape(k), NEW n \in DOMAIN k.node, NEW p \in DOMAIN k.proc,
           k.proc[p].state \in {"READY", "NEW"}
    PROVE  /\ FindNextReady(k, n) \in DOMAIN k.node
           /\ FindNextReady(k, n) # NoNode
           /\ StateAt(k, FindNextReady(k, n)) \in {"READY", "NEW"}
<1> DEFINE hop == Hops(k, n)
           ready == {i \in DOMAIN hop : StateAt(k, hop[i]) \in {"READY", "NEW"}}
<1>1. PICK m \in DOMAIN k.node : PidAt(k, m) = p
  BY DEF Shape, Homes
<1>2. PICK i \in 0..k.counter : hop[i] = m
  BY AllAreMet
<1>3. DOMAIN hop = 0..k.counter /\ \A l \in 0..k.counter : hop[l] \in DOMAIN k.node
  BY AllAreMet
<1>4. k.counter \in Nat /\ NoNode \notin DOMAIN k.node
  BY DEF Shape, IsKernel, NodeIds, NoNode
<1>5. FindNextReady(k, n) = IF ready = {} THEN NoNode ELSE hop[Min(ready)]
  BY DEF FindNextReady
<1> HIDE DEF hop
<1>6. i \in ready
  BY <1>1, <1>2, <1>3 DEF StateAt
<1>7. ready \in SUBSET Nat
  BY <1>3, <1>4
<1>8. Min(ready) \in ready
  <2>1. \E x \in ready : \A y \in ready : x <= y
    BY <1>6, <1>7, LeastNat
  <2> HIDE DEF ready
  <2>2. QED
    BY <2>1 DEF Min
<1>9. /\ FindNextReady(k, n) = hop[Min(ready)] /\ Min(ready) \in 0..k.counter
      /\ StateAt(k, hop[Min(ready)]) \in {"READY", "NEW"}
  BY <1>3, <1>5, <1>6, <1>8
<1>10. QED
  BY <1>3, <1>4, <1>9

-----------------------------------------------------------------------------
(***************************************************************************)
(* l differs from k in states, quantums, priorities and who has the CPU or *)
(* is in front, as far as the handlers change those.                       *)
(***************************************************************************)
SameRing(k, l) ==
    /\ DOMAIN l.node = DOMAIN k.node
    /\ \A n \in DOMAIN k.node : /\ l.node[n].proc = k.node[n].proc
                                /\ l.node[n].next = k.node[n].next
    /\ l.first = k.first /\ l.counter = k.counter
    /\ \/ l.foreground = k.foreground /\ l.background = k.background
       \/ l.background = NoNode /\ l.foreground = ShellNode(k)

SameFamily(k, l) ==
    /\ DOMAIN l.proc = DOMAIN k.proc /\ l.pidc = k.pidc
    /\ \A p \in DOMAIN k.proc :
          /\ l.proc[p].ppid = k.proc[p].ppid
          /\ l.proc[p].children = k.proc[p].children
          /\ l.proc[p].waits => l.proc[p].children # 0
    /\ l.proc[Idle].state \in {"READY", "RUNNING"}

\* Such changes break nothing: first the shape of the ring.
LEMMA SameShape ==
    ASSUME NEW k, NEW l, Shape(k), IsKernel(l), SameRing(k, l),
           DOMAIN l.proc = DOMAIN k.proc
    PROVE  Shape(l)
<1>1. \E r : Ring(l, r)
  <2>1. PICK r : Ring(k, r)
    BY DEF Shape
  <2>2. k.counter \in Nat /\ k.counter >= 2
    BY <2>1 DEF Shape, IsKernel, Ring
  <2>3. \A i \in 0..(k.counter - 2) : i \in 0..(k.counter - 1)
    BY <2>2
  <2>4. k.counter - 1 \in 0..(k.counter - 1)
    BY <2>2
  <2>5. Ring(l, r)
    BY <2>1, <2>2, <2>3, <2>4 DEF Ring, SameRing
  <2>6. QED
    BY <2>5
<1>2. \A n \in DOMAIN k.node : PidAt(l, n) = PidAt(k, n)
  BY DEF SameRing, PidAt
<1>3. Homes(l)
  BY <1>2 DEF Shape, Homes, SameRing
<1>4. k.first \in DOMAIN k.node /\ ShellNode(l) = ShellNode(k)
  BY DEF Shape, Pointers, SameRing, ShellNode
<1>5. Pointers(l)
  BY <1>2, <1>4 DEF Shape, Pointers, SameRing
<1>6. QED
  BY <1>1, <1>3, <1>5 DEF Shape

\* Then the families.
LEMMA Untouched ==
    ASSUME NEW k, NEW l, Shape(k), Family(k), IsKernel(l), SameRing(k, l),
           SameFamily(k, l)
    PROVE  Shape(l) /\ Family(l)
<1>1. Shape(l)
  BY SameShape DEF SameFamily
<1>2. \A p : ChildrenOf(l, p) = ChildrenOf(k, p)
  BY DEF ChildrenOf, SameFamily
<1>3. Family(l)
  BY <1>2 DEF Family, SameFamily
<1>4. QED
  BY <1>1, <1>3

\* A change of the state of one process.
LEMMA StateIsSet ==
    ASSUME NEW k, Shape(k), Family(k), NEW p \in DOMAIN k.proc,
           NEW s \in States, p = Idle => s \in {"READY", "RUNNING"}
    PROVE  LET l == SetState(k, p, s)
           IN  /\ Shape(l) /\ Family(l) /\ l.node = k.node
               /\ l.current = k.current /\ l.first = k.first
               /\ l.foreground = k.foreground /\ l.background = k.background
               /\ l.counter = k.counter /\ l.pidc = k.pidc
               /\ DOMAIN l.proc = DOMAIN k.proc
               /\ \A q \in DOMAIN k.proc :
                     /\ l.proc[q].state = IF q = p THEN s ELSE k.proc[q].state
                     /\ l.proc[q].ppid = k.proc[q].ppid
                     /\ l.proc[q].children = k.proc[q].children
                     /\ l.proc[q].waits => k.proc[q].waits
                     /\ l.proc[q].priority = k.proc[q].priority
<1> DEFINE l == SetState(k, p, s)
           t == InState(k.proc[p], s)
           procs == [k.proc EXCEPT ![p] = t]
<1>1. k.proc \in [DOMAIN k.proc -> ProcRec] /\ IsKernel(k)
  BY DEF Shape, IsKernel
<1>2. t \in ProcRec
  BY <1>1 DEF ProcRec, InState
<1>3. /\ t.state = s /\ t.ppid = k.proc[p].ppid
      /\ t.children = k.proc[p].children /\ (t.waits => k.proc[p].waits)
      /\ t.priority = k.proc[p].priority
  BY <1>1 DEF ProcRec, InState
<1>4. l = [node |-> k.node, proc |-> procs, current |-> k.current,
           first |-> k.first, foreground |-> k.foreground,
           background |-> k.background, counter |-> k.counter, pidc |-> k.pidc]
  BY <1>1 DEF SetState, IsKernel
<1> HIDE DEF l, t
<1>5. /\ DOMAIN procs = DOMAIN k.proc /\ procs \in [DOMAIN k.proc -> ProcRec]
      /\ procs[p] = t
      /\ \A q \in DOMAIN k.proc : q # p => procs[q] = k.proc[q]
  BY <1>1, <1>2
<1> HIDE DEF procs
<1>6. IsKernel(l)
  BY <1>1, <1>4, <1>5 DEF IsKernel
<1>7. SameRing(k, l)
  BY <1>4 DEF SameRing
<1>8. Idle \in DOMAIN k.proc
  BY DEF Shape, Homes, Pointers
<1>9. SameFamily(k, l)
  BY <1>3, <1>4, <1>5, <1>8 DEF SameFamily, Family
<1>10. Shape(l) /\ Family(l)
  BY <1>6, <1>7, <1>9, Untouched
<1>11. QED
  BY <1>3, <1>4, <1>5, <1>10 DEF l

\* The CPU goes to some process, which is marked.
LEMMA Dispatched ==
    ASSUME NEW k, Shape(k), Family(k), NoneRuns(k), NEW n \in DOMAIN k.node
    PROVE  LET l == Dispatch(k, n)
           IN  /\ Shape(l) /\ Family(l) /\ Marked(l)
               /\ l.foreground = k.foreground /\ l.background = k.background
               /\ DOMAIN l.node = DOMAIN k.node
               /\ \A m \in DOMAIN k.node : PidAt(l, m) = PidAt(k, m)
               /\ DOMAIN l.proc = DOMAIN k.proc
               /\ \A q \in DOMAIN k.proc :
                     l.proc[q].state \in {k.proc[q].state, "RUNNING"}
<1> DEFINE l == Dispatch(k, n)
           m == FindNextReady(k, n)
           p == PidAt(k, m)
           h == SetState(k, p, "RUNNING")
           b == [h.node[m] EXCEPT !.quantums = k.proc[p].priority]
           nodes == [h.node EXCEPT ![m] = b]
<1>1. Idle \in DOMAIN k.proc /\ k.proc[Idle].state \in {"READY", "NEW"}
  BY DEF Shape, Homes, Pointers, Family, NoneRuns
<1>2. m \in DOMAIN k.node /\ m # NoNode
  BY <1>1, FindNextReadyFinds
<1>3. p \in DOMAIN k.proc
  BY <1>2 DEF Shape, Homes
<1> HIDE DEF m
<1>4. /\ Shape(h) /\ Family(h) /\ h.node = k.node /\ h.first = k.first
      /\ h.foreground = k.foreground /\ h.background = k.background
      /\ h.counter = k.counter /\ h.pidc = k.pidc
      /\ DOMAIN h.proc = DOMAIN k.proc
      /\ \A q \in DOMAIN k.proc :
            h.proc[q].state = IF q = p THEN "RUNNING" ELSE k.proc[q].state
  BY <1>3, StateIsSet DEF States
<1>5. l = [h EXCEPT !.current = m, !.node[m].quantums = k.proc[p].priority]
  BY <1>2 DEF Dispatch, m
<1> HIDE DEF h, l, p
<1>6. IsKernel(h) /\ h.node \in [DOMAIN h.node -> NodeRec] /\ m \in DOMAIN h.node
  BY <1>2, <1>4 DEF Shape, IsKernel
<1>7. k.proc[p].priority \in Nat
  BY <1>3 DEF Shape, IsKernel, ProcRec
<1>8. b \in NodeRec /\ b.proc = h.node[m].proc /\ b.next = h.node[m].next
  BY <1>6, <1>7 DEF NodeRec
<1> HIDE DEF b
<1>9. /\ nodes \in [DOMAIN h.node -> NodeRec] /\ DOMAIN nodes = DOMAIN h.node
      /\ \A i \in DOMAIN h.node : /\ nodes[i].proc = h.node[i].proc
                                  /\ nodes[i].next = h.node[i].next
  BY <1>6, <1>8
<1>10. l = [node |-> nodes, proc |-> h.proc, current |-> m,
            first |-> h.first, foreground |-> h.foreground,
            background |-> h.background, counter |-> h.counter, pidc |-> h.pidc]
  <2> DEFINE g == [h EXCEPT !.current = m]
  <2>1. g = [node |-> h.node, proc |-> h.proc, current |-> m,
             first |-> h.first, foreground |-> h.foreground,
             background |-> h.background, counter |-> h.counter, pidc |-> h.pidc]
    BY <1>6 DEF IsKernel
  <2>2. l = [g EXCEPT !.node[m].quantums = k.proc[p].priority]
    BY <1>5, <1>6 DEF IsKernel
  <2> HIDE DEF g
  <2>3. QED
    BY <2>1, <2>2 DEF b
<1> HIDE DEF nodes
<1>11. IsKernel(l)
  BY <1>6, <1>9, <1>10 DEF IsKernel
<1>12. SameRing(h, l)
  BY <1>9, <1>10 DEF SameRing
<1>13. SameFamily(h, l)
  BY <1>4, <1>10 DEF SameFamily, Family
<1>14. Shape(l) /\ Family(l)
  BY <1>4, <1>11, <1>12, <1>13, Untouched
<1>15. CurrentPid(l) = p
  BY <1>4, <1>6, <1>9, <1>10 DEF CurrentPid, PidAt, p
<1>16. Marked(l)
  <2>1. l.proc = h.proc /\ h.proc[p].state = "RUNNING"
    BY <1>3, <1>4, <1>10
  <2>2. \A q \in DOMAIN l.proc : l.proc[q].state = "RUNNING" => q = p
    BY <1>4, <2>1 DEF NoneRuns
  <2>3. QED
    BY <1>15, <2>1, <2>2 DEF Marked
<1>17. \A i \in DOMAIN k.node : PidAt(l, i) = PidAt(k, i)
  BY <1>4, <1>9, <1>10 DEF PidAt
<1>18. QED
  BY <1>4, <1>9, <1>10, <1>14, <1>16, <1>17 DEF l

-----------------------------------------------------------------------------
(***************************************************************************)
(* destroy_node.  A process that is neither IDLE nor the shell, and is not *)
(* in front of another, has the CPU and leaves: the ring closes without    *)
(* the node behind it, and the pointers are to the processes they were to. *)
(***************************************************************************)
MayLeave(k) ==
    /\ CurrentPid(k) \notin {Idle, Shell}
    /\ k.background = NoNode \/ k.current # k.foreground

\* What remains of the processes and pointers.
HasLeft(k, l) ==
    /\ DOMAIN l.proc = DOMAIN k.proc \ {CurrentPid(k)}
    /\ \A p \in DOMAIN l.proc : l.proc[p] = k.proc[p]
    /\ l.current = k.current /\ l.pidc = k.pidc
    /\ l.foreground = k.foreground /\ l.background = k.background

\* The fields that TakeOver changes.
LEMMA TakeOverFields ==
    ASSUME NEW k, Shape(k), MayLeave(k),
           NEW n, n = k.current, NEW x, x = k.node[n].next,
           NEW l, l = TakeOver(k, k.current)
    PROVE  /\ n \in DOMAIN k.node /\ x \in DOMAIN k.node
           /\ l = [node |-> l.node, proc |-> l.proc, current |-> n,
                   first |-> IF PidAt(k, x) = Idle THEN n ELSE k.first,
                   foreground |-> k.foreground,
                   background |-> k.background,
                   counter |-> k.counter - 1, pidc |-> k.pidc]
           /\ DOMAIN l.node = DOMAIN k.node \ {x}
           /\ l.node \in [DOMAIN l.node -> NodeRec]
           /\ n # x => /\ l.node[n].proc = k.node[x].proc
                       /\ l.node[n].next = k.node[x].next
           /\ \A m \in DOMAIN l.node : m # n => l.node[m] = k.node[m]
           /\ HasLeft(k, l)
           /\ l.proc \in [DOMAIN l.proc -> ProcRec]
<1> DEFINE b == [k.node[x] EXCEPT !.quantums = k.node[n].quantums]
           nodes == [m \in DOMAIN k.node \ {x} |-> IF m = n THEN b ELSE k.node[m]]
           procs == [p \in DOMAIN k.proc \ {PidAt(k, n)} |-> k.proc[p]]
<1>1. /\ IsKernel(k) /\ k.node \in [DOMAIN k.node -> NodeRec]
      /\ k.proc \in [DOMAIN k.proc -> ProcRec] /\ n \in DOMAIN k.node
  BY DEF Shape, IsKernel
<1>2. x \in DOMAIN k.node
  BY <1>1, NextIsOther
<1>3. l = [node |-> nodes, proc |-> procs, current |-> n,
           first |-> IF PidAt(k, x) = Idle THEN n ELSE k.first,
           foreground |-> k.foreground, background |-> k.background,
           counter |-> k.counter - 1, pidc |-> k.pidc]
  <2> DEFINE first == IF PidAt(k, x) = Idle THEN n ELSE k.first
  <2>1. Restrict(k.proc, DOMAIN k.proc \ {PidAt(k, n)}) = procs
    BY DEF Restrict
  <2> HIDE DEF procs
  <2>2. l = [k EXCEPT !.counter = k.counter - 1, !.proc = procs, !.node = nodes,
                      !.first = first]
    BY <2>1 DEF TakeOver
  <2> HIDE DEF nodes, first
  <2>3. k = [node |-> k.node, proc |-> k.proc, current |-> k.current,
             first |-> k.first, foreground |-> k.foreground,
             background |-> k.background, counter |-> k.counter,
             pidc |-> k.pidc]
    BY <1>1 DEF IsKernel
  <2>4. QED
    BY <2>2, <2>3 DEF first
<1>4. b \in NodeRec /\ b.proc = k.node[x].proc /\ b.next = k.node[x].next
  BY <1>1, <1>2 DEF NodeRec
<1> HIDE DEF b
<1>5. /\ DOMAIN nodes = DOMAIN k.node \ {x} /\ nodes \in [DOMAIN nodes -> NodeRec]
      /\ n # x => nodes[n] = b
      /\ \A m \in DOMAIN nodes : m # n => nodes[m] = k.node[m]
  BY <1>1, <1>4
<1>6. /\ DOMAIN procs = DOMAIN k.proc \ {PidAt(k, n)}
      /\ procs \in [DOMAIN procs -> ProcRec]
      /\ \A p \in DOMAIN procs : procs[p] = k.proc[p]
  BY <1>1
<1> HIDE DEF nodes, procs
<1>7. HasLeft(k, l)
  BY <1>3, <1>6 DEF HasLeft, CurrentPid
<1>8. l.node = nodes /\ l.proc = procs
  BY <1>3
<1>9. n # x => l.node[n].proc = k.node[x].proc /\ l.node[n].next = k.node[x].next
  BY <1>4, <1>5, <1>8
<1>10. l = [node |-> l.node, proc |-> l.proc, current |-> n,
            first |-> IF PidAt(k, x) = Idle THEN n ELSE k.first,
            foreground |-> k.foreground, background |-> k.background,
            counter |-> k.counter - 1, pidc |-> k.pidc]
  BY <1>3, <1>8, Zenon
<1>11. /\ DOMAIN l.node = DOMAIN k.node \ {x}
       /\ l.node \in [DOMAIN l.node -> NodeRec]
       /\ \A m \in DOMAIN l.node : m # n => l.node[m] = k.node[m]
       /\ l.proc \in [DOMAIN l.proc -> ProcRec]
  BY <1>5, <1>6, <1>8, Zenon
<1>12. QED
  BY <1>1, <1>2, <1>7, <1>9, <1>10, <1>11, Zenon

\* Where the shell and the process in front are in the ring.
LEMMA FirstPlaces ==
    ASSUME NEW k, NEW r, Shape(k), Ring(k, r)
    PROVE  /\ PidAt(k, r[0]) = Idle
           /\ r[1] = ShellNode(k) /\ PidAt(k, r[1]) = Shell
           /\ \A m \in DOMAIN k.node : k.node[m].next = r[1] => m = r[0]
           /\ k.background # NoNode =>
                 \A m \in DOMAIN k.node : k.node[m].next = k.foreground => m = r[1]
<1> DEFINE N == k.counter
<1>1. N \in Nat /\ N >= 2 /\ 0 \in 0..(N - 2) /\ 0 \in 0..(N - 1) /\ 1 \in 0..(N - 1)
  <2>1. N \in Nat /\ N >= 2
    BY DEF Shape, IsKernel, Ring
  <2>2. QED
    BY <2>1
<1>2. PidAt(k, r[0]) = Idle /\ r[1] = ShellNode(k) /\ PidAt(k, r[1]) = Shell
  <2>1. k.node[r[0]].next = r[0 + 1]
    BY <1>1 DEF Ring
  <2>2. QED
    BY <2>1 DEF Ring, Shape, Pointers, ShellNode
<1>3. ASSUME NEW i \in 0..(N - 1), NEW m \in DOMAIN k.node, i # 0,
             k.node[m].next = r[i]
      PROVE  m = r[i - 1]
  <2>1. PICK j \in 0..(N - 1) : r[j] = m
    BY DEF Ring
  <2>2. CASE j = N - 1
    BY <1>1, <1>3, <2>1, <2>2 DEF Ring
  <2>3. CASE j # N - 1
    <3>1. j \in 0..(N - 2) /\ j + 1 \in 0..(N - 1)
      BY <1>1, <2>3
    <3>2. k.node[r[j]].next = r[j + 1]
      BY <3>1 DEF Ring
    <3>3. i = j + 1
      BY <1>3, <2>1, <3>1, <3>2 DEF Ring
    <3>4. i - 1 = j
      BY <1>1, <3>3
    <3>5. QED
      BY <2>1, <3>4
  <2>4. QED
    BY <2>2, <2>3
<1>4. \A m \in DOMAIN k.node : k.node[m].next = r[1] => m = r[0]
  <2>1. 1 - 1 = 0
    OBVIOUS
  <2>2. QED
    BY <1>1, <1>3, <2>1
<1>5. ASSUME k.background # NoNode, NEW m \in DOMAIN k.node,
             k.node[m].next = k.foreground
      PROVE  m = r[1]
  <2>1. /\ k.foreground = k.node[r[1]].next /\ k.foreground \in DOMAIN k.node
        /\ PidAt(k, k.foreground) # Idle
    BY <1>2, <1>5 DEF Shape, Pointers
  <2>2. PICK i \in 0..(N - 1) : r[i] = k.foreground
    BY <2>1 DEF Ring
  <2>3. i # 0
    BY <1>2, <2>1, <2>2
  <2>4. m = r[i - 1]
    BY <1>3, <1>5, <2>2, <2>3
  <2>5. r[1] \in DOMAIN k.node
    BY <1>1 DEF Ring
  <2>6. r[1] = r[i - 1]
    BY <1>3, <2>1, <2>2, <2>3, <2>5
  <2>7. QED
    BY <2>4, <2>6
<1>6. QED
  BY <1>2, <1>4, <1>5

\* The ring closes.
LEMMA RingCloses ==
    ASSUME NEW k, Shape(k), MayLeave(k)
    PROVE  \E s : Ring(TakeOver(k, k.current), s)
<1>1. PICK l : l = TakeOver(k, k.current)
  OBVIOUS
<1>2. PICK n, x : n = k.current /\ x = k.node[n].next
  OBVIOUS
<1>3. /\ n \in DOMAIN k.node /\ x \in DOMAIN k.node
      /\ l.first = IF PidAt(k, x) = Idle THEN n ELSE k.first
      /\ l.counter = k.counter - 1
      /\ DOMAIN l.node = DOMAIN k.node \ {x}
      /\ n # x => l.node[n].next = k.node[x].next
      /\ \A m \in DOMAIN l.node : m # n => l.node[m] = k.node[m]
  BY <1>1, <1>2, TakeOverFields
<1>4. PICK r : Ring(k, r)
  BY DEF Shape
<1>5. PICK N : N = k.counter
  OBVIOUS
<1>6. N \in Nat /\ N >= 2
  BY <1>4, <1>5 DEF Shape, IsKernel, Ring
<1>7. /\ r \in [0..(N - 1) -> DOMAIN k.node]
      /\ \A m \in DOMAIN k.node : \E i \in 0..(N - 1) : r[i] = m
      /\ \A i, j \in 0..(N - 1) : r[i] = r[j] => i = j
      /\ r[0] = k.first
      /\ \A i \in 0..(N - 2) : k.node[r[i]].next = r[i + 1]
      /\ k.node[r[N - 1]].next = r[0]
  BY <1>4, <1>5 DEF Ring
<1>8. PICK j \in 0..(N - 1) : r[j] = n
  BY <1>3, <1>7
<1>9. j # 0 /\ j # 1
  BY <1>2, <1>4, <1>8, FirstPlaces DEF MayLeave, CurrentPid
<1>10. N \in Nat /\ N >= 3 /\ j >= 2
  BY <1>6, <1>8, <1>9
<1>11. \A i \in 0..(N - 1) : PidAt(k, r[i]) = Idle => i = 0
  <2>1. \A i \in 0..(N - 1) : r[i] \in DOMAIN k.node
    BY <1>7
  <2>2. 0 \in 0..(N - 1)
    BY <1>6
  <2>3. PidAt(k, r[0]) = Idle
    BY <1>4, FirstPlaces
  <2>4. QED
    BY <1>7, <2>1, <2>2, <2>3 DEF Shape, Homes
<1>12. CASE j = N - 1
  <2> DEFINE s == [i \in 0..(N - 2) |-> IF i = 0 THEN r[N - 1] ELSE r[i]]
  <2>1. x = r[0] /\ PidAt(k, x) = Idle /\ l.first = n
    BY <1>2, <1>3, <1>4, <1>7, <1>8, <1>12, FirstPlaces
  <2>2. /\ s[0] = r[N - 1] /\ \A i \in 0..(N - 2) : i # 0 => s[i] = r[i]
        /\ DOMAIN s = 0..(N - 2)
        /\ s = [i \in 0..(N - 2) |-> s[i]]
    BY <1>10
  <2> HIDE DEF s
  <2>3. \A i \in 0..(N - 2) : i \in 0..(N - 1) /\ i # N - 1
    BY <1>10
  <2>4. 0 \in 0..(N - 1) /\ N - 1 \in 0..(N - 1) /\ 0 # N - 1
    BY <1>10
  <2>5. \A i \in 0..(N - 2) : s[i] \in DOMAIN l.node
    BY <1>3, <1>7, <2>1, <2>2, <2>3, <2>4
  <2>6. s \in [0..(N - 2) -> DOMAIN l.node]
    BY <2>2, <2>5
  <2>7. ASSUME NEW m \in DOMAIN l.node PROVE \E i \in 0..(N - 2) : s[i] = m
    <3>1. PICK i \in 0..(N - 1) : r[i] = m
      BY <1>3, <1>7
    <3>2. i # 0
      BY <1>3, <2>1, <3>1
    <3>3. CASE i = N - 1
      <4>1. 0 \in 0..(N - 2)
        BY <1>10
      <4>2. QED
        BY <2>2, <3>1, <3>3, <4>1
    <3>4. CASE i # N - 1
      <4>1. i \in 0..(N - 2)
        BY <1>10, <3>4
      <4>2. QED
        BY <2>2, <3>1, <3>2, <4>1
    <3>5. QED
      BY <3>3, <3>4
  <2>8. \A a, b \in 0..(N - 2) : s[a] = s[b] => a = b
    BY <1>7, <2>2, <2>3, <2>4
  <2>9. s[0] = l.first
    BY <1>8, <1>12, <2>1, <2>2
  <2>10. ASSUME NEW i \in 0..(N - 3) PROVE l.node[s[i]].next = s[i + 1]
    <3>1. /\ i + 1 \in 0..(N - 2) /\ i + 1 # 0 /\ i \in 0..(N - 2)
          /\ 0 \in 0..(N - 2) /\ i \in Nat
      BY <1>10
    <3>2. s[i + 1] = r[i + 1]
      BY <2>2, <3>1
    <3>3. CASE i = 0
      <4>1. l.node[n].next = k.node[r[0]].next
        <5>1. n # x
          BY <1>7, <1>8, <1>12, <2>1, <2>4
        <5>2. QED
          BY <1>3, <2>1, <5>1
      <4>2. k.node[r[0]].next = r[0 + 1]
        BY <1>7, <3>1
      <4>3. s[i] = n
        BY <1>8, <1>12, <2>2, <3>3
      <4>4. QED
        BY <3>2, <3>3, <4>1, <4>2, <4>3
    <3>4. CASE i # 0
      <4>1. s[i] = r[i] /\ r[i] # n /\ r[i] \in DOMAIN l.node
        BY <1>7, <1>8, <1>12, <2>2, <2>3, <2>5, <3>1, <3>4
      <4>2. l.node[s[i]] = k.node[r[i]]
        BY <1>3, <4>1
      <4>3. k.node[r[i]].next = r[i + 1]
        BY <1>7, <3>1
      <4>4. QED
        BY <3>2, <4>2, <4>3
    <3>5. QED
      BY <3>3, <3>4
  <2>11. l.node[s[N - 2]].next = s[0]
    <3>1. N - 2 \in 0..(N - 2) /\ N - 2 # 0 /\ (N - 2) + 1 = N - 1
      BY <1>10
    <3>2. s[N - 2] = r[N - 2] /\ r[N - 2] # n /\ r[N - 2] \in DOMAIN l.node
      BY <1>7, <1>8, <1>12, <2>2, <2>3, <2>5, <3>1
    <3>3. l.node[s[N - 2]] = k.node[r[N - 2]]
      BY <1>3, <3>2
    <3>4. k.node[r[N - 2]].next = r[N - 1]
      BY <1>7, <3>1
    <3>5. QED
      BY <2>2, <3>3, <3>4
  <2>12. l.counter - 1 = N - 2 /\ l.counter - 2 = N - 3 /\ l.counter >= 2
    BY <1>3, <1>5, <1>10
  <2>13. Ring(l, s)
    BY <2>6, <2>7, <2>8, <2>9, <2>10, <2>11, <2>12 DEF Ring
  <2>14. QED
    BY <1>1, <2>13
<1>13. CASE j # N - 1
  <2> DEFINE s == [i \in 0..(N - 2) |-> IF i <= j THEN r[i] ELSE r[i + 1]]
  <2>1. j \in 0..(N - 2) /\ j + 1 \in 0..(N - 1) /\ j + 1 # 0 /\ j \in Nat
    BY <1>6, <1>13
  <2>2. x = r[j + 1] /\ n # x
    BY <1>2, <1>7, <1>8, <2>1
  <2>3. l.first = k.first
    BY <1>3, <1>11, <2>1, <2>2
  <2>4. /\ \A i \in 0..(N - 2) : /\ i <= j => s[i] = r[i]
                                 /\ ~(i <= j) => s[i] = r[i + 1]
        /\ s = [i \in 0..(N - 2) |-> s[i]]
    OBVIOUS
  <2> HIDE DEF s
  <2>5. \A i \in 0..(N - 2) : /\ i \in 0..(N - 1) /\ i + 1 \in 0..(N - 1)
                              /\ i \in Int
                              /\ i <= j => i # j + 1
                              /\ ~(i <= j) => i + 1 # j + 1 /\ i + 1 # j
    BY <1>6
  <2>6. \A i \in 0..(N - 2) : s[i] \in DOMAIN l.node
    <3> SUFFICES ASSUME NEW i \in 0..(N - 2) PROVE s[i] \in DOMAIN l.node
      OBVIOUS
    <3>1. CASE i <= j
      BY <1>3, <1>7, <2>1, <2>2, <2>4, <2>5, <3>1
    <3>2. CASE ~(i <= j)
      BY <1>3, <1>7, <2>1, <2>2, <2>4, <2>5, <3>2
    <3>3. QED
      BY <3>1, <3>2
  <2>7. s \in [0..(N - 2) -> DOMAIN l.node]
    BY <2>4, <2>6
  <2>8. ASSUME NEW m \in DOMAIN l.node PROVE \E i \in 0..(N - 2) : s[i] = m
    <3>1. PICK i \in 0..(N - 1) : r[i] = m
      BY <1>3, <1>7
    <3>2. i # j + 1
      BY <1>3, <2>2, <3>1
    <3>3. CASE i <= j
      <4>1. i \in 0..(N - 2)
        BY <1>6, <2>1, <3>3
      <4>2. QED
        BY <2>4, <3>1, <3>3, <4>1
    <3>4. CASE i > j
      <4>1. i - 1 \in 0..(N - 2) /\ ~(i - 1 <= j) /\ (i - 1) + 1 = i
        BY <1>6, <2>1, <3>2, <3>4
      <4>2. s[i - 1] = r[i]
        BY <2>4, <4>1
      <4>3. QED
        BY <3>1, <4>1, <4>2
    <3>5. QED
      BY <2>1, <3>3, <3>4
  <2>9. ASSUME NEW a \in 0..(N - 2), NEW b \in 0..(N - 2), s[a] = s[b]
        PROVE  a = b
    <3> DEFINE A == IF a <= j THEN a ELSE a + 1
               B == IF b <= j THEN b ELSE b + 1
    <3>1. s[a] = r[A] /\ s[b] = r[B] /\ A \in 0..(N - 1) /\ B \in 0..(N - 1)
      BY <2>4, <2>5
    <3>2. A = B
      BY <1>7, <2>9, <3>1
    <3>3. QED
      BY <2>1, <3>2
  <2>10. s[0] = l.first
    <3>1. 0 \in 0..(N - 2) /\ 0 <= j
      BY <1>6, <2>1
    <3>2. QED
      BY <1>7, <2>3, <2>4, <3>1
  <2>11. ASSUME NEW i \in 0..(N - 3) PROVE l.node[s[i]].next = s[i + 1]
    <3>1. /\ i \in 0..(N - 2) /\ i + 1 \in 0..(N - 2) /\ i \in Nat
          /\ (i + 1) + 1 = i + 2
      BY <1>10
    <3>2. CASE i < j
      <4>1. i <= j /\ i + 1 <= j /\ i # j
        BY <2>1, <3>1, <3>2
      <4>2. s[i] = r[i] /\ s[i + 1] = r[i + 1] /\ r[i] # n
        BY <1>7, <1>8, <2>4, <2>5, <3>1, <4>1
      <4>3. QED
        BY <1>3, <1>7, <2>6, <3>1, <4>2
    <3>3. CASE i = j
      <4>1. i <= j /\ ~(i + 1 <= j)
        BY <2>1, <3>1, <3>3
      <4>2. s[i] = n /\ s[i + 1] = r[(i + 1) + 1]
        BY <1>8, <2>4, <3>1, <3>3, <4>1
      <4>3. k.node[r[j + 1]].next = r[(j + 1) + 1]
        BY <1>7, <3>1, <3>3
      <4>4. QED
        BY <1>3, <2>2, <3>3, <4>2, <4>3
    <3>4. CASE i > j
      <4>1. ~(i <= j) /\ ~(i + 1 <= j)
        BY <2>1, <3>1, <3>4
      <4>2. s[i] = r[i + 1] /\ s[i + 1] = r[(i + 1) + 1] /\ r[i + 1] # n
        BY <1>7, <1>8, <2>4, <2>5, <3>1, <4>1
      <4>3. k.node[r[i + 1]].next = r[(i + 1) + 1]
        BY <1>7, <3>1
      <4>4. QED
        BY <1>3, <2>6, <3>1, <4>2, <4>3
    <3>5. QED
      BY <2>1, <3>1, <3>2, <3>3, <3>4
  <2>12. l.node[s[N - 2]].next = s[0]
    <3>1. N - 2 \in 0..(N - 2) /\ (N - 2) + 1 = N - 1 /\ 0 \in 0..(N - 2) /\ 0 <= j
      BY <1>10, <2>1
    <3>2. s[0] = r[0]
      BY <2>4, <3>1
    <3>3. CASE j = N - 2
      <4>1. N - 2 <= j /\ j + 1 = N - 1
        BY <1>6, <3>3
      <4>2. s[N - 2] = n
        BY <1>8, <2>4, <3>1, <3>3, <4>1
      <4>3. QED
        BY <1>3, <1>7, <2>2, <3>2, <4>1, <4>2
    <3>4. CASE j # N - 2
      <4>1. ~(N - 2 <= j)
        BY <1>6, <2>1, <3>4
      <4>2. s[N - 2] = r[N - 1] /\ r[N - 1] # n
        BY <1>7, <1>8, <1>13, <2>4, <2>5, <3>1, <4>1
      <4>3. QED
        BY <1>3, <1>7, <2>6, <3>1, <3>2, <4>2
    <3>5. QED
      BY <3>3, <3>4
  <2>13. l.counter - 1 = N - 2 /\ l.counter - 2 = N - 3 /\ l.counter >= 2
    BY <1>3, <1>5, <1>10
  <2>14. Ring(l, s)
    BY <2>7, <2>8, <2>9, <2>10, <2>11, <2>12, <2>13 DEF Ring
  <2>15. QED
    BY <1>1, <2>14
<1>14. QED
  BY <1>12, <1>13

\* All pointers are still to the processes they were to.
LEMMA TakenOver ==
    ASSUME NEW k, Shape(k), MayLeave(k), NEW l, l = TakeOver(k, k.current)
    PROVE  Shape(l) /\ HasLeft(k, l)
<1>1. PICK n, x : n = k.current /\ x = k.node[n].next
  OBVIOUS
<1>2. /\ n \in DOMAIN k.node /\ x \in DOMAIN k.node
      /\ l = [node |-> l.node, proc |-> l.proc, current |-> n,
              first |-> IF PidAt(k, x) = Idle THEN n ELSE k.first,
              foreground |-> k.foreground, background |-> k.background,
              counter |-> k.counter - 1, pidc |-> k.pidc]
      /\ DOMAIN l.node = DOMAIN k.node \ {x}
      /\ l.node \in [DOMAIN l.node -> NodeRec]
      /\ n # x => /\ l.node[n].proc = k.node[x].proc
                  /\ l.node[n].next = k.node[x].next
      /\ \A m \in DOMAIN l.node : m # n => l.node[m] = k.node[m]
      /\ HasLeft(k, l)
      /\ l.proc \in [DOMAIN l.proc -> ProcRec]
  <2>1. l = [node |-> l.node, proc |-> l.proc, current |-> n,
             first |-> IF PidAt(k, x) = Idle THEN n ELSE k.first,
             foreground |-> k.foreground, background |-> k.background,
             counter |-> k.counter - 1, pidc |-> k.pidc]
    BY <1>1, TakeOverFields
  <2>2. /\ n \in DOMAIN k.node /\ x \in DOMAIN k.node
        /\ DOMAIN l.node = DOMAIN k.node \ {x}
        /\ l.node \in [DOMAIN l.node -> NodeRec]
        /\ n # x => /\ l.node[n].proc = k.node[x].proc
                    /\ l.node[n].next = k.node[x].next
        /\ \A m \in DOMAIN l.node : m # n => l.node[m] = k.node[m]
    BY <1>1, TakeOverFields
  <2>3. HasLeft(k, l) /\ l.proc \in [DOMAIN l.proc -> ProcRec]
    BY <1>1, TakeOverFields
  <2>4. QED
    BY <2>1, <2>2, <2>3
<1>3. PICK r : Ring(k, r)
  BY DEF Shape
<1>4. /\ IsKernel(k) /\ k.counter \in Nat /\ k.counter >= 2 /\ Homes(k)
      /\ Pointers(k)
  BY <1>3 DEF Shape, IsKernel, Ring
<1>5. PICK q : q = PidAt(k, n)
  OBVIOUS
<1>6. q \notin {Idle, Shell} /\ q \in DOMAIN k.proc
  BY <1>1, <1>2, <1>4, <1>5 DEF MayLeave, CurrentPid, Homes
<1>7. /\ DOMAIN l.proc = DOMAIN k.proc \ {q}
      /\ \A p \in DOMAIN l.proc : l.proc[p] = k.proc[p]
  BY <1>1, <1>2, <1>5 DEF HasLeft, CurrentPid
<1>8. PICK s : Ring(l, s)
  BY RingCloses
<1>9. ShellNode(k) # x /\ (k.background # NoNode => k.foreground # x)
  <2>1. /\ r[1] = ShellNode(k) /\ PidAt(k, r[0]) = Idle /\ PidAt(k, r[1]) = Shell
        /\ k.node[n].next = r[1] => n = r[0]
        /\ k.background # NoNode => (k.node[n].next = k.foreground => n = r[1])
    BY <1>2, <1>3, FirstPlaces
  <2>2. QED
    BY <1>1, <1>5, <1>6, <2>1
<1>10. n # x
  BY <1>1, <1>2, NextIsOther
<1>11. n \in DOMAIN l.node
  BY <1>2, <1>10
<1>12. IsKernel(l)
  <2>1. DOMAIN l.node \subseteq NodeIds /\ DOMAIN l.proc \subseteq Pids
    BY <1>2, <1>4, <1>7 DEF IsKernel
  <2>2. l.counter \in Nat /\ l.pidc \in Nat
    BY <1>2, <1>4 DEF IsKernel
  <2>3. l.current \in DOMAIN l.node
    BY <1>2, <1>11
  <2>4. /\ l.current = n /\ l.foreground = k.foreground
        /\ l.first = IF PidAt(k, x) = Idle THEN n ELSE k.first
        /\ l.background = k.background
        /\ l.counter = k.counter - 1 /\ l.pidc = k.pidc
    BY <1>2
  <2>5. l = [node |-> l.node, proc |-> l.proc, current |-> l.current,
             first |-> l.first, foreground |-> l.foreground,
             background |-> l.background, counter |-> l.counter,
             pidc |-> l.pidc]
    BY <1>2, <2>4
  <2>6. QED
    BY <1>2, <2>1, <2>2, <2>3, <2>5 DEF IsKernel
<1>13. /\ l.first = IF PidAt(k, x) = Idle THEN n ELSE k.first
       /\ l.foreground = k.foreground /\ l.background = k.background
       /\ l.counter = k.counter - 1
  BY <1>2
<1>14. /\ PidAt(l, n) = PidAt(k, x)
       /\ \A m \in DOMAIN l.node : m # n => PidAt(l, m) = PidAt(k, m)
  BY <1>2, <1>10 DEF PidAt
<1>15. Homes(l)
  <2>1. \A m \in DOMAIN l.node : PidAt(l, m) \in DOMAIN l.proc
    BY <1>2, <1>4, <1>5, <1>7, <1>10, <1>14 DEF Homes
  <2>2. ASSUME NEW p \in DOMAIN l.proc
        PROVE  \E m \in DOMAIN l.node : PidAt(l, m) = p
    <3>1. PICK m \in DOMAIN k.node : PidAt(k, m) = p
      BY <1>4, <1>7 DEF Homes
    <3>2. m # n
      BY <1>5, <1>7, <3>1
    <3>3. CASE m = x
      BY <1>11, <1>14, <3>1, <3>3
    <3>4. CASE m # x
      BY <1>2, <1>14, <3>1, <3>2, <3>4
    <3>5. QED
      BY <3>3, <3>4
  <2>3. \A m, o \in DOMAIN l.node : PidAt(l, m) = PidAt(l, o) => m = o
    BY <1>2, <1>4, <1>14 DEF Homes
  <2>4. IsFiniteSet(DOMAIN l.node) /\ Cardinality(DOMAIN l.node) = l.counter
    BY <1>2, <1>4, <1>13, FS_RemoveElement DEF Homes
  <2>5. IsFiniteSet(DOMAIN l.proc) /\ Cardinality(DOMAIN l.proc) = l.counter
    BY <1>4, <1>6, <1>7, <1>13, FS_RemoveElement DEF Homes
  <2>6. QED
    BY <2>1, <2>2, <2>3, <2>4, <2>5 DEF Homes
<1>16. /\ k.first # n /\ ShellNode(k) # n
       /\ k.first \in DOMAIN k.node /\ ShellNode(k) \in DOMAIN k.node
       /\ k.background # NoNode => k.foreground # n
  BY <1>1, <1>4, <1>5, <1>6 DEF Pointers, MayLeave
<1>17. /\ l.first \in DOMAIN l.node /\ PidAt(l, l.first) = Idle
       /\ ShellNode(l) = ShellNode(k)
  <2>1. CASE PidAt(k, x) = Idle
    <3>1. x = k.first /\ l.first = n
      BY <1>2, <1>4, <1>13, <2>1 DEF Homes, Pointers
    <3>2. QED
      BY <1>2, <1>10, <1>11, <1>14, <2>1, <3>1 DEF ShellNode
  <2>2. CASE PidAt(k, x) # Idle
    <3>1. x # k.first /\ l.first = k.first
      BY <1>4, <1>13, <2>2 DEF Pointers
    <3>2. l.first \in DOMAIN l.node /\ l.node[k.first] = k.node[k.first]
      BY <1>2, <1>16, <3>1
    <3>3. QED
      BY <1>4, <1>14, <1>16, <3>1, <3>2 DEF ShellNode, Pointers
  <2>3. QED
    BY <2>1, <2>2
<1>18. /\ ShellNode(k) \in DOMAIN l.node /\ PidAt(l, ShellNode(k)) = Shell
       /\ l.node[ShellNode(k)] = k.node[ShellNode(k)]
  BY <1>2, <1>4, <1>9, <1>14, <1>16 DEF Pointers
<1>19. Pointers(l)
  <2>1. k.background = NoNode => l.foreground = ShellNode(l)
    BY <1>4, <1>13, <1>17 DEF Pointers
  <2>2. k.background # NoNode =>
          /\ l.background = ShellNode(l)
          /\ l.foreground = l.node[ShellNode(l)].next
          /\ l.foreground \in DOMAIN l.node
          /\ PidAt(l, l.foreground) \notin {Idle, Shell}
    BY <1>2, <1>4, <1>9, <1>13, <1>14, <1>16, <1>17, <1>18 DEF Pointers
  <2>3. QED
    BY <1>13, <1>17, <1>18, <2>1, <2>2 DEF Pointers
<1>20. QED
  BY <1>2, <1>8, <1>12, <1>15, <1>19 DEF Shape

\* The parent has one child less, and does not wait if it has none left.
LEMMA ChildIsGone ==
    ASSUME NEW k, Shape(k), NEW p \in DOMAIN k.proc, NEW l, l = ChildGone(k, p)
    PROVE  /\ Shape(l) /\ l.node = k.node /\ l.current = k.current
           /\ l.foreground = k.foreground /\ l.background = k.background
           /\ l.pidc = k.pidc /\ DOMAIN l.proc = DOMAIN k.proc
           /\ \A q \in DOMAIN k.proc : q # p => l.proc[q] = k.proc[q]
           /\ l.proc[p].ppid = k.proc[p].ppid
           /\ l.proc[p].children = k.proc[p].children - 1
           /\ l.proc[p].waits =>
                 k.proc[p].waits /\ l.proc[p].children # 0
           /\ l.proc[p].state \in {k.proc[p].state, "READY"}
<1> DEFINE left == k.proc[p].children - 1
           k1 == [k EXCEPT !.proc[p].children = left]
           k3 == SetState(k1, p, "READY")
           t1 == [k.proc[p] EXCEPT !.children = left]
           t3 == InState(t1, "READY")
           Put(t) == [node |-> k.node, proc |-> [k.proc EXCEPT ![p] = t],
                      current |-> k.current, first |-> k.first,
                      foreground |-> k.foreground, background |-> k.background,
                      counter |-> k.counter, pidc |-> k.pidc]
<1>1. IsKernel(k) /\ k.proc \in [DOMAIN k.proc -> ProcRec] /\ k.proc[p] \in ProcRec
  BY DEF Shape, IsKernel
<1>2. k = [node |-> k.node, proc |-> k.proc, current |-> k.current,
           first |-> k.first, foreground |-> k.foreground,
           background |-> k.background, counter |-> k.counter, pidc |-> k.pidc]
  BY <1>1 DEF IsKernel
<1>3. left \in Int
  BY <1>1 DEF ProcRec
<1> HIDE DEF left
<1>4. /\ t1 \in ProcRec /\ t1.children = left /\ t1.ppid = k.proc[p].ppid
      /\ t1.waits = k.proc[p].waits /\ t1.state = k.proc[p].state
  BY <1>1, <1>3 DEF ProcRec
<1>5. k1 = Put(t1)
  BY <1>2
<1> HIDE DEF t1, k1
<1>8. /\ t3 \in ProcRec /\ t3.children = left /\ t3.ppid = k.proc[p].ppid
      /\ t3.waits = FALSE /\ t3.state = "READY"
  BY <1>4 DEF ProcRec, States, InState
<1>9. k3 = Put(t3)
  <2> DEFINE procs == [k.proc EXCEPT ![p] = t1]
  <2>1. procs[p] = t1 /\ [procs EXCEPT ![p] = t3] = [k.proc EXCEPT ![p] = t3]
    OBVIOUS
  <2>2. k1 = [node |-> k.node, proc |-> procs,
              current |-> k.current, first |-> k.first,
              foreground |-> k.foreground, background |-> k.background,
              counter |-> k.counter, pidc |-> k.pidc]
    BY <1>5
  <2> HIDE DEF procs
  <2>3. k3 = [node |-> k.node,
              proc |-> [procs EXCEPT ![p] = InState(procs[p], "READY")],
              current |-> k.current, first |-> k.first,
              foreground |-> k.foreground, background |-> k.background,
              counter |-> k.counter, pidc |-> k.pidc]
    BY <2>2 DEF SetState
  <2>4. QED
    BY <2>1, <2>3
<1> HIDE DEF t3, k3
<1>10. ASSUME NEW t \in ProcRec, NEW h, h = Put(t)
       PROVE  /\ Shape(h) /\ h.node = k.node /\ h.current = k.current
              /\ h.foreground = k.foreground /\ h.background = k.background
              /\ h.pidc = k.pidc /\ DOMAIN h.proc = DOMAIN k.proc
              /\ h.proc[p] = t
              /\ \A q \in DOMAIN k.proc : q # p => h.proc[q] = k.proc[q]
  <2> DEFINE procs == [k.proc EXCEPT ![p] = t]
  <2>1. /\ procs \in [DOMAIN k.proc -> ProcRec] /\ DOMAIN procs = DOMAIN k.proc
        /\ procs[p] = t /\ \A q \in DOMAIN k.proc : q # p => procs[q] = k.proc[q]
    BY <1>1
  <2>2. h = [node |-> k.node, proc |-> procs, current |-> k.current,
             first |-> k.first, foreground |-> k.foreground,
             background |-> k.background, counter |-> k.counter,
             pidc |-> k.pidc]
    BY <1>10
  <2> HIDE DEF procs
  <2>3. IsKernel(h)
    BY <1>1, <2>1, <2>2 DEF IsKernel
  <2>4. SameRing(k, h)
    BY <2>2 DEF SameRing
  <2>5. Shape(h)
    BY <2>1, <2>2, <2>3, <2>4, SameShape
  <2>6. QED
    BY <2>1, <2>2, <2>5
<1> HIDE DEF Put
<1>11. l = IF left = 0 THEN ReadyProcess(k1, p) ELSE k1
  BY DEF ChildGone, left, k1
<1>12. CASE left = 0
  <2>1. Shape(k1) /\ p \in DOMAIN k1.proc
    BY <1>4, <1>5, <1>10
  <2>2. FindNode(k1, p) # NoNode
    BY <2>1, FindNodeFinds
  <2>3. l = k3
    BY <1>11, <1>12, <2>2 DEF ReadyProcess, k3
  <2>4. /\ Shape(l) /\ l.node = k.node /\ l.current = k.current
        /\ l.foreground = k.foreground /\ l.background = k.background
        /\ l.pidc = k.pidc /\ DOMAIN l.proc = DOMAIN k.proc
        /\ l.proc[p] = t3
        /\ \A q \in DOMAIN k.proc : q # p => l.proc[q] = k.proc[q]
    BY <1>8, <1>9, <1>10, <2>3
  <2>5. QED
    BY <1>8, <2>4 DEF left
<1>13. CASE left # 0
  <2>1. l = k1
    BY <1>11, <1>13
  <2>2. /\ Shape(l) /\ l.node = k.node /\ l.current = k.current
        /\ l.foreground = k.foreground /\ l.background = k.background
        /\ l.pidc = k.pidc /\ DOMAIN l.proc = DOMAIN k.proc
        /\ l.proc[p] = t1
        /\ \A q \in DOMAIN k.proc : q # p => l.proc[q] = k.proc[q]
    BY <1>4, <1>5, <1>10, <2>1
  <2>3. QED
    BY <1>4, <1>13, <2>2 DEF left
<1>14. QED
  BY <1>12, <1>13

\* A killed process leaves and its parent hears of it, or, when the parent is
\* gone, nothing happens.
LEMMA Destroyed ==
    ASSUME NEW k, Shape(k), Family(k), NoneRuns(k), MayLeave(k),
           NEW l, l = DestroyNode(k, k.current)
    PROVE  /\ Shape(l) /\ Family(l) /\ NoneRuns(l) /\ l.current = k.current
           /\ l.foreground = k.foreground /\ l.background = k.background
           /\ l.proc[Shell].state \in {k.proc[Shell].state, "READY"}
<1>1. PICK q : q = CurrentPid(k)
  OBVIOUS
<1>2. PICK p : p = k.proc[q].ppid
  OBVIOUS
<1>3. /\ q \in DOMAIN k.proc /\ q \notin {Idle, Shell}
      /\ Idle \in DOMAIN k.proc /\ Shell \in DOMAIN k.proc
  BY <1>1 DEF Shape, IsKernel, Homes, Pointers, MayLeave, CurrentPid
<1>4. /\ p < q /\ p \in Int /\ q \in Int
  BY <1>2, <1>3 DEF Family, Shape, IsKernel, ProcRec, Pids
<1>5. p # q
  BY <1>4
<1>6. CASE p \notin DOMAIN k.proc
  <2>1. FindNode(k, p) = NoNode
    BY <1>6, FindNodeFinds
  <2>2. l = k
    BY <1>1, <1>2, <2>1 DEF DestroyNode
  <2>3. QED
    BY <2>2
<1>7. CASE p \in DOMAIN k.proc
  <2>1. FindNode(k, p) # NoNode /\ PidAt(k, FindNode(k, p)) = p
    BY <1>7, FindNodeFinds
  <2>2. PICK h : h = ChildGone(k, p)
    OBVIOUS
  <2>3. l = TakeOver(h, k.current)
    BY <1>1, <1>2, <2>1, <2>2 DEF DestroyNode
  <2>4. /\ Shape(h) /\ h.node = k.node /\ h.current = k.current
        /\ h.foreground = k.foreground /\ h.background = k.background
        /\ h.pidc = k.pidc /\ DOMAIN h.proc = DOMAIN k.proc
        /\ \A o \in DOMAIN k.proc : o # p => h.proc[o] = k.proc[o]
        /\ h.proc[p].ppid = k.proc[p].ppid
        /\ h.proc[p].children = k.proc[p].children - 1
        /\ h.proc[p].waits => h.proc[p].children # 0
        /\ h.proc[p].state \in {k.proc[p].state, "READY"}
    BY <1>7, <2>2, ChildIsGone
  <2>5. CurrentPid(h) = q /\ MayLeave(h)
    BY <1>1, <2>4 DEF MayLeave, CurrentPid, PidAt
  <2>6. Shape(l) /\ HasLeft(h, l)
    BY <2>3, <2>4, <2>5, TakenOver
  <2>7. /\ DOMAIN l.proc = DOMAIN k.proc \ {q}
        /\ \A o \in DOMAIN l.proc : l.proc[o] = h.proc[o]
        /\ l.current = k.current /\ l.pidc = k.pidc
        /\ l.foreground = k.foreground /\ l.background = k.background
    BY <2>4, <2>5, <2>6 DEF HasLeft
  <2>8. /\ p \in DOMAIN l.proc /\ Idle \in DOMAIN l.proc /\ Shell \in DOMAIN l.proc
        /\ \A o \in DOMAIN l.proc : o # p => l.proc[o] = k.proc[o]
        /\ l.proc[p] = h.proc[p]
    BY <1>3, <1>5, <1>7, <2>4, <2>7
  <2>9. \A o \in DOMAIN l.proc :
           /\ l.proc[o].ppid = k.proc[o].ppid
           /\ l.proc[o].state \in {k.proc[o].state, "READY"}
    BY <2>4, <2>8
  <2>10. NoneRuns(l)
    BY <2>7, <2>9 DEF NoneRuns
  <2>11. \A o \in DOMAIN l.proc : ChildrenOf(l, o) = ChildrenOf(k, o) \ {q}
    BY <2>7, <2>9 DEF ChildrenOf
  <2>12. ASSUME NEW o \in DOMAIN l.proc
         PROVE  l.proc[o].children = Cardinality(ChildrenOf(l, o))
    <3>1. k.proc[o].children = Cardinality(ChildrenOf(k, o))
      BY <2>7 DEF Family
    <3>2. IsFiniteSet(ChildrenOf(k, o))
      <4>1. IsFiniteSet(DOMAIN k.proc) /\ ChildrenOf(k, o) \subseteq DOMAIN k.proc
        BY DEF Shape, Homes, ChildrenOf
      <4>2. QED
        BY <4>1, FS_Subset
    <3>3. CASE o = p
      <4>1. q \in ChildrenOf(k, o)
        BY <1>2, <1>3, <3>3 DEF ChildrenOf
      <4>2. Cardinality(ChildrenOf(k, o) \ {q}) = Cardinality(ChildrenOf(k, o)) - 1
        BY <3>2, <4>1, FS_RemoveElement
      <4>3. QED
        BY <2>4, <2>8, <2>11, <3>1, <3>3, <4>2
    <3>4. CASE o # p
      <4>1. q \notin ChildrenOf(k, o)
        BY <1>2, <3>4 DEF ChildrenOf
      <4>2. ChildrenOf(l, o) = ChildrenOf(k, o)
        BY <2>11, <4>1
      <4>3. QED
        BY <2>8, <3>1, <3>4, <4>2
    <3>5. QED
      BY <3>3, <3>4
  <2>13. \A o \in DOMAIN l.proc : l.proc[o].waits => l.proc[o].children # 0
    <3> SUFFICES ASSUME NEW o \in DOMAIN l.proc, l.proc[o].waits
                 PROVE  l.proc[o].children # 0
      OBVIOUS
    <3>1. CASE o = p
      BY <2>4, <2>8, <3>1, Zenon
    <3>2. CASE o # p
      <4>1. o \in DOMAIN k.proc /\ l.proc[o] = k.proc[o]
        BY <2>7, <2>8, <3>2
      <4>2. k.proc[o].waits
        BY <4>1, Zenon
      <4>3. QED
        BY <4>1, <4>2, Zenon DEF Family
    <3>3. QED
      BY <3>1, <3>2
  <2>14. Family(l)
    <3>1. \A o \in DOMAIN l.proc : o < l.pidc /\ l.proc[o].ppid < l.pidc
      BY <2>7, <2>9 DEF Family
    <3>2. \A o \in DOMAIN l.proc \ {Idle} : l.proc[o].ppid < o
      BY <2>7, <2>9 DEF Family
    <3>3. l.proc[Idle].state \in {"READY", "RUNNING"}
      BY <2>8, <2>9 DEF Family
    <3>4. QED
      BY <2>12, <2>13, <3>1, <3>2, <3>3 DEF Family
  <2>15. QED
    BY <2>6, <2>7, <2>8, <2>9, <2>10, <2>14
<1>8. QED
  BY <1>6, <1>7

-----------------------------------------------------------------------------
\* Only sleeping processes are made ready, and nothing else changes.
Woken(k, l) ==
    /\ l.node = k.node /\ l.current = k.current /\ l.counter = k.counter
    /\ DOMAIN l.proc = DOMAIN k.proc
    /\ \A p \in DOMAIN k.proc :
          \/ l.proc[p].state = k.proc[p].state
          \/ k.proc[p].state = "BLOCKED" /\ l.proc[p].state = "READY"

LEMMA ForegroundIsReady ==
    ASSUME NEW k, Shape(k), Family(k), NEW l, l = ReadyForeground(k)
    PROVE  /\ Shape(l) /\ Family(l) /\ Woken(k, l)
           /\ l.foreground = k.foreground /\ l.background = k.background
           /\ l.proc[PidAt(k, k.foreground)].state # "BLOCKED"
<1>1. PICK p : p = PidAt(k, k.foreground)
  OBVIOUS
<1>2. p \in DOMAIN k.proc
  BY <1>1 DEF Shape, Homes, Pointers
<1>3. l = IF k.proc[p].state = "BLOCKED" THEN SetState(k, p, "READY") ELSE k
  BY <1>1 DEF ReadyForeground, StateAt
<1>4. CASE k.proc[p].state # "BLOCKED"
  BY <1>1, <1>3, <1>4 DEF Woken
<1>5. CASE k.proc[p].state = "BLOCKED"
  <2>1. l = SetState(k, p, "READY")
    BY <1>3, <1>5
  <2>2. /\ Shape(l) /\ Family(l) /\ l.node = k.node /\ l.current = k.current
        /\ l.foreground = k.foreground /\ l.background = k.background
        /\ l.counter = k.counter /\ DOMAIN l.proc = DOMAIN k.proc
        /\ \A q \in DOMAIN k.proc :
              l.proc[q].state = IF q = p THEN "READY" ELSE k.proc[q].state
    BY <1>2, <2>1, StateIsSet DEF States
  <2>3. QED
    BY <1>1, <1>2, <1>5, <2>2 DEF Woken
<1>6. QED
  BY <1>4, <1>5

\* The shell is in front again, and awake.
LEMMA ForegroundIsReturned ==
    ASSUME NEW k, Shape(k), Family(k), k.background # NoNode,
           NEW l, l = ReturnForeground(k)
    PROVE  /\ Shape(l) /\ Family(l) /\ Woken(k, l)
           /\ l.foreground = k.background /\ l.background = NoNode
           /\ l.proc[Shell].state # "BLOCKED"
<1>1. PICK h : h = [k EXCEPT !.foreground = k.background, !.background = NoNode]
  OBVIOUS
<1>2. IsKernel(k) /\ k.background = ShellNode(k) /\ PidAt(k, k.background) = Shell
  BY DEF Shape, Pointers
<1>3. h = [node |-> k.node, proc |-> k.proc, current |-> k.current,
           first |-> k.first, foreground |-> k.background,
           background |-> NoNode, counter |-> k.counter, pidc |-> k.pidc]
  BY <1>1, <1>2 DEF IsKernel
<1>4. IsKernel(h)
  BY <1>2, <1>3 DEF IsKernel
<1>5. SameRing(k, h) /\ SameFamily(k, h)
  BY <1>2, <1>3 DEF SameRing, SameFamily, Family
<1>6. Shape(h) /\ Family(h)
  BY <1>4, <1>5, Untouched
<1>7. l = ReadyForeground(h)
  BY <1>1 DEF ReturnForeground
<1>8. /\ Shape(l) /\ Family(l) /\ Woken(h, l)
      /\ l.foreground = h.foreground /\ l.background = h.background
      /\ l.proc[PidAt(h, h.foreground)].state # "BLOCKED"
  BY <1>6, <1>7, ForegroundIsReady
<1>9. PidAt(h, h.foreground) = Shell
  BY <1>2, <1>3 DEF PidAt
<1>10. Woken(k, l)
  BY <1>3, <1>8 DEF Woken
<1>11. QED
  BY <1>3, <1>8, <1>9, <1>10

\* A quantum more breaks nothing.
LEMMA Counted ==
    ASSUME NEW k, Shape(k), Family(k), NEW l, l = Count(k)
    PROVE  /\ Shape(l) /\ Family(l) /\ l.proc = k.proc /\ l.current = k.current
           /\ l.foreground = k.foreground /\ l.background = k.background
           /\ DOMAIN l.node = DOMAIN k.node
           /\ \A m \in DOMAIN k.node : /\ l.node[m].proc = k.node[m].proc
                                       /\ l.node[m].next = k.node[m].next
<1>1. CASE StateAt(k, k.current) # "RUNNING"
  BY <1>1 DEF Count
<1>2. CASE StateAt(k, k.current) = "RUNNING"
  <2> DEFINE n == k.current
             b == [k.node[n] EXCEPT !.quantums = @ + 1]
             nodes == [k.node EXCEPT ![n] = b]
  <2>1. IsKernel(k) /\ n \in DOMAIN k.node /\ k.node \in [DOMAIN k.node -> NodeRec]
    BY DEF Shape, IsKernel
  <2>2. b \in NodeRec /\ b.proc = k.node[n].proc /\ b.next = k.node[n].next
    BY <2>1 DEF NodeRec
  <2>3. l = [node |-> nodes, proc |-> k.proc, current |-> k.current,
             first |-> k.first, foreground |-> k.foreground,
             background |-> k.background, counter |-> k.counter, pidc |-> k.pidc]
    BY <1>2, <2>1 DEF Count, IsKernel
  <2> HIDE DEF b
  <2>4. /\ nodes \in [DOMAIN k.node -> NodeRec] /\ DOMAIN nodes = DOMAIN k.node
        /\ \A m \in DOMAIN k.node : /\ nodes[m].proc = k.node[m].proc
                                    /\ nodes[m].next = k.node[m].next
    BY <2>1, <2>2
  <2> HIDE DEF nodes
  <2>5. IsKernel(l)
    BY <2>1, <2>3, <2>4 DEF IsKernel
  <2>6. SameRing(k, l) /\ SameFamily(k, l)
    BY <2>3, <2>4 DEF SameRing, SameFamily, Family
  <2>7. QED
    BY <2>3, <2>4, <2>5, <2>6, Untouched
<1>3. QED
  BY <1>1, <1>2

(***************************************************************************)
(* scheduler() is called while the process that has the CPU runs, is       *)
(* READY, sleeps or is killed, and the shell is never killed.              *)
(***************************************************************************)
MayHalt(k) ==
    /\ \A p \in DOMAIN k.proc : k.proc[p].state = "RUNNING" => p = CurrentPid(k)
    /\ StateAt(k, k.current) \in {"RUNNING", "READY", "BLOCKED", "KILLED"}
    /\ StateAt(k, k.current) = "KILLED" => CurrentPid(k) # Shell

\* The foreground stays, or goes back to the shell; the shell is not put to
\* sleep.
FrontKept(k, l) ==
    /\ \/ l.foreground = k.foreground /\ l.background = k.background
       \/ /\ k.background # NoNode
          /\ l.foreground = k.background /\ l.background = NoNode
          /\ l.proc[Shell].state # "BLOCKED"
    /\ k.proc[Shell].state # "BLOCKED" => l.proc[Shell].state # "BLOCKED"

\* The shell is where it was told to be.
LEMMA ShellLives ==
    ASSUME NEW k, Shape(k)
    PROVE  /\ Shell \in DOMAIN k.proc /\ Idle \in DOMAIN k.proc
           /\ CurrentPid(k) \in DOMAIN k.proc /\ k.counter \in Nat
           /\ k.counter # 1 /\ k.node[k.current].next \in DOMAIN k.node
           /\ k.current \in DOMAIN k.node
<1>1. /\ Shell \in DOMAIN k.proc /\ Idle \in DOMAIN k.proc
      /\ CurrentPid(k) \in DOMAIN k.proc /\ k.counter \in Nat
      /\ k.current \in DOMAIN k.node
  BY DEF Shape, Homes, Pointers, IsKernel, CurrentPid
<1>2. PICK r : Ring(k, r)
  BY DEF Shape
<1>3. k.counter >= 2
  BY <1>2 DEF Ring
<1>4. k.node[k.current].next \in DOMAIN k.node
  BY <1>1, NextIsOther
<1>5. QED
  BY <1>1, <1>3, <1>4

\* A killed process that has the CPU is destroyed, and another one runs.
LEMMA Reaped ==
    ASSUME NEW k, Shape(k), Family(k), MayHalt(k),
           StateAt(k, k.current) = "KILLED", NEW l, l = Reap(k)
    PROVE  Shape(l) /\ Family(l) /\ Marked(l) /\ FrontKept(k, l)
<1>1. PICK q : q = CurrentPid(k)
  OBVIOUS
<1>2. /\ q \in DOMAIN k.proc /\ k.proc[q].state = "KILLED"
      /\ q \notin {Idle, Shell} /\ Shell \in DOMAIN k.proc
      /\ k.current \in DOMAIN k.node
  BY <1>1, ShellLives DEF MayHalt, StateAt, CurrentPid, Family
<1>3. NoneRuns(k)
  BY <1>1, <1>2 DEF NoneRuns, MayHalt
<1>4. PICK inFront \in BOOLEAN : inFront <=> (q = PidAt(k, k.foreground))
  OBVIOUS
<1>5. inFront => k.background # NoNode
  BY <1>2, <1>4 DEF Shape, Pointers
<1>6. ASSUME NEW g, Shape(g), Family(g), NoneRuns(g), NEW h, h = Dispatch(g, g.current)
      PROVE  /\ Shape(h) /\ Family(h) /\ Marked(h)
             /\ h.foreground = g.foreground /\ h.background = g.background
             /\ g.proc[Shell].state # "BLOCKED" => h.proc[Shell].state # "BLOCKED"
  <2>1. Shell \in DOMAIN g.proc /\ g.current \in DOMAIN g.node
    BY <1>6, ShellLives
  <2>2. /\ Shape(h) /\ Family(h) /\ Marked(h)
        /\ h.foreground = g.foreground /\ h.background = g.background
        /\ \A p \in DOMAIN g.proc : h.proc[p].state \in {g.proc[p].state, "RUNNING"}
    BY <1>6, <2>1, Dispatched
  <2>3. QED
    BY <2>1, <2>2
<1>7. CASE inFront
  <2>1. PICK h : h = ReturnForeground(k)
    OBVIOUS
  <2>2. /\ Shape(h) /\ Family(h) /\ Woken(k, h)
        /\ h.foreground = k.background /\ h.background = NoNode
        /\ h.proc[Shell].state # "BLOCKED"
    BY <1>5, <1>7, <2>1, ForegroundIsReturned
  <2>3. NoneRuns(h)
    BY <1>3, <2>2 DEF NoneRuns, Woken
  <2>4. h.current = k.current /\ CurrentPid(h) = q
    BY <1>1, <2>2 DEF Woken, CurrentPid, PidAt
  <2>5. MayLeave(h)
    BY <1>2, <2>2, <2>4 DEF MayLeave
  <2>6. PICK g : g = DestroyNode(h, h.current)
    OBVIOUS
  <2>7. /\ Shape(g) /\ Family(g) /\ NoneRuns(g)
        /\ g.foreground = h.foreground /\ g.background = h.background
        /\ g.proc[Shell].state \in {h.proc[Shell].state, "READY"}
    BY <2>2, <2>3, <2>5, <2>6, Destroyed
  <2>8. l = Dispatch(g, g.current)
    BY <1>1, <1>4, <1>5, <1>7, <2>1, <2>4, <2>6 DEF Reap
  <2>9. /\ Shape(l) /\ Family(l) /\ Marked(l)
        /\ l.foreground = g.foreground /\ l.background = g.background
        /\ g.proc[Shell].state # "BLOCKED" => l.proc[Shell].state # "BLOCKED"
    BY <1>6, <2>7, <2>8
  <2>10. QED
    BY <1>5, <1>7, <2>2, <2>7, <2>9 DEF FrontKept
<1>8. CASE ~inFront
  <2>1. k.current # k.foreground
    BY <1>1, <1>4, <1>8 DEF CurrentPid
  <2>2. MayLeave(k)
    BY <1>1, <1>2, <2>1 DEF MayLeave
  <2>3. PICK g : g = DestroyNode(k, k.current)
    OBVIOUS
  <2>4. /\ Shape(g) /\ Family(g) /\ NoneRuns(g)
        /\ g.foreground = k.foreground /\ g.background = k.background
        /\ g.proc[Shell].state \in {k.proc[Shell].state, "READY"}
    BY <1>3, <2>2, <2>3, Destroyed
  <2>5. l = Dispatch(g, g.current)
    BY <1>1, <1>4, <1>8, <2>3 DEF Reap
  <2>6. /\ Shape(l) /\ Family(l) /\ Marked(l)
        /\ l.foreground = g.foreground /\ l.background = g.background
        /\ g.proc[Shell].state # "BLOCKED" => l.proc[Shell].state # "BLOCKED"
    BY <1>6, <2>4, <2>5
  <2>7. QED
    BY <2>4, <2>6 DEF FrontKept
<1>9. QED
  BY <1>7, <1>8

\* scheduler() leaves a sound ring with at most one running process.
LEMMA Scheduled ==
    ASSUME NEW k, Shape(k), Family(k), MayHalt(k), NEW yield \in BOOLEAN,
           NEW l, l = Schedule(k, yield)
    PROVE  Shape(l) /\ Family(l) /\ Marked(l) /\ FrontKept(k, l)
<1>1. PICK c : c = Count(k)
  OBVIOUS
<1>2. /\ Shape(c) /\ Family(c) /\ c.proc = k.proc /\ c.current = k.current
      /\ c.foreground = k.foreground /\ c.background = k.background
      /\ DOMAIN c.node = DOMAIN k.node
      /\ \A m \in DOMAIN k.node : /\ c.node[m].proc = k.node[m].proc
                                  /\ c.node[m].next = k.node[m].next
  BY <1>1, Counted
<1>3. PICK n, q : n = k.node[k.current].next /\ q = CurrentPid(k)
  OBVIOUS
<1>4. /\ k.counter # 1 /\ n \in DOMAIN k.node /\ q \in DOMAIN k.proc
      /\ Shell \in DOMAIN k.proc /\ k.current \in DOMAIN k.node
      /\ Idle \in DOMAIN k.proc
  BY <1>3, ShellLives
<1>5. CurrentPid(c) = q /\ StateAt(k, k.current) = k.proc[q].state
  BY <1>2, <1>3, <1>4 DEF CurrentPid, PidAt, StateAt
<1>6. CASE k.proc[q].state = "KILLED"
  <2>1. l = Reap(k)
    BY <1>4, <1>5, <1>6 DEF Schedule
  <2>2. QED
    BY <1>5, <1>6, <2>1, Reaped
<1>7. CASE k.proc[q].state = "BLOCKED"
  <2>1. l = Dispatch(c, n)
    BY <1>1, <1>3, <1>4, <1>5, <1>7 DEF Schedule
  <2>2. NoneRuns(c)
    BY <1>2, <1>3, <1>7 DEF NoneRuns, MayHalt
  <2>3. /\ Shape(l) /\ Family(l) /\ Marked(l)
        /\ l.foreground = c.foreground /\ l.background = c.background
        /\ \A p \in DOMAIN c.proc : l.proc[p].state \in {c.proc[p].state, "RUNNING"}
    BY <1>2, <1>4, <2>1, <2>2, Dispatched
  <2>4. QED
    BY <1>2, <1>4, <2>3 DEF FrontKept
<1>8. CASE k.proc[q].state \in {"RUNNING", "READY"}
  <2>1. l = IF c.node[k.current].quantums > MaxQuantum \/ yield
            THEN Dispatch(SetState(c, q, "READY"), n) ELSE c
    BY <1>1, <1>3, <1>4, <1>5, <1>8 DEF Schedule
  <2>2. CASE l = c
    BY <1>2, <1>3, <1>5, <1>8, <2>2 DEF Marked, MayHalt, FrontKept
  <2>3. CASE l # c
    <3>1. PICK h : h = SetState(c, q, "READY")
      OBVIOUS
    <3>2. l = Dispatch(h, n)
      BY <2>1, <2>3, <3>1
    <3>3. /\ Shape(h) /\ Family(h) /\ h.node = c.node
          /\ h.foreground = c.foreground /\ h.background = c.background
          /\ DOMAIN h.proc = DOMAIN c.proc
          /\ \A p \in DOMAIN c.proc :
                h.proc[p].state = IF p = q THEN "READY" ELSE c.proc[p].state
      BY <1>2, <1>4, <3>1, StateIsSet DEF States
    <3>4. NoneRuns(h)
      BY <1>2, <1>3, <3>3 DEF NoneRuns, MayHalt
    <3>5. n \in DOMAIN h.node
      BY <1>2, <1>4, <3>3
    <3>6. /\ Shape(l) /\ Family(l) /\ Marked(l)
          /\ l.foreground = h.foreground /\ l.background = h.background
          /\ \A p \in DOMAIN h.proc : l.proc[p].state \in {h.proc[p].state, "RUNNING"}
      BY <3>2, <3>3, <3>4, <3>5, Dispatched
    <3>7. QED
      BY <1>2, <1>4, <3>3, <3>6 DEF FrontKept
  <2>4. QED
    BY <2>2, <2>3
<1>9. QED
  BY <1>5, <1>6, <1>7, <1>8 DEF MayHalt

\* kill_process on the process that has the CPU.
LEMMA Killed ==
    ASSUME NEW k, Shape(k), Family(k), NEW q, q = CurrentPid(k),
           q \notin {Idle, Shell},
           \A p \in DOMAIN k.proc : k.proc[p].state = "RUNNING" => p = q,
           NEW l, l = KillProcess(k, q)
    PROVE  Shape(l) /\ Family(l) /\ Marked(l) /\ FrontKept(k, l)
<1>1. PICK h : h = SetState(k, q, "KILLED")
  OBVIOUS
<1>2. q \in DOMAIN k.proc /\ Shell \in DOMAIN k.proc /\ k.current \in DOMAIN k.node
  BY ShellLives
<1>3. /\ Shape(h) /\ Family(h) /\ h.node = k.node /\ h.current = k.current
      /\ h.foreground = k.foreground /\ h.background = k.background
      /\ DOMAIN h.proc = DOMAIN k.proc
      /\ \A p \in DOMAIN k.proc :
            h.proc[p].state = IF p = q THEN "KILLED" ELSE k.proc[p].state
  BY <1>1, <1>2, StateIsSet DEF States
<1>4. CurrentPid(h) = q /\ StateAt(h, h.current) = "KILLED"
  BY <1>2, <1>3 DEF CurrentPid, PidAt, StateAt
<1>5. MayHalt(h)
  BY <1>3, <1>4 DEF MayHalt
<1>6. l = Schedule(h, FALSE)
  BY <1>1 DEF KillProcess
<1>7. Shape(l) /\ Family(l) /\ Marked(l) /\ FrontKept(h, l)
  BY <1>3, <1>5, <1>6, Scheduled
<1>8. QED
  BY <1>2, <1>3, <1>7 DEF FrontKept

-----------------------------------------------------------------------------
(***************************************************************************)
(* add_process.  A node is free: fewer pids are in use than were given     *)
(* out, and there is a node for each of them.                              *)
(***************************************************************************)
LEMMA NodeIsFree ==
    ASSUME NEW k, Shape(k), Family(k), k.pidc <= MaxPid,
           NEW n, n = Min(NodeIds \ DOMAIN k.node)
    PROVE  n \in NodeIds /\ n \notin DOMAIN k.node
<1> DEFINE free == NodeIds \ DOMAIN k.node
<1>1. MaxPid \in Nat /\ k.pidc \in Nat /\ DOMAIN k.node \subseteq NodeIds
  BY SchedAssumption DEF Shape, IsKernel
<1>2. /\ IsFiniteSet(DOMAIN k.node) /\ IsFiniteSet(DOMAIN k.proc)
      /\ Cardinality(DOMAIN k.node) = Cardinality(DOMAIN k.proc)
  BY DEF Shape, Homes
<1>3. DOMAIN k.proc \subseteq 0..(k.pidc - 1)
  <2> SUFFICES ASSUME NEW p \in DOMAIN k.proc PROVE p \in 0..(k.pidc - 1)
    OBVIOUS
  <2>1. p < k.pidc /\ p \in 0..MaxPid
    BY DEF Family, Shape, IsKernel, Pids
  <2>2. QED
    BY <1>1, <2>1
<1>4. Cardinality(DOMAIN k.proc) <= k.pidc
  <2>1. k.pidc # 0
    <3>1. Idle \in DOMAIN k.proc
      BY ShellLives
    <3>2. QED
      BY <1>1, <1>3, <3>1
  <2>2. 0 \in Int /\ k.pidc - 1 \in Int /\ ~(0 > k.pidc - 1)
    BY <1>1, <2>1
  <2>3. IsFiniteSet(0..(k.pidc - 1)) /\ Cardinality(0..(k.pidc - 1)) = k.pidc - 1 - 0 + 1
    BY <2>2, FS_Interval
  <2>4. Cardinality(DOMAIN k.proc) <= Cardinality(0..(k.pidc - 1))
    BY <1>3, <2>3, FS_Subset
  <2>5. k.pidc - 1 - 0 + 1 = k.pidc
    BY <1>1
  <2>6. QED
    BY <2>3, <2>4, <2>5
<1>5. free # {}
  <2> SUFFICES ASSUME free = {} PROVE FALSE
    OBVIOUS
  <2>1. DOMAIN k.node = 1..(MaxPid + 1)
    BY <1>1 DEF NodeIds
  <2>2. Cardinality(1..(MaxPid + 1)) = (MaxPid + 1) - 1 + 1
    <3>1. 1 \in Int /\ MaxPid + 1 \in Int /\ ~(1 > MaxPid + 1)
      BY <1>1
    <3>2. QED
      BY <3>1, FS_Interval
  <2>3. QED
    BY <1>1, <1>2, <1>4, <2>1, <2>2
<1>6. free \in SUBSET Nat
  BY <1>1 DEF NodeIds
<1>7. \E x \in free : \A y \in free : x <= y
  BY <1>5, <1>6, LeastNat
<1>8. n = Min(free)
  OBVIOUS
<1>9. Min(free) \in free
  <2> HIDE DEF free
  <2>1. QED
    BY <1>7 DEF Min
<1>10. QED
  BY <1>8, <1>9

\* l is k with the new node n and process p, a child of q.
Grown(k, l, n, p, q, fg) ==
    /\ n \in NodeIds /\ n \notin DOMAIN k.node /\ q \in DOMAIN k.proc
    /\ p \in Pids /\ p \notin DOMAIN k.proc /\ q # Idle
    /\ l = [node |-> l.node, proc |-> l.proc, current |-> k.current,
            first |-> k.first,
            foreground |-> IF fg THEN n ELSE k.foreground,
            background |-> IF fg THEN k.foreground ELSE k.background,
            counter |-> k.counter + 1, pidc |-> p + 1]
    /\ l.node \in [DOMAIN k.node \cup {n} -> NodeRec]
    /\ l.node[n].proc = p /\ l.node[n].next = k.node[k.current].next
    /\ l.node[k.current].next = n
    /\ \A m \in DOMAIN k.node :
          /\ l.node[m].proc = k.node[m].proc
          /\ m # k.current => l.node[m].next = k.node[m].next
    /\ l.proc \in [DOMAIN k.proc \cup {p} -> ProcRec]
    /\ l.proc[p].ppid = q /\ l.proc[p].state = "NEW"
    /\ l.proc[p].children = 0 /\ ~l.proc[p].waits
    /\ l.proc[q].children = k.proc[q].children + 1
    /\ \A o \in DOMAIN k.proc :
          /\ l.proc[o].ppid = k.proc[o].ppid
          /\ l.proc[o].state = k.proc[o].state
          /\ o # q => l.proc[o].children = k.proc[o].children
          /\ l.proc[o].waits = k.proc[o].waits
    /\ fg => k.background = NoNode /\ q = PidAt(k, k.foreground)
    /\ k.background # NoNode => q # PidAt(k, k.background)

\* The new node is behind the current one.
LEMMA ExecGrows ==
    ASSUME NEW k, k = kernel, Shape(k), Family(k),
           NEW prio \in Priorities, NEW fg \in BOOLEAN, Exec(prio, fg),
           NEW l, l = kernel', NEW p, p = k.pidc, NEW q, q = CurrentPid(k),
           NEW n, n = Min(NodeIds \ DOMAIN k.node)
    PROVE  Grown(k, l, n, p, q, fg)
<1>1. PICK limited : limited = IF prio > MaxQuantum THEN MaxQuantum ELSE prio
  OBVIOUS
<1>2. limited \in Nat
  BY <1>1, SchedAssumption
<1>3. /\ q # Idle /\ k.pidc <= MaxPid
      /\ k.background # NoNode => q # PidAt(k, k.background)
      /\ fg => k.background = NoNode /\ q = PidAt(k, k.foreground)
  BY DEF Exec, IsFree, IsUser, Me
<1>4. n \in NodeIds /\ n \notin DOMAIN k.node
  BY <1>3, NodeIsFree
<1>5. q \in DOMAIN k.proc /\ k.current \in DOMAIN k.node
  BY ShellLives
<1>6. /\ IsKernel(k) /\ k.node \in [DOMAIN k.node -> NodeRec]
      /\ k.proc \in [DOMAIN k.proc -> ProcRec] /\ k.pidc \in Nat
      /\ MaxPid \in Nat
  BY SchedAssumption DEF Shape, IsKernel
<1>7. p \in Pids /\ p \notin DOMAIN k.proc
  <2>1. p \in Pids
    BY <1>3, <1>6 DEF Pids
  <2>2. p \in DOMAIN k.proc => p < k.pidc
    BY DEF Family
  <2>3. QED
    BY <1>6, <2>1, <2>2
<1> DEFINE t == [k.proc[q] EXCEPT !.children = @ + 1]
           u == Process(q, "NEW", limited, 0)
           b == [k.node[k.current] EXCEPT !.next = n]
           c == Node(p, k.node[k.current].next, limited)
           procs == [o \in DOMAIN k.proc \cup {p} |->
                       IF o = p THEN u ELSE IF o = q THEN t ELSE k.proc[o]]
           nodes == [m \in DOMAIN k.node \cup {n} |->
                       IF m = n THEN c
                       ELSE IF m = k.current THEN b ELSE k.node[m]]
<1>8. With([k.proc EXCEPT ![q].children = @ + 1], p, u) = procs
  <2>1. [k.proc EXCEPT ![q].children = @ + 1]
          = [o \in DOMAIN k.proc |-> IF o = q THEN t ELSE k.proc[o]]
    BY <1>5, <1>6
  <2> HIDE DEF u, t
  <2>2. QED
    BY <2>1 DEF With
<1>9. AddNode(k, n, p, limited) = nodes
  <2>1. [k.node EXCEPT ![k.current].next = n]
          = [m \in DOMAIN k.node |-> IF m = k.current THEN b ELSE k.node[m]]
    BY <1>5, <1>6
  <2> HIDE DEF b, c
  <2>2. QED
    BY <2>1 DEF With, AddNode, c
<1>10. /\ t \in ProcRec /\ t.ppid = k.proc[q].ppid /\ t.state = k.proc[q].state
       /\ t.children = k.proc[q].children + 1 /\ t.waits = k.proc[q].waits
  BY <1>5, <1>6 DEF ProcRec
<1>11. q \in Pids
  BY <1>5, <1>6 DEF IsKernel
<1>12. /\ u \in ProcRec /\ u.ppid = q /\ u.state = "NEW" /\ u.children = 0
       /\ ~u.waits
  BY <1>2, <1>11 DEF ProcRec, Process, States
<1>13. b \in NodeRec /\ b.proc = k.node[k.current].proc /\ b.next = n
  BY <1>4, <1>5, <1>6 DEF NodeRec
<1>14. c \in NodeRec /\ c.proc = p /\ c.next = k.node[k.current].next
  BY <1>2, <1>5, <1>6, <1>7 DEF NodeRec, Node
<1> DEFINE front == IF fg THEN n ELSE k.foreground
           behind == IF fg THEN k.foreground ELSE k.background
<1>15. l = [node |-> nodes, proc |-> procs, current |-> k.current,
            first |-> k.first, foreground |-> front, background |-> behind,
            counter |-> k.counter + 1, pidc |-> p + 1]
  <2>1. behind = IF fg /\ k.background = NoNode THEN k.foreground ELSE k.background
    BY <1>3
  <2> DEFINE more == With([k.proc EXCEPT ![q].children = @ + 1], p, u)
             longer == AddNode(k, n, p, limited)
             back == IF fg /\ k.background = NoNode THEN k.foreground
                     ELSE k.background
  <2>2. l = [k EXCEPT !.pidc = k.pidc + 1, !.counter = k.counter + 1,
                      !.proc = more, !.node = longer, !.foreground = front,
                      !.background = back]
    BY <1>1 DEF Exec, Me
  <2>3. more = procs /\ longer = nodes /\ back = behind
    BY <1>8, <1>9, <2>1
  <2> HIDE DEF u, procs, nodes, front, behind, more, longer, back
  <2>4. k = [node |-> k.node, proc |-> k.proc, current |-> k.current,
             first |-> k.first, foreground |-> k.foreground,
             background |-> k.background, counter |-> k.counter,
             pidc |-> k.pidc]
    BY <1>6 DEF IsKernel
  <2>5. QED
    BY <2>2, <2>3, <2>4
<1> HIDE DEF t, u, b, c
<1>16. /\ procs \in [DOMAIN k.proc \cup {p} -> ProcRec] /\ procs[p] = u
       /\ procs[q] = t /\ \A o \in DOMAIN k.proc : o # q => procs[o] = k.proc[o]
  BY <1>5, <1>6, <1>7, <1>10, <1>12
<1>17. /\ nodes \in [DOMAIN k.node \cup {n} -> NodeRec] /\ nodes[n] = c
       /\ nodes[k.current] = b
       /\ \A m \in DOMAIN k.node : m # k.current => nodes[m] = k.node[m]
  BY <1>4, <1>5, <1>6, <1>13, <1>14
<1> HIDE DEF procs, nodes
<1>18. l.node = nodes /\ l.proc = procs
  BY <1>15
<1>19. \A o \in DOMAIN k.proc :
          /\ procs[o].ppid = k.proc[o].ppid
          /\ procs[o].state = k.proc[o].state
          /\ o # q => procs[o].children = k.proc[o].children
          /\ procs[o].waits = k.proc[o].waits
  BY <1>10, <1>16
<1>20. \A m \in DOMAIN k.node :
          /\ nodes[m].proc = k.node[m].proc
          /\ m # k.current => nodes[m].next = k.node[m].next
  BY <1>13, <1>17
<1>21. l = [node |-> l.node, proc |-> l.proc, current |-> k.current,
            first |-> k.first,
            foreground |-> IF fg THEN n ELSE k.foreground,
            background |-> IF fg THEN k.foreground ELSE k.background,
            counter |-> k.counter + 1, pidc |-> p + 1]
  BY <1>15, <1>18
<1>22. QED
  BY <1>3, <1>4, <1>5, <1>7, <1>10, <1>12, <1>13, <1>14, <1>16, <1>17, <1>18,
     <1>19, <1>20, <1>21 DEF Grown

\* The ring with a node more, behind the current one.
LEMMA RingGrows ==
    ASSUME NEW k, Shape(k), NEW l, NEW n, n \notin DOMAIN k.node,
           DOMAIN l.node = DOMAIN k.node \cup {n},
           l.node[n].next = k.node[k.current].next,
           l.node[k.current].next = n,
           \A m \in DOMAIN k.node :
              m # k.current => l.node[m].next = k.node[m].next,
           l.first = k.first, l.counter = k.counter + 1
    PROVE  \E s : Ring(l, s)
<1>1. PICK r : Ring(k, r)
  BY DEF Shape
<1>2. PICK N, c : N = k.counter /\ c = k.current
  OBVIOUS
<1>3. N \in Nat /\ N >= 2 /\ c \in DOMAIN k.node
  BY <1>1, <1>2 DEF Shape, IsKernel, Ring
<1>4. /\ r \in [0..(N - 1) -> DOMAIN k.node]
      /\ \A m \in DOMAIN k.node : \E i \in 0..(N - 1) : r[i] = m
      /\ \A i, j \in 0..(N - 1) : r[i] = r[j] => i = j
      /\ r[0] = k.first
      /\ \A i \in 0..(N - 2) : k.node[r[i]].next = r[i + 1]
      /\ k.node[r[N - 1]].next = r[0]
  BY <1>1, <1>2 DEF Ring
<1>5. PICK j \in 0..(N - 1) : r[j] = c
  BY <1>3, <1>4
<1> DEFINE s == [i \in 0..N |-> IF i <= j THEN r[i]
                                ELSE IF i = j + 1 THEN n ELSE r[i - 1]]
<1>6. /\ \A i \in 0..N : /\ i <= j => s[i] = r[i]
                         /\ i = j + 1 => s[i] = n
                         /\ i > j + 1 => s[i] = r[i - 1]
      /\ s = [i \in 0..N |-> s[i]]
  <2>1. j \in Nat
    BY <1>3
  <2>2. \A i \in 0..N : i > j + 1 => ~(i <= j) /\ i # j + 1
    BY <2>1, <1>3
  <2>3. \A i \in 0..N : i = j + 1 => ~(i <= j)
    BY <2>1, <1>3
  <2>4. QED
    BY <2>2, <2>3
<1> HIDE DEF s
<1>7. \A i \in 0..N : /\ i \in Int
                      /\ i <= j => i \in 0..(N - 1)
                      /\ i > j + 1 => i - 1 \in 0..(N - 1) /\ i - 1 > j
                      /\ i <= j \/ i = j + 1 \/ i > j + 1
  BY <1>3
<1>8. \A i \in 0..(N - 1) : r[i] \in DOMAIN k.node /\ r[i] # n
  BY <1>4
<1>9. s \in [0..N -> DOMAIN l.node]
  <2> SUFFICES ASSUME NEW i \in 0..N PROVE s[i] \in DOMAIN l.node
    BY <1>6
  <2>1. CASE i <= j
    BY <1>6, <1>7, <1>8, <2>1
  <2>2. CASE i = j + 1
    BY <1>6, <2>2
  <2>3. CASE i > j + 1
    BY <1>6, <1>7, <1>8, <2>3
  <2>4. QED
    BY <1>7, <2>1, <2>2, <2>3
<1>10. ASSUME NEW m \in DOMAIN l.node PROVE \E i \in 0..N : s[i] = m
  <2>1. CASE m = n
    <3>1. j + 1 \in 0..N
      BY <1>3
    <3>2. QED
      BY <1>6, <2>1, <3>1
  <2>2. CASE m # n
    <3>1. PICK i \in 0..(N - 1) : r[i] = m
      BY <1>4, <2>2
    <3>2. CASE i <= j
      <4>1. i \in 0..N
        BY <1>3
      <4>2. QED
        BY <1>6, <3>1, <3>2, <4>1
    <3>3. CASE i > j
      <4>1. i + 1 \in 0..N /\ i + 1 > j + 1 /\ (i + 1) - 1 = i
        BY <1>3, <3>3
      <4>2. QED
        BY <1>6, <3>1, <4>1
    <3>4. QED
      BY <1>3, <3>2, <3>3
  <2>3. QED
    BY <2>1, <2>2
<1>11. ASSUME NEW a \in 0..N, NEW b \in 0..N, s[a] = s[b] PROVE a = b
  <2>1. CASE a = j + 1 \/ b = j + 1
    BY <1>6, <1>7, <1>8, <1>11, <2>1
  <2>2. CASE a # j + 1 /\ b # j + 1
    <3> DEFINE A == IF a <= j THEN a ELSE a - 1
               B == IF b <= j THEN b ELSE b - 1
    <3>1. s[a] = r[A] /\ s[b] = r[B] /\ A \in 0..(N - 1) /\ B \in 0..(N - 1)
      BY <1>6, <1>7, <2>2
    <3> HIDE DEF A, B
    <3>2. r[A] = r[B]
      BY <1>11, <3>1
    <3>3. \A i, o \in 0..(N - 1) : r[i] = r[o] => i = o
      BY <1>4
    <3>4. A = B
      BY <3>1, <3>2, <3>3
    <3>5. QED
      BY <1>3, <1>7, <2>2, <3>4 DEF A, B
  <2>3. QED
    BY <2>1, <2>2
<1>12. s[0] = l.first
  <2>1. 0 \in 0..N /\ 0 <= j
    BY <1>3
  <2>2. QED
    BY <1>4, <1>6, <2>1
<1>13. ASSUME NEW i \in 0..(N - 1) PROVE l.node[s[i]].next = s[i + 1]
  <2>1. i \in 0..N /\ i + 1 \in 0..N /\ i \in Nat /\ (i + 1) - 1 = i /\ j \in Nat
    BY <1>3
  <2>2. CASE i < j
    <3>1. i <= j /\ i + 1 <= j /\ i # j /\ i \in 0..(N - 2)
      BY <1>3, <2>1, <2>2
    <3>2. s[i] = r[i] /\ s[i + 1] = r[i + 1] /\ r[i] # c /\ r[i] \in DOMAIN k.node
      BY <1>4, <1>5, <1>6, <1>8, <2>1, <3>1
    <3>3. k.node[r[i]].next = r[i + 1]
      BY <1>4, <3>1
    <3>4. QED
      BY <1>2, <3>2, <3>3
  <2>3. CASE i = j
    <3>1. s[i] = c /\ s[i + 1] = n
      BY <1>5, <1>6, <2>1, <2>3
    <3>2. QED
      BY <1>2, <3>1
  <2>4. CASE i > j
    <3>1. i + 1 > j + 1 /\ i - 1 \in 0..(N - 2) /\ (i - 1) + 1 = i
      BY <1>3, <2>1, <2>4
    <3>2. s[i + 1] = r[i]
      BY <1>6, <2>1, <3>1
    <3>3. k.node[r[i - 1]].next = r[i]
      BY <1>4, <3>1
    <3>4. CASE i = j + 1
      <4>1. s[i] = n /\ i - 1 = j
        BY <1>6, <2>1, <3>4
      <4>2. QED
        BY <1>2, <1>5, <3>2, <3>3, <4>1
    <3>5. CASE i # j + 1
      <4>1. i > j + 1 /\ i - 1 # j /\ i - 1 \in 0..(N - 1)
        BY <1>3, <2>1, <2>4, <3>5
      <4>2. s[i] = r[i - 1] /\ r[i - 1] # c /\ r[i - 1] \in DOMAIN k.node
        BY <1>4, <1>5, <1>6, <1>8, <2>1, <4>1
      <4>3. QED
        BY <1>2, <3>2, <3>3, <4>2
    <3>6. QED
      BY <3>4, <3>5
  <2>5. QED
    BY <2>1, <2>2, <2>3, <2>4
<1>14. l.node[s[N]].next = s[0]
  <2>1. N \in 0..N /\ 0 \in 0..N /\ 0 <= j /\ N - 1 \in 0..(N - 1)
    BY <1>3
  <2>2. s[0] = r[0]
    BY <1>6, <2>1
  <2>3. CASE N = j + 1
    <3>1. s[N] = n /\ j = N - 1
      BY <1>3, <1>6, <2>1, <2>3
    <3>2. QED
      BY <1>2, <1>4, <1>5, <2>2, <3>1
  <2>4. CASE N # j + 1
    <3>1. N > j + 1 /\ N - 1 # j
      BY <1>3, <2>4
    <3>2. s[N] = r[N - 1] /\ r[N - 1] # c /\ r[N - 1] \in DOMAIN k.node
      BY <1>4, <1>5, <1>6, <1>8, <2>1, <3>1
    <3>3. QED
      BY <1>2, <1>4, <2>2, <3>2
  <2>5. QED
    BY <2>3, <2>4
<1>15. l.counter - 1 = N /\ l.counter - 2 = N - 1 /\ l.counter >= 2
  BY <1>2, <1>3
<1>16. Ring(l, s)
  BY <1>9, <1>10, <1>11, <1>12, <1>13, <1>14, <1>15 DEF Ring
<1>17. QED
  BY <1>16

\* A process more, in the ring and in its parent's count.
LEMMA Executed ==
    ASSUME Sound(kernel), NEW prio \in Priorities, NEW fg \in BOOLEAN, Exec(prio, fg)
    PROVE  Sound(kernel') /\ Returns(kernel, kernel')
<1>1. PICK k, l : k = kernel /\ l = kernel'
  OBVIOUS
<1>2. Shape(k) /\ Family(k) /\ Marked(k)
  BY <1>1 DEF Sound
<1>3. PICK p, q, n : /\ p = k.pidc /\ q = CurrentPid(k)
                     /\ n = Min(NodeIds \ DOMAIN k.node)
  OBVIOUS
<1>3a. Grown(k, l, n, p, q, fg)
  BY <1>1, <1>2, <1>3, ExecGrows
<1>4. /\ n \in NodeIds /\ n \notin DOMAIN k.node /\ q \in DOMAIN k.proc
      /\ p \in Pids /\ p \notin DOMAIN k.proc /\ q # Idle
      /\ fg => k.background = NoNode /\ q = PidAt(k, k.foreground)
      /\ k.background # NoNode => q # PidAt(k, k.background)
  BY <1>3a DEF Grown
<1>5. l = [node |-> l.node, proc |-> l.proc, current |-> k.current,
           first |-> k.first,
           foreground |-> IF fg THEN n ELSE k.foreground,
           background |-> IF fg THEN k.foreground ELSE k.background,
           counter |-> k.counter + 1, pidc |-> p + 1]
  BY <1>3a DEF Grown
<1>6. /\ l.node \in [DOMAIN k.node \cup {n} -> NodeRec]
      /\ l.node[n].proc = p /\ l.node[n].next = k.node[k.current].next
      /\ l.node[k.current].next = n
      /\ \A m \in DOMAIN k.node : l.node[m].proc = k.node[m].proc
      /\ \A m \in DOMAIN k.node :
            m # k.current => l.node[m].next = k.node[m].next
  BY <1>3a DEF Grown
<1>7. /\ l.proc \in [DOMAIN k.proc \cup {p} -> ProcRec]
      /\ l.proc[p].ppid = q /\ l.proc[p].state = "NEW"
      /\ l.proc[p].children = 0
      /\ l.proc[q].children = k.proc[q].children + 1
  BY <1>3a DEF Grown
<1>8. /\ \A o \in DOMAIN k.proc :
            /\ l.proc[o].ppid = k.proc[o].ppid
            /\ l.proc[o].state = k.proc[o].state
            /\ o # q => l.proc[o].children = k.proc[o].children
  BY <1>3a DEF Grown
<1>9. ~l.proc[p].waits /\ \A o \in DOMAIN k.proc : l.proc[o].waits = k.proc[o].waits
  BY <1>3a DEF Grown
<1>10. /\ DOMAIN l.node = DOMAIN k.node \cup {n}
       /\ DOMAIN l.proc = DOMAIN k.proc \cup {p}
       /\ l.current = k.current /\ l.first = k.first
       /\ l.foreground = IF fg THEN n ELSE k.foreground
       /\ l.background = IF fg THEN k.foreground ELSE k.background
       /\ l.counter = k.counter + 1 /\ l.pidc = p + 1
  BY <1>5, <1>6, <1>7
<1>11. /\ IsKernel(k) /\ Homes(k) /\ Pointers(k) /\ k.current \in DOMAIN k.node
       /\ k.counter \in Nat /\ p \in Nat
  BY <1>2, <1>3 DEF Shape, IsKernel
<1>12. IsKernel(l)
  <2>1. DOMAIN l.node \subseteq NodeIds /\ DOMAIN l.proc \subseteq Pids
    BY <1>4, <1>10, <1>11 DEF IsKernel
  <2>2. l.current \in DOMAIN l.node /\ l.counter \in Nat /\ l.pidc \in Nat
    BY <1>10, <1>11
  <2>3. l = [node |-> l.node, proc |-> l.proc, current |-> l.current,
             first |-> l.first, foreground |-> l.foreground,
             background |-> l.background, counter |-> l.counter,
             pidc |-> l.pidc]
    BY <1>5, <1>10
  <2>4. QED
    BY <1>6, <1>7, <1>10, <2>1, <2>2, <2>3 DEF IsKernel
<1>13. \E s : Ring(l, s)
  BY <1>2, <1>4, <1>6, <1>10, RingGrows
<1>14. PidAt(l, n) = p /\ \A m \in DOMAIN k.node : PidAt(l, m) = PidAt(k, m)
  BY <1>6 DEF PidAt
<1>15. Homes(l)
  <2>1. \A m \in DOMAIN l.node : PidAt(l, m) \in DOMAIN l.proc
    BY <1>10, <1>11, <1>14 DEF Homes
  <2>2. \A o \in DOMAIN l.proc : \E m \in DOMAIN l.node : PidAt(l, m) = o
    BY <1>10, <1>11, <1>14 DEF Homes
  <2>3. \A m, o \in DOMAIN l.node : PidAt(l, m) = PidAt(l, o) => m = o
    BY <1>4, <1>10, <1>11, <1>14 DEF Homes
  <2>4. IsFiniteSet(DOMAIN l.node) /\ Cardinality(DOMAIN l.node) = l.counter
    <3>1. /\ IsFiniteSet(DOMAIN k.node) /\ n \notin DOMAIN k.node
          /\ Cardinality(DOMAIN k.node) = k.counter
      BY <1>4, <1>11 DEF Homes
    <3>2. /\ IsFiniteSet(DOMAIN k.node \cup {n})
          /\ Cardinality(DOMAIN k.node \cup {n}) = k.counter + 1
      BY <3>1, FS_AddElement
    <3>3. QED
      BY <1>10, <3>2
  <2>5. IsFiniteSet(DOMAIN l.proc) /\ Cardinality(DOMAIN l.proc) = l.counter
    <3>1. /\ IsFiniteSet(DOMAIN k.proc) /\ p \notin DOMAIN k.proc
          /\ Cardinality(DOMAIN k.proc) = k.counter
      BY <1>4, <1>11 DEF Homes
    <3>2. /\ IsFiniteSet(DOMAIN k.proc \cup {p})
          /\ Cardinality(DOMAIN k.proc \cup {p}) = k.counter + 1
      BY <3>1, FS_AddElement
    <3>3. QED
      BY <1>10, <3>2
  <2>6. QED
    BY <2>1, <2>2, <2>3, <2>4, <2>5 DEF Homes
<1>16. Shell \in DOMAIN k.proc /\ Idle \in DOMAIN k.proc
  BY <1>2, ShellLives
<1>17. p \notin {Idle, Shell}
  BY <1>4, <1>16
<1>18. /\ l.first \in DOMAIN l.node /\ PidAt(l, l.first) = Idle
       /\ k.first # k.current /\ ShellNode(l) = ShellNode(k)
       /\ ShellNode(l) \in DOMAIN l.node /\ PidAt(l, ShellNode(l)) = Shell
  <2>1. k.first # k.current
    BY <1>3, <1>4, <1>11 DEF Pointers, CurrentPid
  <2>2. ShellNode(l) = ShellNode(k)
    BY <1>6, <1>10, <1>11, <2>1 DEF ShellNode, Pointers
  <2>3. QED
    BY <1>10, <1>11, <1>14, <2>1, <2>2 DEF Pointers
<1>19. Pointers(l)
  <2>1. CASE fg
    <3>1. k.background = NoNode /\ k.foreground = ShellNode(k) /\ q = Shell
      BY <1>4, <1>11, <2>1 DEF Pointers
    <3>2. k.current = ShellNode(k)
      BY <1>3, <1>11, <3>1 DEF Homes, Pointers, CurrentPid
    <3>3. l.foreground = n /\ l.background = ShellNode(k)
      BY <1>10, <2>1, <3>1
    <3>4. l.background # NoNode
      BY <1>11, <3>2, <3>3 DEF IsKernel, NodeIds, NoNode
    <3>5. l.node[ShellNode(k)].next = n
      BY <1>6, <3>2
    <3>6. QED
      BY <1>10, <1>14, <1>17, <1>18, <3>3, <3>4, <3>5 DEF Pointers
  <2>2. CASE ~fg
    <3>1. l.foreground = k.foreground /\ l.background = k.background
      BY <1>10, <2>2
    <3>2. CASE k.background = NoNode
      BY <1>11, <1>18, <3>1, <3>2 DEF Pointers
    <3>3. CASE k.background # NoNode
      <4>1. /\ k.background = ShellNode(k) /\ PidAt(k, k.background) = Shell
            /\ k.foreground = k.node[ShellNode(k)].next
            /\ k.foreground \in DOMAIN k.node
            /\ PidAt(k, k.foreground) \notin {Idle, Shell}
            /\ ShellNode(k) \in DOMAIN k.node
        BY <1>11, <3>3 DEF Pointers
      <4>2. k.current # ShellNode(k)
        BY <1>3, <1>4, <3>3, <4>1 DEF CurrentPid
      <4>3. l.node[ShellNode(k)].next = k.foreground
        BY <1>6, <4>1, <4>2
      <4>4. QED
        BY <1>10, <1>14, <1>18, <3>1, <3>3, <4>1, <4>3 DEF Pointers
    <3>4. QED
      BY <3>2, <3>3
  <2>3. QED
    BY <2>1, <2>2
<1>20. Shape(l)
  BY <1>12, <1>13, <1>15, <1>19 DEF Shape
<1>21. \A o \in DOMAIN k.proc : /\ o < p /\ k.proc[o].ppid < p
                                /\ o \in Int /\ k.proc[o].ppid \in Int
  BY <1>2, <1>3, <1>11 DEF Family, IsKernel, ProcRec, Pids
<1>22. ASSUME NEW o \in DOMAIN l.proc
       PROVE  l.proc[o].children = Cardinality(ChildrenOf(l, o))
  <2>1. CASE o = p
    <3>1. ChildrenOf(l, p) = {}
      <4> SUFFICES ASSUME NEW c \in ChildrenOf(l, p) PROVE FALSE
        OBVIOUS
      <4>1. c \in DOMAIN l.proc /\ l.proc[c].ppid = p
        BY DEF ChildrenOf
      <4>2. CASE c = p
        BY <1>4, <1>7, <4>1, <4>2
      <4>3. CASE c # p
        <5>1. c \in DOMAIN k.proc /\ k.proc[c].ppid = p
          BY <1>8, <1>10, <4>1, <4>3
        <5>2. QED
          BY <1>11, <1>21, <5>1
      <4>4. QED
        BY <4>2, <4>3
    <3>2. QED
      BY <1>7, <2>1, <3>1, FS_EmptySet
  <2>2. CASE o # p
    <3>1. o \in DOMAIN k.proc /\ k.proc[o].children = Cardinality(ChildrenOf(k, o))
      BY <1>2, <1>10, <2>2 DEF Family
    <3>2. IsFiniteSet(ChildrenOf(k, o))
      <4>1. IsFiniteSet(DOMAIN k.proc) /\ ChildrenOf(k, o) \subseteq DOMAIN k.proc
        BY <1>11 DEF Homes, ChildrenOf
      <4>2. QED
        BY <4>1, FS_Subset
    <3>3. CASE o = q
      <4>1. ChildrenOf(l, o) = ChildrenOf(k, o) \cup {p}
        BY <1>7, <1>8, <1>10, <1>17, <3>3 DEF ChildrenOf
      <4>2. p \notin ChildrenOf(k, o)
        BY <1>4 DEF ChildrenOf
      <4>3. Cardinality(ChildrenOf(k, o) \cup {p}) = Cardinality(ChildrenOf(k, o)) + 1
        BY <3>2, <4>2, FS_AddElement
      <4>4. QED
        BY <1>7, <3>1, <3>3, <4>1, <4>3
    <3>4. CASE o # q
      <4>1. ChildrenOf(l, o) = ChildrenOf(k, o)
        BY <1>4, <1>7, <1>8, <1>10, <3>4 DEF ChildrenOf
      <4>2. QED
        BY <1>8, <3>1, <3>4, <4>1
    <3>5. QED
      BY <3>3, <3>4
  <2>3. QED
    BY <2>1, <2>2
<1>23. ASSUME NEW o \in DOMAIN l.proc, l.proc[o].waits
       PROVE  l.proc[o].children # 0
  <2>1. o # p
    BY <1>9, <1>23, Zenon
  <2>2. o \in DOMAIN k.proc
    BY <1>10, <2>1
  <2>3. k.proc[o].waits
    BY <1>9, <1>23, <2>2, Zenon
  <2>4. k.proc[o].children # 0
    BY <1>2, <2>2, <2>3, Zenon DEF Family
  <2>5. CASE o # q
    BY <1>8, <2>2, <2>4, <2>5
  <2>6. CASE o = q
    <3>1. q \in ChildrenOf(l, q) \/ p \in ChildrenOf(l, q)
      BY <1>7, <1>10, <1>17 DEF ChildrenOf
    <3>2. k.proc[q].children = Cardinality(ChildrenOf(k, q))
      BY <1>2, <1>4 DEF Family
    <3>3. Cardinality(ChildrenOf(k, q)) \in Nat
      <4>1. IsFiniteSet(DOMAIN k.proc) /\ ChildrenOf(k, q) \subseteq DOMAIN k.proc
        BY <1>11 DEF Homes, ChildrenOf
      <4>2. IsFiniteSet(ChildrenOf(k, q))
        BY <4>1, FS_Subset
      <4>3. QED
        BY <4>2, FS_CardinalityType
    <3>4. QED
      BY <1>7, <2>6, <3>2, <3>3
  <2>7. QED
    BY <2>5, <2>6
<1>24. Family(l)
  <2>1. \A o \in DOMAIN l.proc : o < l.pidc /\ l.proc[o].ppid < l.pidc
    <3> SUFFICES ASSUME NEW o \in DOMAIN l.proc
                 PROVE  o < l.pidc /\ l.proc[o].ppid < l.pidc
      OBVIOUS
    <3>1. CASE o = p
      BY <1>4, <1>7, <1>10, <1>11, <1>21, <3>1
    <3>2. CASE o # p
      BY <1>8, <1>10, <1>11, <1>21, <3>2
    <3>3. QED
      BY <3>1, <3>2
  <2>2. \A o \in DOMAIN l.proc \ {Idle} : l.proc[o].ppid < o
    <3> SUFFICES ASSUME NEW o \in DOMAIN l.proc \ {Idle}
                 PROVE  l.proc[o].ppid < o
      OBVIOUS
    <3>1. CASE o = p
      BY <1>4, <1>7, <1>21, <3>1
    <3>2. CASE o # p
      BY <1>2, <1>8, <1>10, <3>2 DEF Family
    <3>3. QED
      BY <3>1, <3>2
  <2>3. l.proc[Idle].state \in {"READY", "RUNNING"}
    BY <1>2, <1>8, <1>16 DEF Family
  <2>4. QED
    BY <1>22, <1>23, <2>1, <2>2, <2>3 DEF Family
<1>25. Marked(l)
  <2>1. CurrentPid(l) = q
    BY <1>3, <1>10, <1>11, <1>14 DEF CurrentPid
  <2>2. QED
    BY <1>2, <1>3, <1>4, <1>7, <1>8, <1>10, <2>1 DEF Marked
<1>26. k.background # NoNode => l.foreground = k.foreground
  BY <1>4, <1>10
<1>27. QED
  BY <1>1, <1>20, <1>24, <1>25, <1>26 DEF Sound, Returns

-----------------------------------------------------------------------------
LEMMA FrontReturns ==
    ASSUME NEW k, NEW l, Shape(l),
           \/ l.foreground = k.foreground /\ l.background = k.background
           \/ /\ l.foreground = k.background /\ l.background = NoNode
              /\ l.proc[Shell].state # "BLOCKED"
    PROVE  Returns(k, l)
<1>1. l.background = NoNode => PidAt(l, l.foreground) = Shell
  BY DEF Shape, Pointers
<1>2. QED
  BY <1>1 DEF Returns, StateAt

LEMMA SoundMayHalt ==
    ASSUME NEW k, Sound(k)
    PROVE  MayHalt(k)
  BY DEF MayHalt, StateAt, CurrentPid, Sound, Marked

\* A process that is woken was not the one that has the CPU.
LEMMA WokenMarked ==
    ASSUME NEW k, NEW l, Sound(k), Woken(k, l)
    PROVE  Marked(l)
<1>1. CurrentPid(l) = CurrentPid(k)
  BY DEF Woken, CurrentPid, PidAt
<1>2. CurrentPid(k) \in DOMAIN k.proc
  BY ShellLives DEF Sound
<1>3. QED
  BY <1>1, <1>2 DEF Woken, Sound, Marked

LEMMA TickStep ==
    ASSUME Sound(kernel), Tick PROVE Sound(kernel') /\ Returns(kernel, kernel')
<1>1. PICK k, l : k = kernel /\ l = kernel'
  OBVIOUS
<1>2. l = Schedule(k, FALSE) /\ Sound(k)
  BY <1>1 DEF Tick
<1>3. Shape(l) /\ Family(l) /\ Marked(l) /\ FrontKept(k, l)
  BY <1>2, SoundMayHalt, Scheduled DEF Sound
<1>4. Returns(k, l)
  BY <1>3, FrontReturns DEF FrontKept
<1>5. QED
  BY <1>1, <1>3, <1>4 DEF Sound

LEMMA YieldStep ==
    ASSUME Sound(kernel), Yield PROVE Sound(kernel') /\ Returns(kernel, kernel')
<1>1. PICK k, l : k = kernel /\ l = kernel'
  OBVIOUS
<1>2. l = Schedule(k, TRUE) /\ Sound(k)
  BY <1>1 DEF Yield
<1>3. Shape(l) /\ Family(l) /\ Marked(l) /\ FrontKept(k, l)
  BY <1>2, SoundMayHalt, Scheduled DEF Sound
<1>4. Returns(k, l)
  BY <1>3, FrontReturns DEF FrontKept
<1>5. QED
  BY <1>1, <1>3, <1>4 DEF Sound

LEMMA ExitStep ==
    ASSUME Sound(kernel), Exit PROVE Sound(kernel') /\ Returns(kernel, kernel')
<1>1. PICK k, l, q : k = kernel /\ l = kernel' /\ q = CurrentPid(kernel)
  OBVIOUS
<1>2. l = KillProcess(k, q) /\ Sound(k) /\ q \notin {Idle, Shell} /\ q = CurrentPid(k)
  BY <1>1 DEF Exit, IsFree, IsUser, Me
<1>3. \A p \in DOMAIN k.proc : k.proc[p].state = "RUNNING" => p = q
  BY <1>2 DEF Sound, Marked
<1>4. Shape(l) /\ Family(l) /\ Marked(l) /\ FrontKept(k, l)
  BY <1>2, <1>3, Killed DEF Sound
<1>5. Returns(k, l)
  BY <1>4, FrontReturns DEF FrontKept
<1>6. QED
  BY <1>1, <1>4, <1>5 DEF Sound

LEMMA CtrlCStep ==
    ASSUME Sound(kernel), CtrlC, "ctrl-c" \notin Uses
    PROVE  Sound(kernel') /\ Returns(kernel, kernel')
<1>1. PICK k, l, q : k = kernel /\ l = kernel' /\ q = CurrentPid(kernel)
  OBVIOUS
<1>2. Shape(k) /\ Family(k) /\ Marked(k) /\ Sound(k) /\ q = CurrentPid(k)
  BY <1>1 DEF Sound
<1>3. CASE k.background = NoNode
  <2>1. l = ReadyForeground(k)
    BY <1>1, <1>3 DEF CtrlC
  <2>2. /\ Shape(l) /\ Family(l) /\ Woken(k, l)
        /\ l.foreground = k.foreground /\ l.background = k.background
    BY <1>2, <2>1, ForegroundIsReady
  <2>3. Marked(l)
    BY <1>2, <2>2, WokenMarked
  <2>4. Returns(k, l)
    BY <2>2, FrontReturns
  <2>5. QED
    BY <1>1, <2>2, <2>3, <2>4 DEF Sound
<1>4. CASE k.background # NoNode
  <2>1. q = PidAt(k, k.foreground) /\ l = KillProcess(ReturnForeground(k), q)
    BY <1>1, <1>4 DEF CtrlC, Me
  <2>2. q \notin {Idle, Shell}
    BY <1>2, <1>4, <2>1 DEF Shape, Pointers
  <2>3. PICK h : h = ReturnForeground(k)
    OBVIOUS
  <2>4. /\ Shape(h) /\ Family(h) /\ Woken(k, h)
        /\ h.foreground = k.background /\ h.background = NoNode
        /\ h.proc[Shell].state # "BLOCKED"
    BY <1>2, <1>4, <2>3, ForegroundIsReturned
  <2>5. q = CurrentPid(h)
    BY <1>2, <2>4 DEF Woken, CurrentPid, PidAt
  <2>6. \A p \in DOMAIN h.proc : h.proc[p].state = "RUNNING" => p = q
    BY <1>2, <2>4 DEF Woken, Marked
  <2>7. l = KillProcess(h, q)
    BY <2>1, <2>3
  <2>8. Shape(l) /\ Family(l) /\ Marked(l) /\ FrontKept(h, l)
    BY <2>2, <2>4, <2>5, <2>6, <2>7, Killed
  <2>9. /\ l.foreground = k.background /\ l.background = NoNode
        /\ l.proc[Shell].state # "BLOCKED"
    BY <2>4, <2>8 DEF FrontKept
  <2>10. Returns(k, l)
    BY <2>8, <2>9, FrontReturns
  <2>11. QED
    BY <1>1, <2>8, <2>10 DEF Sound
<1>5. QED
  BY <1>3, <1>4

LEMMA WaitPidStep ==
    ASSUME Sound(kernel), WaitPid
    PROVE  Sound(kernel') /\ Returns(kernel, kernel')
<1>1. PICK k, l, q : k = kernel /\ l = kernel' /\ q = CurrentPid(kernel)
  OBVIOUS
<1>2. PICK h : h = SetState(k, q, "BLOCKED")
  OBVIOUS
<1>3. PICK w : w = [h EXCEPT !.proc[q].waits = TRUE]
  OBVIOUS
<1>4. /\ l = Schedule(w, FALSE) /\ q # Idle /\ k.proc[q].children # 0
      /\ Shape(k) /\ Family(k) /\ Marked(k) /\ q = CurrentPid(k)
  BY <1>1, <1>2, <1>3 DEF WaitPid, IsUser, Me, Sound
<1>5. q \in DOMAIN k.proc
  BY <1>4, ShellLives
<1>6. /\ Shape(h) /\ Family(h) /\ h.node = k.node /\ h.current = k.current
      /\ h.foreground = k.foreground /\ h.background = k.background
      /\ DOMAIN h.proc = DOMAIN k.proc
      /\ \A p \in DOMAIN k.proc :
            /\ h.proc[p].state = IF p = q THEN "BLOCKED" ELSE k.proc[p].state
            /\ h.proc[p].children = k.proc[p].children
  BY <1>2, <1>4, <1>5, StateIsSet DEF States
<1>7. IsKernel(h) /\ h.proc \in [DOMAIN h.proc -> ProcRec]
  BY <1>6 DEF Shape, IsKernel
<1> DEFINE t == [h.proc[q] EXCEPT !.waits = TRUE]
           procs == [h.proc EXCEPT ![q] = t]
<1>8. /\ t \in ProcRec /\ t.ppid = h.proc[q].ppid /\ t.state = h.proc[q].state
      /\ t.children = h.proc[q].children
  BY <1>5, <1>6, <1>7 DEF ProcRec
<1>9. w = [h EXCEPT !.proc = procs]
  BY <1>3, <1>7, Zenon
<1> HIDE DEF t
<1>10. /\ procs \in [DOMAIN h.proc -> ProcRec] /\ DOMAIN procs = DOMAIN h.proc
       /\ procs[q] = t /\ \A p \in DOMAIN h.proc : p # q => procs[p] = h.proc[p]
  BY <1>5, <1>6, <1>7, <1>8
<1> HIDE DEF procs
<1>11. w = [node |-> h.node, proc |-> procs, current |-> h.current,
            first |-> h.first, foreground |-> h.foreground,
            background |-> h.background, counter |-> h.counter, pidc |-> h.pidc]
  <2>1. h = [node |-> h.node, proc |-> h.proc, current |-> h.current,
             first |-> h.first, foreground |-> h.foreground,
             background |-> h.background, counter |-> h.counter,
             pidc |-> h.pidc]
    BY <1>7 DEF IsKernel
  <2>2. QED
    BY <1>9, <2>1
<1>12. IsKernel(w)
  BY <1>7, <1>10, <1>11 DEF IsKernel
<1>13. SameRing(h, w)
  BY <1>11 DEF SameRing
<1>14. \A p \in DOMAIN h.proc : /\ procs[p].ppid = h.proc[p].ppid
                                /\ procs[p].children = h.proc[p].children
                                /\ procs[p].state = h.proc[p].state
  BY <1>8, <1>10
<1>15. ASSUME NEW p \in DOMAIN h.proc, procs[p].waits PROVE procs[p].children # 0
  <2>1. CASE p = q
    BY <1>4, <1>5, <1>6, <1>14, <2>1
  <2>2. CASE p # q
    <3>1. procs[p] = h.proc[p]
      BY <1>10, <2>2
    <3>2. h.proc[p].waits
      BY <1>15, <3>1, Zenon
    <3>3. QED
      BY <1>6, <3>1, <3>2, Zenon DEF Family
  <2>3. QED
    BY <2>1, <2>2
<1>16. SameFamily(h, w)
  <2>1. Idle \in DOMAIN h.proc
    BY <1>6, ShellLives
  <2>2. w.proc[Idle].state \in {"READY", "RUNNING"}
    BY <1>6, <1>11, <1>14, <2>1 DEF Family
  <2>3. DOMAIN w.proc = DOMAIN h.proc /\ w.pidc = h.pidc /\ w.proc = procs
    BY <1>10, <1>11
  <2>4. QED
    BY <1>14, <1>15, <2>2, <2>3, Zenon DEF SameFamily
<1>17. Shape(w) /\ Family(w)
  BY <1>6, <1>12, <1>13, <1>16, Untouched
<1>18. CurrentPid(w) = q /\ StateAt(w, w.current) = "BLOCKED"
  BY <1>4, <1>5, <1>6, <1>11, <1>14 DEF CurrentPid, PidAt, StateAt
<1>19. \A p \in DOMAIN w.proc : w.proc[p].state = "RUNNING" => p = q
  BY <1>4, <1>6, <1>10, <1>11, <1>14 DEF Marked
<1>20. MayHalt(w)
  BY <1>18, <1>19 DEF MayHalt
<1>21. Shape(l) /\ Family(l) /\ Marked(l) /\ FrontKept(w, l)
  BY <1>4, <1>17, <1>20, Scheduled
<1>22. w.foreground = k.foreground /\ w.background = k.background
  BY <1>6, <1>11
<1>23. Returns(k, l)
  BY <1>21, <1>22, FrontReturns DEF FrontKept
<1>24. QED
  BY <1>1, <1>21, <1>23 DEF Sound

\* A child is not its parent, nor IDLE.
LEMMA ChildIsOther ==
    ASSUME Sound(kernel), NEW p \in Children(Me)
    PROVE  p \in DOMAIN kernel.proc /\ p # Idle /\ p # CurrentPid(kernel)
<1>1. p \in DOMAIN kernel.proc /\ p # Idle /\ kernel.proc[p].ppid = CurrentPid(kernel)
  BY DEF Children, Me
<1>2. kernel.proc[p].ppid < p /\ p \in Int
  BY <1>1 DEF Sound, Shape, Family, IsKernel, Pids
<1>3. QED
  BY <1>1, <1>2

LEMMA BlockStep ==
    ASSUME Sound(kernel), NEW p, Block(p)
    PROVE  Sound(kernel') /\ Returns(kernel, kernel')
<1>1. PICK k, l, q : k = kernel /\ l = kernel' /\ q = CurrentPid(kernel)
  OBVIOUS
<1>2. Shape(k) /\ Family(k) /\ Marked(k) /\ q = CurrentPid(k)
  BY <1>1 DEF Sound
<1>3. p \in DOMAIN k.proc /\ p # Idle /\ p # q
  BY <1>1, ChildIsOther DEF Block
<1>4. PICK h : h = SetState(k, p, "BLOCKED")
  OBVIOUS
<1>5. /\ Shape(h) /\ Family(h) /\ h.node = k.node /\ h.current = k.current
      /\ h.foreground = k.foreground /\ h.background = k.background
      /\ DOMAIN h.proc = DOMAIN k.proc
      /\ \A o \in DOMAIN k.proc :
            h.proc[o].state = IF o = p THEN "BLOCKED" ELSE k.proc[o].state
  BY <1>2, <1>3, <1>4, StateIsSet DEF States
<1>6. CurrentPid(h) = q /\ q \in DOMAIN k.proc
  BY <1>2, <1>5, ShellLives DEF CurrentPid, PidAt
<1>7. StateAt(h, h.current) \in {"RUNNING", "READY"}
  BY <1>2, <1>3, <1>5, <1>6 DEF Marked, StateAt, CurrentPid
<1>8. MayHalt(h)
  BY <1>2, <1>5, <1>6, <1>7 DEF MayHalt, Marked
<1>9. l = Schedule(h, FALSE)
  BY <1>1, <1>4 DEF Block
<1>10. Shape(l) /\ Family(l) /\ Marked(l) /\ FrontKept(h, l)
  BY <1>5, <1>8, <1>9, Scheduled
<1>11. Returns(k, l)
  BY <1>5, <1>10, FrontReturns DEF FrontKept
<1>12. QED
  BY <1>1, <1>10, <1>11 DEF Sound

\* ready_process, on the process that has the CPU or on any other.
LEMMA ReadyStep ==
    ASSUME Sound(kernel), NEW p, Ready(p)
    PROVE  Sound(kernel') /\ Returns(kernel, kernel')
<1>1. PICK k, l, q : k = kernel /\ l = kernel' /\ q = CurrentPid(kernel)
  OBVIOUS
<1>2. /\ Shape(k) /\ Family(k) /\ Marked(k) /\ q = CurrentPid(k)
      /\ q \in DOMAIN k.proc
  BY <1>1, ShellLives DEF Sound
<1>3. l = IF FindNode(k, p) = NoNode THEN k ELSE SetState(k, p, "READY")
  BY <1>1 DEF Ready, ReadyProcess
<1>4. CASE p \notin DOMAIN k.proc
  <2>1. l = k
    BY <1>2, <1>3, <1>4, FindNodeFinds
  <2>2. QED
    BY <1>1, <1>2, <2>1, FrontReturns DEF Sound
<1>5. CASE p \in DOMAIN k.proc
  <2>1. FindNode(k, p) # NoNode
    BY <1>2, <1>5, FindNodeFinds
  <2>2. l = SetState(k, p, "READY")
    BY <1>3, <2>1
  <2>3. /\ Shape(l) /\ Family(l) /\ l.node = k.node /\ l.current = k.current
        /\ l.foreground = k.foreground /\ l.background = k.background
        /\ DOMAIN l.proc = DOMAIN k.proc
        /\ \A o \in DOMAIN k.proc :
              l.proc[o].state = IF o = p THEN "READY" ELSE k.proc[o].state
    BY <1>2, <1>5, <2>2, StateIsSet DEF States
  <2>4. CurrentPid(l) = q
    BY <1>2, <2>3 DEF CurrentPid, PidAt
  <2>5. Marked(l)
    BY <1>2, <2>3, <2>4 DEF Marked
  <2>6. Returns(k, l)
    BY <2>3, FrontReturns
  <2>7. QED
    BY <1>1, <2>3, <2>5, <2>6 DEF Sound
<1>6. QED
  BY <1>4, <1>5

LEMMA NiceStep ==
    ASSUME Sound(kernel), NEW p, NEW prio \in Priorities, Nice(p, prio)
    PROVE  Sound(kernel') /\ Returns(kernel, kernel')
<1>1. PICK k, l : k = kernel /\ l = kernel'
  OBVIOUS
<1>2. Shape(k) /\ Family(k) /\ Marked(k) /\ IsKernel(k)
  BY <1>1 DEF Sound, Shape
<1>3. p \in DOMAIN k.proc
  BY <1>1, ChildIsOther DEF Nice
<1> DEFINE t == [k.proc[p] EXCEPT !.priority = prio]
           procs == [k.proc EXCEPT ![p] = t]
<1>4. k.proc \in [DOMAIN k.proc -> ProcRec] /\ prio \in Nat
  BY <1>2, SchedAssumption DEF IsKernel
<1>5. /\ t \in ProcRec /\ t.ppid = k.proc[p].ppid /\ t.state = k.proc[p].state
      /\ t.children = k.proc[p].children /\ t.waits = k.proc[p].waits
  BY <1>3, <1>4 DEF ProcRec
<1>6. l = [node |-> k.node, proc |-> procs, current |-> k.current,
           first |-> k.first, foreground |-> k.foreground,
           background |-> k.background, counter |-> k.counter, pidc |-> k.pidc]
  BY <1>1, <1>2 DEF Nice, IsKernel
<1> HIDE DEF t
<1>7. /\ procs \in [DOMAIN k.proc -> ProcRec] /\ DOMAIN procs = DOMAIN k.proc
      /\ procs[p] = t /\ \A q \in DOMAIN k.proc : q # p => procs[q] = k.proc[q]
  BY <1>3, <1>4, <1>5
<1> HIDE DEF procs
<1>8. IsKernel(l)
  BY <1>2, <1>6, <1>7 DEF IsKernel
<1>9. SameRing(k, l)
  BY <1>6 DEF SameRing
<1>10. Idle \in DOMAIN k.proc
  BY <1>2, ShellLives
<1>11. SameFamily(k, l)
  BY <1>2, <1>5, <1>6, <1>7, <1>10 DEF SameFamily, Family
<1>12. Shape(l) /\ Family(l)
  BY <1>2, <1>8, <1>9, <1>11, Untouched
<1>13. Marked(l)
  <2>1. CurrentPid(l) = CurrentPid(k)
    BY <1>6 DEF CurrentPid, PidAt
  <2>2. \A q \in DOMAIN k.proc : l.proc[q].state = k.proc[q].state
    BY <1>5, <1>6, <1>7
  <2>3. DOMAIN l.proc = DOMAIN k.proc
    BY <1>6, <1>7
  <2>4. CurrentPid(k) \in DOMAIN k.proc
    BY <1>2, ShellLives
  <2>5. QED
    BY <1>2, <2>1, <2>2, <2>3, <2>4 DEF Marked
<1>14. Returns(k, l)
  BY <1>6, <1>12, FrontReturns
<1>15. QED
  BY <1>1, <1>12, <1>13, <1>14 DEF Sound

-----------------------------------------------------------------------------
LEMMA InitSound == Init => Sound(kernel)
<1> SUFFICES ASSUME Init PROVE Sound(kernel)
  OBVIOUS
<1>1. PICK k : k = kernel
  OBVIOUS
<1> DEFINE nodes == [n \in {1, 2} |-> IF n = 1 THEN Node(Idle, 2, MaxQuantum)
                                      ELSE Node(Shell, 1, 0)]
           procs == [p \in {Idle, Shell} |->
                       IF p = Idle THEN Process(Idle, "RUNNING", MaxQuantum, 1)
                       ELSE Process(Idle, "NEW", 0, 0)]
<1>2. k = [node |-> nodes, proc |-> procs, current |-> 1, first |-> 1,
           foreground |-> 2, background |-> NoNode, counter |-> 2, pidc |-> 2]
  BY <1>1 DEF Init
<1>3. MaxPid \in Nat /\ MaxPid >= 1 /\ MaxQuantum \in Nat
  BY SchedAssumption
<1>4. {1, 2} \subseteq NodeIds /\ {Idle, Shell} \subseteq Pids /\ Idle = 0 /\ Shell = 1
  BY <1>3 DEF NodeIds, Pids, Idle, Shell
<1>5. /\ DOMAIN nodes = {1, 2}
      /\ nodes[1].proc = Idle /\ nodes[1].next = 2
      /\ nodes[2].proc = Shell /\ nodes[2].next = 1
      /\ nodes \in [{1, 2} -> NodeRec]
  <2>1. Node(Idle, 2, MaxQuantum) \in NodeRec /\ Node(Shell, 1, 0) \in NodeRec
    BY <1>3, <1>4 DEF Node, NodeRec
  <2>2. nodes[1] = Node(Idle, 2, MaxQuantum) /\ nodes[2] = Node(Shell, 1, 0)
    OBVIOUS
  <2>3. nodes \in [{1, 2} -> NodeRec]
    BY <2>1
  <2>4. QED
    BY <2>2, <2>3 DEF Node
<1>6. /\ DOMAIN procs = {Idle, Shell}
      /\ procs[Idle].ppid = Idle /\ procs[Shell].ppid = Idle
      /\ procs[Idle].state = "RUNNING" /\ procs[Shell].state = "NEW"
      /\ procs[Idle].children = 1 /\ procs[Shell].children = 0
      /\ \A p \in {Idle, Shell} : ~procs[p].waits
      /\ procs \in [{Idle, Shell} -> ProcRec]
  <2>1. /\ Process(Idle, "RUNNING", MaxQuantum, 1) \in ProcRec
        /\ Process(Idle, "NEW", 0, 0) \in ProcRec
    BY <1>3, <1>4 DEF Process, ProcRec, States
  <2>2. /\ procs[Idle] = Process(Idle, "RUNNING", MaxQuantum, 1)
        /\ procs[Shell] = Process(Idle, "NEW", 0, 0)
    BY <1>4
  <2>3. procs \in [{Idle, Shell} -> ProcRec]
    BY <2>1
  <2>4. QED
    BY <2>2, <2>3 DEF Process
<1> HIDE DEF nodes, procs
<1>7. /\ k.node = nodes /\ k.proc = procs /\ k.current = 1 /\ k.first = 1
      /\ k.foreground = 2 /\ k.background = NoNode /\ k.counter = 2 /\ k.pidc = 2
  BY <1>2
<1>8. IsKernel(k)
  BY <1>2, <1>4, <1>5, <1>6, <1>7 DEF IsKernel
<1>9. \E r : Ring(k, r)
  <2> DEFINE r == [i \in 0..1 |-> i + 1]
  <2>1. /\ r \in [0..1 -> {1, 2}] /\ r[0] = 1 /\ r[1] = 2
        /\ 0..1 = {0, 1} /\ 0..0 = {0} /\ 2 - 1 = 1 /\ 2 - 2 = 0
    OBVIOUS
  <2> HIDE DEF r
  <2>2. Ring(k, r)
    BY <1>5, <1>7, <2>1 DEF Ring
  <2>3. QED
    BY <2>2
<1>10. PidAt(k, 1) = Idle /\ PidAt(k, 2) = Shell
  BY <1>5, <1>7 DEF PidAt
<1>11. Homes(k)
  <2>1. /\ IsFiniteSet({1, 2}) /\ Cardinality({1, 2}) = 2
        /\ IsFiniteSet({0, 1}) /\ Cardinality({0, 1}) = 2
    <3>1. /\ IsFiniteSet({1}) /\ Cardinality({1}) = 1
          /\ IsFiniteSet({0}) /\ Cardinality({0}) = 1
      BY FS_Singleton
    <3>2. /\ IsFiniteSet({1} \cup {2}) /\ Cardinality({1} \cup {2}) = 1 + 1
          /\ IsFiniteSet({0} \cup {1}) /\ Cardinality({0} \cup {1}) = 1 + 1
      BY <3>1, FS_AddElement
    <3>3. {1} \cup {2} = {1, 2} /\ {0} \cup {1} = {0, 1}
      OBVIOUS
    <3>4. QED
      BY <3>2, <3>3
  <2>2. QED
    BY <1>4, <1>5, <1>6, <1>7, <1>10, <2>1 DEF Homes
<1>12. Pointers(k)
  BY <1>5, <1>7, <1>10 DEF Pointers, ShellNode
<1>13. Family(k)
  <2>1. ChildrenOf(k, Idle) = {Shell} /\ ChildrenOf(k, Shell) = {}
    BY <1>4, <1>6, <1>7 DEF ChildrenOf
  <2>2. Cardinality({Shell}) = 1 /\ Cardinality({}) = 0
    BY FS_Singleton, FS_EmptySet
  <2>3. \A p \in DOMAIN k.proc : k.proc[p].children = Cardinality(ChildrenOf(k, p))
    BY <1>6, <1>7, <2>1, <2>2
  <2>4. \A p \in DOMAIN k.proc : k.proc[p].waits => k.proc[p].children # 0
    BY <1>6, <1>7, Zenon
  <2>5. \A p \in DOMAIN k.proc : p < k.pidc /\ k.proc[p].ppid < k.pidc
    BY <1>4, <1>6, <1>7
  <2>6. \A p \in DOMAIN k.proc \ {Idle} : k.proc[p].ppid < p
    BY <1>4, <1>6, <1>7
  <2>7. QED
    BY <1>6, <1>7, <2>3, <2>4, <2>5, <2>6 DEF Family
<1>14. Marked(k)
  BY <1>4, <1>6, <1>7, <1>10 DEF Marked, CurrentPid
<1>15. QED
  BY <1>1, <1>8, <1>9, <1>11, <1>12, <1>13, <1>14 DEF Sound, Shape

LEMMA NextSound ==
    ASSUME Uses \subseteq {"block"}, Sound(kernel), [Next]_kernel
    PROVE  Sound(kernel') /\ (kernel' # kernel => Returns(kernel, kernel'))
<1>1. "kill" \notin Uses /\ "ctrl-c" \notin Uses
  OBVIOUS
<1>2. CASE kernel' = kernel
  BY <1>2
<1>3. CASE Tick
  BY <1>3, TickStep
<1>4. CASE Exit
  BY <1>4, ExitStep
<1>5. CASE Yield
  BY <1>5, YieldStep
<1>6. CASE WaitPid
  BY <1>6, WaitPidStep
<1>7. CASE CtrlC
  BY <1>1, <1>7, CtrlCStep
<1>8. ASSUME NEW prio \in Priorities, NEW fg \in BOOLEAN, Exec(prio, fg)
      PROVE  Sound(kernel') /\ Returns(kernel, kernel')
  BY <1>8, Executed
<1>9. ASSUME NEW p \in Pids, Block(p) \/ Ready(p) \/ Kill(p)
      PROVE  Sound(kernel') /\ Returns(kernel, kernel')
  BY <1>1, <1>9, BlockStep, ReadyStep DEF Kill
<1>10. ASSUME NEW p \in Pids, NEW prio \in Priorities, Nice(p, prio)
       PROVE  Sound(kernel') /\ Returns(kernel, kernel')
  BY <1>10, NiceStep
<1>11. QED
  BY <1>2, <1>3, <1>4, <1>5, <1>6, <1>7, <1>8, <1>9, <1>10 DEF Next

LEMMA Invariance ==
    ASSUME Uses \subseteq {"block"} PROVE Spec => []SchedInv
<1>1. Init => SchedInv
  BY InitSound DEF SchedInv
<1>2. SchedInv /\ [Next]_kernel => SchedInv'
  BY NextSound DEF SchedInv
<1>3. QED
  BY <1>1, <1>2, PTL DEF Spec

(***************************************************************************)
(* The nodes are one ring, each process is in one of them, and no pointer  *)
(* dangles, although destroy_node moves processes between nodes, when a    *)
(* process only ends while it has the CPU (scheduler.c, destroy_node).     *)
(***************************************************************************)
THEOREM RingStaysSound ==
    ASSUME Uses \subseteq {"block"} PROVE Spec => []RingIsSound
<1>1. SchedInv => RingIsSound
  <2> SUFFICES ASSUME SchedInv PROVE RingIsSound
    OBVIOUS
  <2>1. /\ Shape(kernel) /\ Homes(kernel) /\ Pointers(kernel)
        /\ kernel.current \in DOMAIN kernel.node
    BY DEF SchedInv, Sound, Shape, IsKernel
  <2>2. Range(Hops(kernel, kernel.first)) = DOMAIN kernel.node
    BY <2>1, RangeIsAll
  <2>3. {PidAt(kernel, n) : n \in DOMAIN kernel.node} = DOMAIN kernel.proc
    BY <2>1 DEF Homes
  <2>4. kernel.foreground \in DOMAIN kernel.node
    BY <2>1 DEF Pointers
  <2>5. kernel.background \in DOMAIN kernel.node \cup {NoNode}
    BY <2>1 DEF Pointers
  <2>6. QED
    BY <2>1, <2>2, <2>3, <2>4, <2>5 DEF RingIsSound, Homes, Pointers
<1>2. QED
  BY <1>1, Invariance, PTL

(***************************************************************************)
(* No process but the one that has the CPU is left RUNNING, and that one   *)
(* is RUNNING, or READY when something called ready_process on it: it is   *)
(* never one that blocked, ended or was not switched in.                   *)
(***************************************************************************)
THEOREM OnlyOneIsMarked ==
    ASSUME Uses \subseteq {"block"} PROVE Spec => []OnlyOneRuns
<1>1. SchedInv => OnlyOneRuns
  BY DEF SchedInv, Sound, Shape, IsKernel, Marked, OnlyOneRuns, StateAt, CurrentPid
<1>2. QED
  BY <1>1, Invariance, PTL

(***************************************************************************)
(* A process counts exactly its living children: destroy_node tells the    *)
(* parent of the process that has the CPU, which is the one that ends.     *)
(***************************************************************************)
THEOREM ChildrenStayCounted ==
    ASSUME Uses \subseteq {"block"} PROVE Spec => []ChildrenAreCounted
<1>1. SchedInv => ChildrenAreCounted
  BY DEF SchedInv, Sound, Family, ChildrenAreCounted, ChildrenOf, Children
<1>2. QED
  BY <1>1, Invariance, PTL

(***************************************************************************)
(* No process stays BLOCKED by its own wait_pid when its children are all  *)
(* gone: destroy_node makes it READY with the last of them.                *)
(***************************************************************************)
THEOREM WakeupIsNotLost ==
    ASSUME Uses \subseteq {"block"} PROVE Spec => []NoLostWakeup
<1>1. SchedInv => NoLostWakeup
  <2> SUFFICES ASSUME SchedInv, NEW p \in DOMAIN kernel.proc,
                      kernel.proc[p].waits
               PROVE  Children(p) # {}
    BY Zenon DEF NoLostWakeup
  <2>1. kernel.proc[p].children # 0
    BY Zenon DEF SchedInv, Sound, Family
  <2>2. kernel.proc[p].children = Cardinality(Children(p))
    BY DEF SchedInv, Sound, Family, ChildrenOf, Children
  <2>3. QED
    BY <2>1, <2>2, FS_EmptySet
<1>2. QED
  BY <1>1, Invariance, PTL

(***************************************************************************)
(* The foreground goes back to the process behind, which is awake          *)
(* (kill_foreground_proc).                                                 *)
(***************************************************************************)
THEOREM ForegroundGoesBack ==
    ASSUME Uses \subseteq {"block"} PROVE Spec => ForegroundReturns
<1> DEFINE Back ==
             kernel.background # NoNode /\ kernel'.foreground # kernel.foreground
               => /\ kernel'.foreground = kernel.background
                  /\ kernel'.background = NoNode
                  /\ StateAt(kernel', kernel'.foreground) # "BLOCKED"
<1>1. SchedInv /\ [Next]_kernel => [Back]_kernel
  <2> SUFFICES ASSUME SchedInv, [Next]_kernel, kernel' # kernel PROVE Back
    OBVIOUS
  <2>1. Returns(kernel, kernel')
    BY NextSound DEF SchedInv
  <2>2. QED
    BY <2>1 DEF Returns
<1>2. QED
  BY <1>1, Invariance, PTL DEF Spec, ForegroundReturns

-----------------------------------------------------------------------------
(***************************************************************************)
(* The ring as a queue.  Its nodes can be listed from any of them on.      *)
(***************************************************************************)
\* f lists the nodes in the order of the ring, from c on.
Loop(k, c, f) ==
    /\ f \in [0..(k.counter - 1) -> DOMAIN k.node]
    /\ f[0] = c
    /\ \A i \in 0..(k.counter - 2) : k.node[f[i]].next = f[i + 1]
    /\ k.node[f[k.counter - 1]].next = c
    /\ \A n \in DOMAIN k.node : \E i \in 0..(k.counter - 1) : f[i] = n
    /\ \A i, j \in 0..(k.counter - 1) : f[i] = f[j] => i = j

\* The same from place j of f on.
Turned(N, f, j) ==
    [i \in 0..(N - 1) |-> IF i + j < N THEN f[i + j] ELSE f[i + j - N]]

\* The ring can be listed from any of its nodes on.
LEMMA LoopTurns ==
    ASSUME NEW k, NEW c, NEW f, k.counter \in Nat, k.counter >= 2, Loop(k, c, f),
           NEW j \in 0..(k.counter - 1)
    PROVE  Loop(k, f[j], Turned(k.counter, f, j))
<1> DEFINE N == k.counter
           g == Turned(N, f, j)
<1>1. /\ f \in [0..(N - 1) -> DOMAIN k.node] /\ f[0] = c
      /\ \A i \in 0..(N - 2) : k.node[f[i]].next = f[i + 1]
      /\ k.node[f[N - 1]].next = c
      /\ \A n \in DOMAIN k.node : \E i \in 0..(N - 1) : f[i] = n
      /\ \A i, m \in 0..(N - 1) : f[i] = f[m] => i = m
  BY Zenon DEF Loop
<1>2. \A i \in 0..(N - 1) : g[i] = IF i + j < N THEN f[i + j] ELSE f[i + j - N]
  BY DEF Turned
<1>3. g \in [0..(N - 1) -> DOMAIN k.node]
  BY <1>1 DEF Turned
<1>4. g[0] = f[j]
  BY <1>2
<1> HIDE DEF g
<1>5. \A i \in 0..(N - 2) : k.node[g[i]].next = g[i + 1]
  <2> SUFFICES ASSUME NEW i \in 0..(N - 2) PROVE k.node[g[i]].next = g[i + 1]
    OBVIOUS
  <2>1. /\ g[i] = IF i + j < N THEN f[i + j] ELSE f[i + j - N]
        /\ g[i + 1] = IF (i + 1) + j < N THEN f[i + 1 + j] ELSE f[i + 1 + j - N]
    BY <1>2
  <2>2. CASE i + j < N - 1
    <3>1. i + j \in 0..(N - 2) /\ (i + j) + 1 = i + 1 + j
      BY <2>2
    <3>2. QED
      BY <1>1, <2>1, <2>2, <3>1
  <2>3. CASE i + j = N - 1
    <3>1. g[i] = f[N - 1] /\ g[i + 1] = f[0]
      BY <2>1, <2>3
    <3>2. QED
      BY <1>1, <3>1
  <2>4. CASE i + j > N - 1
    <3>1. /\ i + j - N \in 0..(N - 2) /\ (i + j - N) + 1 = i + 1 + j - N
          /\ ~(i + j < N) /\ ~((i + 1) + j < N)
      BY <2>4
    <3>2. g[i] = f[i + j - N] /\ g[i + 1] = f[(i + j - N) + 1]
      BY <2>1, <3>1
    <3>3. k.node[f[i + j - N]].next = f[(i + j - N) + 1]
      BY <1>1, <3>1
    <3>4. QED
      BY <3>2, <3>3
  <2>5. QED
    BY <2>2, <2>3, <2>4
<1>6. k.node[g[N - 1]].next = g[0]
  <2>1. g[N - 1] = IF N - 1 + j < N THEN f[N - 1 + j] ELSE f[j - 1]
    BY <1>2
  <2>2. CASE j = 0
    BY <1>1, <1>4, <2>1, <2>2
  <2>3. CASE j # 0
    <3>1. j - 1 \in 0..(N - 2) /\ (j - 1) + 1 = j /\ ~(N - 1 + j < N)
      BY <2>3
    <3>2. QED
      BY <1>1, <1>4, <2>1, <3>1
  <2>4. QED
    BY <2>2, <2>3
<1>7. ASSUME NEW n \in DOMAIN k.node PROVE \E i \in 0..(N - 1) : g[i] = n
  <2>1. PICK m \in 0..(N - 1) : f[m] = n
    BY <1>1
  <2>2. CASE m >= j
    <3>1. m - j \in 0..(N - 1) /\ (m - j) + j < N /\ (m - j) + j = m
      BY <2>2
    <3>2. QED
      BY <1>2, <2>1, <3>1
  <2>3. CASE m < j
    <3>1. /\ m - j + N \in 0..(N - 1) /\ ~((m - j + N) + j < N)
          /\ (m - j + N) + j - N = m
      BY <2>3
    <3>2. QED
      BY <1>2, <2>1, <3>1
  <2>4. QED
    BY <2>2, <2>3
<1>8. ASSUME NEW i \in 0..(N - 1), NEW m \in 0..(N - 1), g[i] = g[m]
      PROVE  i = m
  <2> DEFINE at(x) == IF x + j < N THEN x + j ELSE x + j - N
  <2>1. /\ at(i) \in 0..(N - 1) /\ g[i] = f[at(i)]
        /\ at(m) \in 0..(N - 1) /\ g[m] = f[at(m)]
    BY <1>2
  <2>2. at(i) = at(m)
    <3> HIDE DEF at
    <3>1. QED
      BY <1>1, <1>8, <2>1
  <2>3. QED
    BY <2>2
<1>9. QED
  BY <1>3, <1>4, <1>5, <1>6, <1>7, <1>8 DEF Loop, g

\* The ring can be listed from the node that has the CPU on.
LEMMA LoopFromCurrent ==
    ASSUME NEW k, Shape(k)
    PROVE  /\ k.counter \in Nat /\ k.counter >= 2
           /\ \E f : Loop(k, k.current, f)
<1>1. PICK r : Ring(k, r)
  BY DEF Shape
<1>2. k.counter \in Nat /\ k.counter >= 2 /\ k.current \in DOMAIN k.node
  BY <1>1 DEF Shape, IsKernel, Ring
<1>3. Loop(k, k.first, r)
  BY <1>1 DEF Ring, Loop
<1>4. PICK j \in 0..(k.counter - 1) : r[j] = k.current
  BY <1>1, <1>2 DEF Ring
<1>5. QED
  BY <1>2, <1>3, <1>4, LoopTurns

\* Hops follows next.
LEMMA HopsFollow ==
    ASSUME NEW k, Shape(k), NEW n \in DOMAIN k.node
    PROVE  /\ Hops(k, n)[0] = n
           /\ \A i \in 1..k.counter :
                 Hops(k, n)[i] = k.node[Hops(k, n)[i - 1]].next
<1>1. PICK r : Ring(k, r)
  BY DEF Shape
<1>2. PICK j \in 0..(k.counter - 1) : r[j] = n
  BY <1>1 DEF Ring
<1> DEFINE h == Hops(k, r[j])
<1>3. k.counter \in Nat
  BY DEF Shape, IsKernel
<1>4. h = [i \in 0..k.counter |-> IF i = 0 THEN r[j] ELSE k.node[h[i - 1]].next]
  <2>1. IsKernel(k) /\ Homes(k)
    BY DEF Shape
  <2>2. h = Around(k, r, j)
    BY <1>1, <2>1, HopsAround
  <2>3. Around(k, r, j)
          = [i \in 0..k.counter |->
               IF i = 0 THEN r[j] ELSE k.node[Around(k, r, j)[i - 1]].next]
    BY <1>1, <2>1, AroundFollows
  <2> HIDE DEF h
  <2>4. QED
    BY <2>2, <2>3
<1> HIDE DEF h
<1>5. /\ h[0] = r[j]
      /\ \A i \in 1..k.counter : h[i] = k.node[h[i - 1]].next
  BY <1>3, <1>4
<1>6. QED
  BY <1>2, <1>5 DEF h

\* The queue is the processes of any list of the ring from current on.
LEMMA QueueIs ==
    ASSUME NEW k, Shape(k), NEW f, Loop(k, k.current, f)
    PROVE  Queue(k) = [i \in 1..k.counter |-> PidAt(k, f[i - 1])]
<1> DEFINE N == k.counter
           h == Hops(k, k.current)
           T == {i \in 0..(N - 1) : h[i] # f[i]}
<1>1. N \in Nat /\ k.current \in DOMAIN k.node
  BY DEF Shape, IsKernel
<1>2. h[0] = k.current /\ \A i \in 1..N : h[i] = k.node[h[i - 1]].next
  BY <1>1, HopsFollow
<1>3. f[0] = k.current /\ \A i \in 0..(N - 2) : k.node[f[i]].next = f[i + 1]
  BY Zenon DEF Loop
<1> HIDE DEF h
<1>4. T = {}
  <2> SUFFICES ASSUME T # {} PROVE FALSE
    OBVIOUS
  <2>1. T \in SUBSET Nat
    BY <1>1
  <2>2. PICK i \in T : \A y \in T : i <= y
    BY <2>1, LeastNat
  <2>3. i # 0
    BY <1>2, <1>3
  <2>4. /\ i - 1 \in 0..(N - 2) /\ i - 1 \in 0..(N - 1) /\ i \in 1..N
        /\ ~(i <= i - 1) /\ (i - 1) + 1 = i
    BY <1>1, <2>3
  <2>5. h[i - 1] = f[i - 1]
    BY <2>2, <2>4
  <2>6. QED
    BY <1>2, <1>3, <2>4, <2>5
<1>5. \A i \in 1..N : h[i - 1] = f[i - 1]
  BY <1>1, <1>4
<1>6. QED
  BY <1>5 DEF Queue, h

\* A rotated queue, place by place.
LEMMA RotatePlaces ==
    ASSUME NEW S, NEW s \in Seq(S), NEW j \in 0..(Len(s) - 1)
    PROVE  /\ Abstract!Rotate(s, j) \in Seq(S)
           /\ Len(Abstract!Rotate(s, j)) = Len(s)
           /\ \A i \in 1..Len(s) : Abstract!Rotate(s, j)[i]
                = IF i + j <= Len(s) THEN s[i + j] ELSE s[i + j - Len(s)]
<1> DEFINE N == Len(s)
           a == SubSeq(s, j + 1, N)
           b == SubSeq(s, 1, j)
<1>1. N \in Nat /\ j \in Nat /\ j < N /\ \A i \in 1..N : s[i] \in S
  BY LenProperties
<1>2. /\ a \in Seq(S) /\ Len(a) = N - j
      /\ \A i \in 1..(N - j) : a[i] = s[j + i]
  <2>1. j + 1 \in Int /\ N \in Int /\ \A i \in (j + 1)..N : s[i] \in S
    BY <1>1
  <2>2. /\ a \in Seq(S) /\ Len(a) = IF j + 1 <= N THEN N - (j + 1) + 1 ELSE 0
        /\ \A i \in 1..(N - (j + 1) + 1) : a[i] = s[j + 1 + i - 1]
    BY <2>1, SubSeqProperties
  <2> HIDE DEF a
  <2>3. N - (j + 1) + 1 = N - j /\ \A i \in 1..(N - j) : j + 1 + i - 1 = j + i
    BY <1>1
  <2>4. QED
    BY <1>1, <2>2, <2>3
<1>3. /\ b \in Seq(S) /\ Len(b) = j
      /\ \A i \in 1..j : b[i] = s[i]
  <2>1. 1 \in Int /\ j \in Int /\ \A i \in 1..j : s[i] \in S
    BY <1>1
  <2>2. /\ b \in Seq(S) /\ Len(b) = IF 1 <= j THEN j - 1 + 1 ELSE 0
        /\ \A i \in 1..(j - 1 + 1) : b[i] = s[1 + i - 1]
    BY <2>1, SubSeqProperties
  <2> HIDE DEF b
  <2>3. j - 1 + 1 = j /\ \A i \in 1..j : 1 + i - 1 = i
    BY <1>1
  <2>4. QED
    BY <1>1, <2>2, <2>3
<1>4. Abstract!Rotate(s, j) = a \o b
  BY DEF Abstract!Rotate
<1> HIDE DEF a, b
<1>5. /\ a \o b \in Seq(S) /\ Len(a \o b) = N
      /\ \A i \in 1..N : (a \o b)[i] = IF i <= N - j THEN a[i] ELSE b[i - (N - j)]
  <2>1. /\ a \o b \in Seq(S) /\ Len(a \o b) = Len(a) + Len(b)
        /\ \A i \in 1..(Len(a) + Len(b)) :
              (a \o b)[i] = IF i <= Len(a) THEN a[i] ELSE b[i - Len(a)]
    BY <1>2, <1>3, ConcatProperties
  <2>2. QED
    BY <1>1, <1>2, <1>3, <2>1
<1>6. ASSUME NEW i \in 1..N
      PROVE  (a \o b)[i] = IF i + j <= N THEN s[i + j] ELSE s[i + j - N]
  <2>1. CASE i + j <= N
    <3>1. i <= N - j /\ i \in 1..(N - j) /\ j + i = i + j
      BY <1>1, <2>1
    <3>2. QED
      BY <1>2, <1>5, <2>1, <3>1
  <2>2. CASE ~(i + j <= N)
    <3>1. ~(i <= N - j) /\ i - (N - j) \in 1..j /\ i - (N - j) = i + j - N
      BY <1>1, <2>2
    <3>2. QED
      BY <1>3, <1>5, <2>2, <3>1
  <2>3. QED
    BY <2>1, <2>2
<1>7. QED
  BY <1>4, <1>5, <1>6

\* The processes of the nodes that f lists.
Seen(k, f) == [i \in 1..k.counter |-> PidAt(k, f[i - 1])]

\* They are a sequence of pids.
LEMMA SeenIsSeq ==
    ASSUME NEW k, Shape(k), NEW c, NEW f, Loop(k, c, f)
    PROVE  /\ Seen(k, f) \in Seq(Pids) /\ Len(Seen(k, f)) = k.counter
           /\ \A i \in 1..k.counter : Seen(k, f)[i] = PidAt(k, f[i - 1])
<1>1. k.counter \in Nat /\ k.node \in [DOMAIN k.node -> NodeRec]
  BY DEF Shape, IsKernel
<1>2. f \in [0..(k.counter - 1) -> DOMAIN k.node]
  BY DEF Loop
<1>3. \A i \in 1..k.counter : i - 1 \in 0..(k.counter - 1)
  BY <1>1
<1>4. \A i \in 1..k.counter : PidAt(k, f[i - 1]) \in Pids
  BY <1>1, <1>2, <1>3 DEF PidAt, NodeRec
<1>5. Seen(k, f) \in [1..k.counter -> Pids]
  BY <1>4 DEF Seen
<1>6. \A i \in 1..k.counter : Seen(k, f)[i] = PidAt(k, f[i - 1])
  BY DEF Seen
<1>7. \A s \in [1..k.counter -> Pids] : s \in Seq(Pids) /\ Len(s) = k.counter
  BY <1>1
<1>8. QED
  BY <1>5, <1>6, <1>7

\* Wherever a list of the ring begins, the queue is that list rotated.
LEMMA QueueRotates ==
    ASSUME NEW k, Shape(k), NEW c, NEW f, Loop(k, c, f)
    PROVE  \E j \in 0..(k.counter - 1) :
              /\ Queue(k) = Abstract!Rotate(Seen(k, f), j)
              /\ j = 0 => Queue(k) = Seen(k, f)
              /\ k.current = c => Queue(k) = Seen(k, f)
<1> DEFINE N == k.counter
           s == Seen(k, f)
<1>1. N \in Nat /\ N >= 2 /\ k.current \in DOMAIN k.node
  BY LoopFromCurrent DEF Shape, IsKernel
<1>2. PICK j \in 0..(N - 1) : f[j] = k.current
  BY <1>1 DEF Loop
<1> DEFINE g == Turned(N, f, j)
<1>3. Loop(k, k.current, g)
  BY <1>1, <1>2, LoopTurns
<1>4. Queue(k) = Seen(k, g)
  <2> HIDE DEF g
  <2>1. QED
    BY <1>3, QueueIs DEF Seen
<1>5. /\ s \in Seq(Pids) /\ Len(s) = N
      /\ \A i \in 1..N : s[i] = PidAt(k, f[i - 1])
  BY SeenIsSeq
<1>6. /\ Seen(k, g) \in Seq(Pids) /\ Len(Seen(k, g)) = N
      /\ \A i \in 1..N : Seen(k, g)[i] = PidAt(k, g[i - 1])
  <2> HIDE DEF g
  <2>1. QED
    BY <1>3, SeenIsSeq
<1> DEFINE q == Abstract!Rotate(s, j)
<1>7. /\ q \in Seq(Pids) /\ Len(q) = N
      /\ \A i \in 1..N : q[i] = IF i + j <= N THEN s[i + j] ELSE s[i + j - N]
  <2> HIDE DEF s
  <2>1. QED
    BY <1>5, RotatePlaces
<1>8. ASSUME NEW i \in 1..N PROVE Seen(k, g)[i] = q[i]
  <2> HIDE DEF s, q
  <2>1. i - 1 \in 0..(N - 1)
    BY <1>1
  <2>2. g[i - 1] = IF i - 1 + j < N THEN f[i - 1 + j] ELSE f[i - 1 + j - N]
    BY <2>1 DEF Turned
  <2> HIDE DEF g
  <2>3. CASE i + j <= N
    <3>1. i - 1 + j < N /\ i + j \in 1..N /\ (i + j) - 1 = i - 1 + j
      BY <1>1, <2>3
    <3>2. QED
      BY <1>5, <1>6, <1>7, <2>2, <2>3, <3>1
  <2>4. CASE ~(i + j <= N)
    <3>1. /\ ~(i - 1 + j < N) /\ i + j - N \in 1..N
          /\ (i + j - N) - 1 = i - 1 + j - N
      BY <1>1, <2>4
    <3>2. QED
      BY <1>5, <1>6, <1>7, <2>2, <2>4, <3>1
  <2>5. QED
    BY <2>3, <2>4
<1>9. Seen(k, g) = q
  <2> HIDE DEF s, q, g
  <2>1. QED
    BY <1>6, <1>7, <1>8, SeqEqual
<1>10. k.current = c => Queue(k) = s
  BY QueueIs DEF Seen
<1>11. j = 0 => k.current = c
  BY <1>2 DEF Loop
<1>12. QED
  BY <1>4, <1>9, <1>10, <1>11

-----------------------------------------------------------------------------
\* k is a record whose nodes are records.
Plain(k) ==
    /\ k = [node |-> k.node, proc |-> k.proc, current |-> k.current,
            first |-> k.first, foreground |-> k.foreground,
            background |-> k.background, counter |-> k.counter,
            pidc |-> k.pidc]
    /\ k.node = [n \in DOMAIN k.node |-> Node(k.node[n].proc, k.node[n].next,
                                              k.node[n].quantums)]

\* The ring of l is that of k.
Linked(k, l) ==
    /\ Plain(l) /\ l.counter = k.counter
    /\ DOMAIN l.node = DOMAIN k.node
    /\ \A n \in DOMAIN k.node : /\ l.node[n].proc = k.node[n].proc
                                /\ l.node[n].next = k.node[n].next

\* And the same process has the CPU.
Still(k, l) == Linked(k, l) /\ l.current = k.current

\* The process that had the CPU in k has left.
Left(k, l) ==
    LET n == k.current
        x == k.node[n].next
    IN  /\ l.counter = k.counter - 1
        /\ DOMAIN l.node = DOMAIN k.node \ {x}
        /\ l.node[n].proc = k.node[x].proc /\ l.node[n].next = k.node[x].next
        /\ \A m \in DOMAIN l.node : m # n =>
              l.node[m].proc = k.node[m].proc /\ l.node[m].next = k.node[m].next

\* A kernel is such a record.
LEMMA KernelIsPlain == ASSUME NEW k, Shape(k) PROVE Plain(k) /\ Still(k, k)
<1>1. k.node \in [DOMAIN k.node -> NodeRec]
  BY DEF Shape, IsKernel
<1>2. \A n \in DOMAIN k.node :
         k.node[n] = Node(k.node[n].proc, k.node[n].next, k.node[n].quantums)
  BY <1>1 DEF NodeRec, Node
<1>3. k.node = [n \in DOMAIN k.node |-> Node(k.node[n].proc, k.node[n].next,
                                             k.node[n].quantums)]
  BY <1>1, <1>2
<1>4. Plain(k)
  BY <1>3 DEF Shape, IsKernel, Plain
<1>5. QED
  BY <1>4 DEF Still, Linked

\* Changes of processes leave the ring and who has the CPU.
LEMMA ProcessesChange ==
    ASSUME NEW k, NEW h, Still(k, h), NEW procs
    PROVE  Still(k, [h EXCEPT !.proc = procs])
<1>1. h = [node |-> h.node, proc |-> h.proc, current |-> h.current,
           first |-> h.first, foreground |-> h.foreground,
           background |-> h.background, counter |-> h.counter,
           pidc |-> h.pidc]
  BY DEF Still, Linked, Plain
<1>2. [h EXCEPT !.proc = procs] =
        [node |-> h.node, proc |-> procs, current |-> h.current,
         first |-> h.first, foreground |-> h.foreground,
         background |-> h.background, counter |-> h.counter, pidc |-> h.pidc]
  BY <1>1
<1>3. QED
  BY <1>2 DEF Still, Linked, Plain

\* So do changes of the pointers to the foreground.
LEMMA ForegroundChanges ==
    ASSUME NEW k, NEW h, Still(k, h), NEW f, NEW b
    PROVE  Still(k, [h EXCEPT !.foreground = f, !.background = b])
<1> DEFINE g == [h EXCEPT !.foreground = f]
<1>1. h = [node |-> h.node, proc |-> h.proc, current |-> h.current,
           first |-> h.first, foreground |-> h.foreground,
           background |-> h.background, counter |-> h.counter,
           pidc |-> h.pidc]
  BY DEF Still, Linked, Plain
<1>2. g = [node |-> h.node, proc |-> h.proc, current |-> h.current,
           first |-> h.first, foreground |-> f, background |-> h.background,
           counter |-> h.counter, pidc |-> h.pidc]
  BY <1>1
<1>3. [h EXCEPT !.foreground = f, !.background = b] = [g EXCEPT !.background = b]
  BY <1>1
<1> HIDE DEF g
<1>4. [g EXCEPT !.background = b] =
        [node |-> h.node, proc |-> h.proc, current |-> h.current,
         first |-> h.first, foreground |-> f, background |-> b,
         counter |-> h.counter, pidc |-> h.pidc]
  BY <1>2
<1>5. QED
  BY <1>3, <1>4 DEF Still, Linked, Plain

\* Changes of state do.
LEMMA StateChanges ==
    ASSUME NEW k, NEW h, Still(k, h), NEW p, NEW s
    PROVE  Still(k, SetState(h, p, s)) /\ Still(k, ReadyProcess(h, p))
<1>1. ASSUME NEW t PROVE Still(k, SetState(h, p, t))
  <2> DEFINE procs == [h.proc EXCEPT ![p] = InState(h.proc[p], t)]
  <2>1. SetState(h, p, t) = [h EXCEPT !.proc = procs]
    BY DEF SetState
  <2> HIDE DEF procs
  <2>2. QED
    BY <2>1, ProcessesChange
<1>2. QED
  BY <1>1 DEF ReadyProcess

\* So do kill_foreground_proc's own changes.
LEMMA ForegroundStays ==
    ASSUME NEW k, NEW h, Still(k, h)
    PROVE  Still(k, ReadyForeground(h)) /\ Still(k, ReturnForeground(h))
<1>1. ASSUME NEW g, Still(k, g) PROVE Still(k, ReadyForeground(g))
  BY <1>1, StateChanges DEF ReadyForeground
<1>2. Still(k, [h EXCEPT !.foreground = h.background, !.background = NoNode])
  BY ForegroundChanges
<1>3. QED
  BY <1>1, <1>2 DEF ReturnForeground

\* A child less.
LEMMA ChildGoneStays ==
    ASSUME NEW k, NEW h, Still(k, h), NEW p PROVE Still(k, ChildGone(h, p))
<1> DEFINE left == h.proc[p].children - 1
           procs == [h.proc EXCEPT ![p].children = left]
           k1 == [h EXCEPT !.proc = procs]
<1> HIDE DEF procs
<1>1. Still(k, k1)
  BY ProcessesChange
<1> HIDE DEF k1
<1>2. Still(k, ReadyProcess(k1, p))
  BY <1>1, StateChanges
<1>3. ChildGone(h, p) = IF left = 0 THEN ReadyProcess(k1, p) ELSE k1
  BY DEF ChildGone, k1, procs
<1>4. QED
  BY <1>1, <1>2, <1>3

\* A tick more.
LEMMA CountStays ==
    ASSUME NEW k, NEW h, Still(k, h) PROVE Still(k, Count(h))
<1> DEFINE nodes == [h.node EXCEPT ![h.current].quantums = @ + 1]
           g == [h EXCEPT !.node = nodes]
<1>1. h = [node |-> h.node, proc |-> h.proc, current |-> h.current,
           first |-> h.first, foreground |-> h.foreground,
           background |-> h.background, counter |-> h.counter,
           pidc |-> h.pidc]
  BY DEF Still, Linked, Plain
<1>2. Count(h) = IF StateAt(h, h.current) = "RUNNING" THEN g ELSE h
  BY DEF Count
<1>3. /\ DOMAIN nodes = DOMAIN h.node
      /\ \A n \in DOMAIN h.node :
            nodes[n] = Node(h.node[n].proc, h.node[n].next, nodes[n].quantums)
  BY DEF Still, Linked, Plain, Node
<1>4. nodes = [n \in DOMAIN nodes |-> nodes[n]]
  OBVIOUS
<1> HIDE DEF nodes
<1>5. g = [node |-> nodes, proc |-> h.proc, current |-> h.current,
           first |-> h.first, foreground |-> h.foreground,
           background |-> h.background, counter |-> h.counter,
           pidc |-> h.pidc]
  BY <1>1
<1> HIDE DEF g
<1>6. \A n \in DOMAIN h.node : nodes[n].proc = h.node[n].proc
                              /\ nodes[n].next = h.node[n].next
  <2> SUFFICES ASSUME NEW n \in DOMAIN h.node
               PROVE  nodes[n].proc = h.node[n].proc /\ nodes[n].next = h.node[n].next
    OBVIOUS
  <2>1. PICK q : nodes[n] = Node(h.node[n].proc, h.node[n].next, q)
    BY <1>3
  <2>2. QED
    BY <2>1 DEF Node
<1>7. Plain(g)
  BY <1>3, <1>4, <1>5, <1>6 DEF Plain
<1>8. Still(k, g)
  BY <1>3, <1>5, <1>6, <1>7 DEF Still, Linked
<1>9. QED
  BY <1>2, <1>8

\* A switch leaves the ring.
LEMMA DispatchLinks ==
    ASSUME NEW h, Plain(h), NEW n PROVE Linked(h, Dispatch(h, n))
<1> DEFINE m == FindNextReady(h, n)
           g == SetState(h, PidAt(h, m), "RUNNING")
           q == h.proc[PidAt(h, m)].priority
           nodes == [g.node EXCEPT ![m].quantums = q]
           l == [g EXCEPT !.current = m]
<1>1. Dispatch(h, n) = IF m = NoNode THEN [h EXCEPT !.current = NoNode]
                       ELSE [g EXCEPT !.current = m, !.node = nodes]
  BY DEF Dispatch
<1>2. Still(h, g)
  <2>1. Still(h, h)
    BY DEF Still, Linked
  <2>2. QED
    BY <2>1, StateChanges
<1>3. Linked(h, [h EXCEPT !.current = NoNode])
  <2>1. [h EXCEPT !.current = NoNode] =
          [node |-> h.node, proc |-> h.proc, current |-> NoNode,
           first |-> h.first, foreground |-> h.foreground,
           background |-> h.background, counter |-> h.counter, pidc |-> h.pidc]
    BY DEF Plain
  <2>2. QED
    BY <2>1 DEF Linked, Plain
<1> HIDE DEF m, g, q
<1>4. /\ DOMAIN nodes = DOMAIN g.node
      /\ \A i \in DOMAIN g.node :
            nodes[i] = Node(g.node[i].proc, g.node[i].next, nodes[i].quantums)
  BY <1>2 DEF Still, Linked, Plain, Node
<1>5. nodes = [i \in DOMAIN nodes |-> nodes[i]]
  OBVIOUS
<1>6. [g EXCEPT !.current = m, !.node = nodes] = [l EXCEPT !.node = nodes]
  BY <1>2 DEF Still, Linked, Plain
<1> HIDE DEF nodes
<1>7. l = [node |-> g.node, proc |-> g.proc, current |-> m,
           first |-> g.first, foreground |-> g.foreground,
           background |-> g.background, counter |-> g.counter, pidc |-> g.pidc]
  BY <1>2 DEF Still, Linked, Plain
<1> HIDE DEF l
<1> DEFINE d == [l EXCEPT !.node = nodes]
<1>8. d = [node |-> nodes, proc |-> g.proc, current |-> m,
           first |-> g.first, foreground |-> g.foreground,
           background |-> g.background, counter |-> g.counter, pidc |-> g.pidc]
  BY <1>7
<1> HIDE DEF d
<1>9. \A i \in DOMAIN g.node : nodes[i].proc = g.node[i].proc
                              /\ nodes[i].next = g.node[i].next
  <2> SUFFICES ASSUME NEW i \in DOMAIN g.node
               PROVE  nodes[i].proc = g.node[i].proc /\ nodes[i].next = g.node[i].next
    OBVIOUS
  <2>1. PICK r : nodes[i] = Node(g.node[i].proc, g.node[i].next, r)
    BY <1>4
  <2>2. QED
    BY <2>1 DEF Node
<1>10. Plain(d)
  BY <1>4, <1>5, <1>8, <1>9 DEF Plain
<1>11. Linked(h, d)
  BY <1>2, <1>4, <1>8, <1>9, <1>10 DEF Still, Linked
<1>12. QED
  BY <1>1, <1>3, <1>6, <1>11 DEF d

\* destroy_node takes the process that has the CPU off the ring.
LEMMA TakeOverLeaves ==
    ASSUME NEW k, Shape(k), NEW h, Still(k, h),
           NEW l, l = TakeOver(h, k.current)
    PROVE  Plain(l) /\ l.current = k.current /\ Left(k, l)
<1> DEFINE n == k.current
           x == h.node[n].next
           b == [h.node[x] EXCEPT !.quantums = h.node[n].quantums]
           nodes == [m \in DOMAIN h.node \ {x} |-> IF m = n THEN b ELSE h.node[m]]
           procs == Restrict(h.proc, DOMAIN h.proc \ {PidAt(h, n)})
           first == IF PidAt(h, x) = Idle THEN n ELSE h.first
<1>1. /\ n \in DOMAIN k.node /\ k.node[n].next \in DOMAIN k.node
      /\ k.node[n].next # n
  <2>1. n \in DOMAIN k.node
    BY DEF Shape, IsKernel
  <2>2. QED
    BY <2>1, NextIsOther
<1>2. x = k.node[n].next /\ x \in DOMAIN h.node /\ x # n
  BY <1>1 DEF Still, Linked
<1>3. l = [h EXCEPT !.counter = h.counter - 1, !.proc = procs, !.node = nodes,
                    !.first = first]
  BY DEF TakeOver
<1>4. b = Node(h.node[x].proc, h.node[x].next, h.node[n].quantums)
  BY <1>2 DEF Still, Linked, Plain, Node
<1> HIDE DEF b, procs, first
<1>5. /\ DOMAIN nodes = DOMAIN h.node \ {x} /\ nodes[n] = b
      /\ \A m \in DOMAIN nodes : m # n => nodes[m] = h.node[m]
      /\ nodes = [m \in DOMAIN nodes |-> nodes[m]]
  BY <1>1, <1>2 DEF Still, Linked
<1> HIDE DEF nodes
<1>6. l = [node |-> nodes, proc |-> procs, current |-> h.current,
           first |-> first, foreground |-> h.foreground,
           background |-> h.background, counter |-> h.counter - 1,
           pidc |-> h.pidc]
  BY <1>3 DEF Still, Linked, Plain
<1>7. b.proc = h.node[x].proc /\ b.next = h.node[x].next
      /\ b.quantums = h.node[n].quantums
  BY <1>4 DEF Node
<1> HIDE DEF x
<1>8. ASSUME NEW m \in DOMAIN nodes
      PROVE  nodes[m] = Node(nodes[m].proc, nodes[m].next, nodes[m].quantums)
  <2>1. CASE m = n
    BY <1>4, <1>5, <1>7, <2>1
  <2>2. CASE m # n
    <3>1. nodes[m] = h.node[m] /\ m \in DOMAIN h.node
      BY <1>5, <2>2
    <3>2. QED
      BY <3>1 DEF Still, Linked, Plain
  <2>3. QED
    BY <2>1, <2>2
<1>9. nodes = [m \in DOMAIN nodes |-> Node(nodes[m].proc, nodes[m].next,
                                           nodes[m].quantums)]
  BY <1>5, <1>8
<1>10. Plain(l)
  BY <1>6, <1>9 DEF Plain
<1>11. Left(k, l)
  <2>1. /\ DOMAIN h.node = DOMAIN k.node /\ h.counter = k.counter
        /\ \A m \in DOMAIN k.node : /\ h.node[m].proc = k.node[m].proc
                                    /\ h.node[m].next = k.node[m].next
    BY DEF Still, Linked
  <2>2. l.node = nodes /\ l.counter = k.counter - 1
    BY <1>6, <2>1
  <2>3. DOMAIN l.node = DOMAIN k.node \ {x}
    BY <1>5, <2>1, <2>2
  <2>4. l.node[n].proc = k.node[x].proc /\ l.node[n].next = k.node[x].next
    BY <1>2, <1>5, <1>7, <2>1, <2>2
  <2>5. ASSUME NEW m \in DOMAIN l.node, m # n
        PROVE  l.node[m].proc = k.node[m].proc /\ l.node[m].next = k.node[m].next
    BY <1>5, <2>1, <2>2, <2>3, <2>5
  <2>6. QED
    BY <1>2, <2>2, <2>3, <2>4, <2>5, Zenon DEF Left
<1>12. QED
  BY <1>6, <1>10, <1>11 DEF Still

\* When the parent is gone, nothing is destroyed.
LEMMA DestroyLeaves ==
    ASSUME NEW k, Shape(k), NEW h, Still(k, h),
           NEW l, l = DestroyNode(h, k.current)
    PROVE  Plain(l) /\ l.current = k.current /\ (Still(k, l) \/ Left(k, l))
<1> DEFINE parent == FindNode(h, h.proc[CurrentPid(h)].ppid)
           g == ChildGone(h, PidAt(h, parent))
<1>1. Plain(h) /\ h.current = k.current
  BY DEF Still, Linked
<1>2. l = IF parent = NoNode THEN h ELSE TakeOver(g, k.current)
  BY DEF DestroyNode
<1>3. Still(k, g)
  BY ChildGoneStays
<1> HIDE DEF parent, g
<1>4. CASE parent = NoNode
  BY <1>1, <1>2, <1>4
<1>5. CASE parent # NoNode
  BY <1>2, <1>3, <1>5, TakeOverLeaves
<1>6. QED
  BY <1>4, <1>5

\* What the ring of a step became of.
Moved(k, l) == Linked(k, l) \/ Left(k, l)

\* Steps that keep the ring may follow.
LEMMA LinkedOn ==
    ASSUME NEW k, Shape(k), NEW h, NEW l, Linked(h, l),
           Still(k, h) \/ Left(k, h)
    PROVE  Moved(k, l)
<1>1. CASE Still(k, h)
  BY <1>1 DEF Moved, Still, Linked
<1>2. CASE Left(k, h)
  <2>1. k.current \in DOMAIN k.node
    BY DEF Shape, IsKernel
  <2>2. k.node[k.current].next # k.current
    BY <2>1, NextIsOther
  <2>3. k.current \in DOMAIN h.node
    BY <1>2, <2>1, <2>2 DEF Left
  <2>4. Left(k, l)
    BY <1>2, <2>3 DEF Left, Linked
  <2>5. QED
    BY <2>4 DEF Moved
<1>3. QED
  BY <1>1, <1>2

\* scheduler() keeps the ring, or takes the process that ends off it.
LEMMA ScheduleMoves ==
    ASSUME NEW k, Shape(k), NEW h, Still(k, h), NEW yield,
           NEW l, l = Schedule(h, yield)
    PROVE  Moved(k, l)
<1>1. Plain(h) /\ h.current = k.current
  BY DEF Still, Linked
<1>2. ASSUME NEW g, Still(k, g), NEW n PROVE Moved(k, Dispatch(g, n))
  <2>1. Linked(g, Dispatch(g, n))
    BY <1>2, DispatchLinks DEF Still, Linked
  <2>2. QED
    BY <1>2, <2>1, LinkedOn
<1>3. ASSUME NEW g, Still(k, g) PROVE Moved(k, g)
  BY <1>3 DEF Moved, Still
<1>4. Moved(k, Reap(h))
  <2> DEFINE inFront == CurrentPid(h) = PidAt(h, h.foreground)
             gone == IF inFront /\ h.background = NoNode THEN h
                     ELSE IF inFront
                          THEN DestroyNode(ReturnForeground(h), k.current)
                          ELSE DestroyNode(h, k.current)
  <2>1. Reap(h) = Dispatch(gone, gone.current)
    BY <1>1 DEF Reap
  <2>2. Still(k, ReturnForeground(h))
    BY ForegroundStays
  <2>3. ASSUME NEW g, Still(k, g), NEW d, d = DestroyNode(g, k.current)
        PROVE  Plain(d) /\ (Still(k, d) \/ Left(k, d))
    BY <2>3, DestroyLeaves
  <2>4. Plain(gone) /\ (Still(k, gone) \/ Left(k, gone))
    BY <1>1, <2>2, <2>3
  <2> HIDE DEF gone
  <2>5. Linked(gone, Dispatch(gone, gone.current))
    BY <2>4, DispatchLinks
  <2>6. QED
    BY <2>1, <2>4, <2>5, LinkedOn
<1> DEFINE k1 == Count(h)
           state == StateAt(h, h.current)
           next == h.node[h.current].next
           ready == SetState(k1, CurrentPid(h), "READY")
<1>5. Still(k, k1)
  BY CountStays
<1>6. Still(k, ready)
  BY <1>5, StateChanges
<1>7. \/ l = h \/ l = Reap(h) \/ l = Dispatch(k1, next)
      \/ l = Dispatch(ready, next) \/ l = k1
  BY DEF Schedule
<1> HIDE DEF k1, state, next, ready
<1>8. QED
  BY <1>2, <1>3, <1>4, <1>5, <1>6, <1>7

-----------------------------------------------------------------------------
(***************************************************************************)
(* The queue after a step of RunQueue.                                     *)
(***************************************************************************)
Advances(q, r) ==
    \/ r = q
    \/ \E p \in Pids : /\ \A i \in 1..Len(q) : q[i] # p
                       /\ r = <<Head(q), p>> \o Tail(q)
    \/ \E i \in 1..(Len(q) - 1) : r = Abstract!Rotate(q, i)
    \/ Len(q) > 1 /\ \E i \in 0..(Len(q) - 2) : r = Abstract!Rotate(Tail(q), i)

\* A switch rotates the queue.
LEMMA LinkedRotates ==
    ASSUME NEW k, NEW l, Shape(k), Shape(l), Linked(k, l)
    PROVE  Advances(Queue(k), Queue(l))
<1>1. PICK f : Loop(k, k.current, f)
  BY LoopFromCurrent
<1>2. k.counter \in Nat /\ k.counter >= 2 /\ l.counter = k.counter
  BY LoopFromCurrent DEF Linked
<1>3. \A i \in 0..(k.counter - 1) : f[i] \in DOMAIN k.node
  BY <1>1 DEF Loop
<1>4. Loop(l, k.current, f)
  <2>1. \A i \in 0..(k.counter - 2) : i \in 0..(k.counter - 1)
    BY <1>2
  <2>2. k.counter - 1 \in 0..(k.counter - 1)
    BY <1>2
  <2>3. QED
    BY <1>1, <1>2, <1>3, <2>1, <2>2 DEF Loop, Linked
<1>5. Queue(k) = Seen(k, f) /\ Len(Queue(k)) = k.counter
  <2>1. Queue(k) = Seen(k, f)
    BY <1>1, QueueIs DEF Seen
  <2>2. QED
    BY <1>1, <2>1, SeenIsSeq
<1>6. Seen(l, f) = Seen(k, f)
  <2>1. \A i \in 1..k.counter : i - 1 \in 0..(k.counter - 1)
    BY <1>2
  <2>2. \A i \in 1..k.counter : PidAt(l, f[i - 1]) = PidAt(k, f[i - 1])
    BY <1>3, <2>1 DEF Linked, PidAt
  <2>3. QED
    BY <1>2, <2>2 DEF Seen
<1>7. PICK j \in 0..(l.counter - 1) :
         /\ Queue(l) = Abstract!Rotate(Seen(l, f), j)
         /\ j = 0 => Queue(l) = Seen(l, f)
  BY <1>4, QueueRotates
<1>8. CASE j = 0
  BY <1>5, <1>6, <1>7, <1>8 DEF Advances
<1>9. CASE j # 0
  <2>1. j \in 1..(Len(Queue(k)) - 1)
    BY <1>2, <1>5, <1>9
  <2>2. QED
    BY <1>5, <1>6, <1>7, <2>1 DEF Advances
<1>10. QED
  BY <1>8, <1>9

\* The nodes in the order of the ring when the one at place 1 is freed.
LEMMA LoopWithout ==
    ASSUME NEW k, NEW l, NEW f, Loop(k, k.current, f), Left(k, l),
           k.counter \in Nat, k.counter >= 3,
           NEW g, g = [i \in 0..(k.counter - 2) |->
                         IF i = 0 THEN f[0] ELSE f[i + 1]]
    PROVE  Loop(l, k.current, g)
<1> DEFINE N == k.counter
<1>1. /\ f \in [0..(N - 1) -> DOMAIN k.node] /\ f[0] = k.current
      /\ \A i \in 0..(N - 2) : k.node[f[i]].next = f[i + 1]
      /\ k.node[f[N - 1]].next = f[0]
      /\ \A n \in DOMAIN k.node : \E i \in 0..(N - 1) : f[i] = n
      /\ \A i, m \in 0..(N - 1) : f[i] = f[m] => i = m
  BY DEF Loop
<1>2. 0 \in 0..(N - 1) /\ 1 \in 0..(N - 1) /\ 0 \in 0..(N - 2) /\ 1 \in 0..(N - 2)
  OBVIOUS
<1>3. k.node[k.current].next = f[1] /\ f[1] # f[0] /\ k.node[f[1]].next = f[2]
  BY <1>1, <1>2
<1>4. /\ l.counter = N - 1 /\ DOMAIN l.node = DOMAIN k.node \ {f[1]}
      /\ l.node[f[0]].next = f[2]
      /\ \A m \in DOMAIN l.node : m # f[0] => l.node[m].next = k.node[m].next
  BY <1>1, <1>3 DEF Left
<1>5. \A i \in 1..(N - 2) : /\ g[i] = f[i + 1] /\ i + 1 \in 0..(N - 1)
                            /\ f[i + 1] \in DOMAIN l.node /\ f[i + 1] # f[0]
  <2> SUFFICES ASSUME NEW i \in 1..(N - 2)
               PROVE  /\ g[i] = f[i + 1] /\ i + 1 \in 0..(N - 1)
                      /\ f[i + 1] \in DOMAIN l.node /\ f[i + 1] # f[0]
    OBVIOUS
  <2>1. i + 1 \in 0..(N - 1) /\ i + 1 # 0 /\ i + 1 # 1 /\ i # 0
    OBVIOUS
  <2>2. f[i + 1] # f[0] /\ f[i + 1] # f[1] /\ f[i + 1] \in DOMAIN k.node
    BY <1>1, <1>2, <2>1
  <2>3. QED
    BY <1>4, <2>1, <2>2
<1>6. g[0] = f[0] /\ f[0] \in DOMAIN l.node
  BY <1>1, <1>2, <1>3, <1>4
<1>7. g \in [0..(N - 2) -> DOMAIN l.node]
  <2>1. \A i \in 0..(N - 2) : g[i] \in DOMAIN l.node
    <3> SUFFICES ASSUME NEW i \in 0..(N - 2) PROVE g[i] \in DOMAIN l.node
      OBVIOUS
    <3>1. i = 0 \/ i \in 1..(N - 2)
      OBVIOUS
    <3>2. QED
      BY <1>5, <1>6, <3>1
  <2>2. QED
    BY <2>1
<1>8. ASSUME NEW i \in 0..(N - 3) PROVE l.node[g[i]].next = g[i + 1]
  <2>1. i + 1 \in 1..(N - 2) /\ g[i + 1] = f[i + 1 + 1]
    <3>1. i + 1 \in 1..(N - 2)
      OBVIOUS
    <3>2. QED
      BY <1>5, <3>1
  <2>2. CASE i = 0
    <3>1. g[i + 1] = f[2]
      BY <2>1, <2>2
    <3>2. QED
      BY <1>4, <1>6, <2>2, <3>1
  <2>3. CASE i # 0
    <3>1. i \in 1..(N - 2) /\ i + 1 \in 0..(N - 2)
      BY <2>3
    <3>2. l.node[g[i]].next = k.node[f[i + 1]].next
      BY <1>4, <1>5, <3>1
    <3>3. QED
      BY <1>1, <2>1, <3>1, <3>2
  <2>4. QED
    BY <2>2, <2>3
<1>9. l.node[g[N - 2]].next = f[0]
  <2>1. N - 2 \in 1..(N - 2) /\ N - 2 + 1 = N - 1
    OBVIOUS
  <2>2. g[N - 2] = f[N - 1] /\ f[N - 1] \in DOMAIN l.node /\ f[N - 1] # f[0]
    BY <1>5, <2>1
  <2>3. QED
    BY <1>1, <1>4, <2>2
<1>10. ASSUME NEW n \in DOMAIN l.node PROVE \E i \in 0..(N - 2) : g[i] = n
  <2>1. PICK m \in 0..(N - 1) : f[m] = n
    BY <1>1, <1>4
  <2>2. m # 1
    BY <1>4, <2>1
  <2>3. CASE m = 0
    BY <1>2, <1>6, <2>1, <2>3
  <2>4. CASE m # 0
    <3>1. m - 1 \in 1..(N - 2) /\ (m - 1) + 1 = m /\ m - 1 \in 0..(N - 2)
      BY <2>2, <2>4
    <3>2. QED
      BY <1>5, <2>1, <3>1
  <2>5. QED
    BY <2>3, <2>4
<1>11. ASSUME NEW i \in 0..(N - 2), NEW m \in 0..(N - 2), g[i] = g[m] PROVE i = m
  <2>1. (i = 0 \/ i \in 1..(N - 2)) /\ (m = 0 \/ m \in 1..(N - 2))
    OBVIOUS
  <2>2. CASE i = 0 \/ m = 0
    BY <1>5, <1>6, <1>11, <2>1, <2>2
  <2>3. CASE i # 0 /\ m # 0
    <3>1. i + 1 = m + 1
      BY <1>1, <1>5, <1>11, <2>1, <2>3
    <3>2. QED
      BY <3>1
  <2>4. QED
    BY <2>2, <2>3
<1>12. l.counter - 1 = N - 2 /\ l.counter - 2 = N - 3
  BY <1>4
<1>13. /\ g \in [0..(l.counter - 1) -> DOMAIN l.node]
       /\ \A i \in 0..(l.counter - 2) : l.node[g[i]].next = g[i + 1]
       /\ l.node[g[l.counter - 1]].next = f[0]
       /\ \A n \in DOMAIN l.node : \E i \in 0..(l.counter - 1) : g[i] = n
       /\ \A i, m \in 0..(l.counter - 1) : g[i] = g[m] => i = m
  BY <1>7, <1>8, <1>9, <1>10, <1>11, <1>12
<1>14. QED
  BY <1>1, <1>6, <1>13 DEF Loop

\* When the process that has the CPU ends, it leaves from the front.
LEMMA LeftLeaves ==
    ASSUME NEW k, NEW l, Shape(k), Shape(l), Left(k, l)
    PROVE  Advances(Queue(k), Queue(l))
<1> DEFINE N == k.counter
<1>1. PICK f : Loop(k, k.current, f)
  BY LoopFromCurrent
<1>2. N \in Nat /\ N >= 3 /\ l.counter = N - 1
  BY LoopFromCurrent DEF Left
<1>3. PICK g : g = [i \in 0..(N - 2) |-> IF i = 0 THEN f[0] ELSE f[i + 1]]
  OBVIOUS
<1>4. Loop(l, k.current, g)
  BY <1>1, <1>2, <1>3, LoopWithout
<1> DEFINE q == Queue(k)
           s == Seen(l, g)
<1>5. q = Seen(k, f)
  BY <1>1, QueueIs DEF Seen
<1>6. /\ q \in Seq(Pids) /\ Len(q) = N
      /\ \A i \in 1..N : q[i] = PidAt(k, f[i - 1])
  BY <1>1, <1>5, SeenIsSeq
<1>7. /\ s \in Seq(Pids) /\ Len(s) = N - 1
      /\ \A i \in 1..(N - 1) : s[i] = PidAt(l, g[i - 1])
  BY <1>2, <1>4, SeenIsSeq
<1> HIDE DEF q, s
<1>8. /\ Tail(q) \in Seq(Pids) /\ Len(Tail(q)) = N - 1
      /\ \A i \in 1..(N - 1) : Tail(q)[i] = q[i + 1]
  <2>1. q # <<>>
    BY <1>2, <1>6
  <2>2. QED
    BY <1>2, <1>6, <2>1, HeadTailProperties
<1>9. ASSUME NEW i \in 1..(N - 1) PROVE s[i] = Tail(q)[i]
  <2>1. i + 1 \in 1..N /\ (i + 1) - 1 = i /\ i \in 0..(N - 1)
    BY <1>2
  <2>2. Tail(q)[i] = PidAt(k, f[i])
    BY <1>6, <1>8, <2>1
  <2>3. /\ f \in [0..(N - 1) -> DOMAIN k.node] /\ f[0] = k.current
        /\ \A j, m \in 0..(N - 1) : f[j] = f[m] => j = m
        /\ k.node[f[0]].next = f[1]
    <3>1. 0 \in 0..(N - 2)
      BY <1>2
    <3>2. QED
      BY <1>1, <3>1 DEF Loop
  <2>4. CASE i = 1
    <3>1. s[i] = PidAt(l, f[0])
      BY <1>2, <1>3, <1>7, <2>4
    <3>2. PidAt(l, f[0]) = PidAt(k, f[1])
      BY <2>3 DEF Left, PidAt
    <3>3. QED
      BY <2>2, <2>4, <3>1, <3>2
  <2>5. CASE i # 1
    <3>1. i - 1 \in 0..(N - 2) /\ i - 1 # 0 /\ (i - 1) + 1 = i
      BY <1>2, <2>5
    <3>2. s[i] = PidAt(l, f[i])
      BY <1>3, <1>7, <3>1
    <3>3. 0 \in 0..(N - 1) /\ 1 \in 0..(N - 1) /\ i # 0
      BY <1>2
    <3>4. f[i] # f[0] /\ f[i] # f[1] /\ f[i] \in DOMAIN k.node
      BY <2>1, <2>3, <2>5, <3>3
    <3>5. PidAt(l, f[i]) = PidAt(k, f[i])
      BY <2>3, <3>4 DEF Left, PidAt
    <3>6. QED
      BY <2>2, <3>2, <3>5
  <2>6. QED
    BY <2>4, <2>5
<1>10. s = Tail(q)
  BY <1>7, <1>8, <1>9, SeqEqual
<1>11. PICK j \in 0..(l.counter - 1) : Queue(l) = Abstract!Rotate(s, j)
  BY <1>4, QueueRotates DEF s
<1>12. j \in 0..(Len(q) - 2) /\ Len(q) > 1
  BY <1>2, <1>6, <1>11
<1>13. QED
  BY <1>10, <1>11, <1>12 DEF Advances, q

\* The nodes in the order of the ring when n is linked in at place 1.
LEMMA LoopWith ==
    ASSUME NEW k, NEW l, NEW f, Loop(k, k.current, f),
           NEW n, NEW p, NEW q, NEW fg, Grown(k, l, n, p, q, fg),
           k.counter \in Nat, k.counter >= 2,
           NEW g, g = [i \in 0..k.counter |-> IF i = 0 THEN f[0]
                                              ELSE IF i = 1 THEN n ELSE f[i - 1]]
    PROVE  Loop(l, k.current, g)
<1> DEFINE N == k.counter
<1>1. /\ f \in [0..(N - 1) -> DOMAIN k.node] /\ f[0] = k.current
      /\ \A i \in 0..(N - 2) : k.node[f[i]].next = f[i + 1]
      /\ k.node[f[N - 1]].next = f[0]
      /\ \A m \in DOMAIN k.node : \E i \in 0..(N - 1) : f[i] = m
      /\ \A i, m \in 0..(N - 1) : f[i] = f[m] => i = m
  BY DEF Loop
<1>2. 0 \in 0..(N - 1) /\ 0 \in 0..(N - 2)
  OBVIOUS
<1>3. /\ DOMAIN l.node = DOMAIN k.node \cup {n} /\ n \notin DOMAIN k.node
      /\ l.node[n].next = f[1] /\ l.node[f[0]].next = n
      /\ \A m \in DOMAIN k.node : m # f[0] => l.node[m].next = k.node[m].next
  <2>1. k.node[k.current].next = f[1]
    BY <1>1, <1>2
  <2>2. DOMAIN l.node = DOMAIN k.node \cup {n}
    BY DEF Grown
  <2>3. QED
    BY <1>1, <2>1, <2>2 DEF Grown
<1>4. l.counter = N + 1
  <2>1. l = [node |-> l.node, proc |-> l.proc, current |-> k.current,
             first |-> k.first,
             foreground |-> IF fg THEN n ELSE k.foreground,
             background |-> IF fg THEN k.foreground ELSE k.background,
             counter |-> k.counter + 1, pidc |-> p + 1]
    BY DEF Grown
  <2>2. QED
    BY <2>1
<1>5. \A i \in 2..N : /\ g[i] = f[i - 1] /\ i - 1 \in 0..(N - 1)
                      /\ f[i - 1] \in DOMAIN k.node /\ f[i - 1] # f[0]
  <2> SUFFICES ASSUME NEW i \in 2..N
               PROVE  /\ g[i] = f[i - 1] /\ i - 1 \in 0..(N - 1)
                      /\ f[i - 1] \in DOMAIN k.node /\ f[i - 1] # f[0]
    OBVIOUS
  <2>1. i - 1 \in 0..(N - 1) /\ i - 1 # 0 /\ i # 0 /\ i # 1 /\ i \in 0..N
    OBVIOUS
  <2>2. QED
    BY <1>1, <1>2, <2>1
<1>6. g[0] = f[0] /\ g[1] = n /\ f[0] \in DOMAIN k.node /\ n # f[0]
  <2>1. 0 \in 0..N /\ 1 \in 0..N
    OBVIOUS
  <2>2. QED
    BY <1>1, <1>2, <1>3, <2>1
<1>7. \A i \in 0..N : i = 0 \/ i = 1 \/ i \in 2..N
  OBVIOUS
<1>8. g \in [0..N -> DOMAIN l.node]
  <2>1. \A i \in 0..N : g[i] \in DOMAIN l.node
    BY <1>3, <1>5, <1>6, <1>7
  <2>2. QED
    BY <2>1
<1>9. ASSUME NEW i \in 0..(N - 1) PROVE l.node[g[i]].next = g[i + 1]
  <2>1. CASE i = 0
    BY <1>3, <1>6, <2>1
  <2>2. CASE i = 1
    <3>1. 2 \in 2..N /\ i + 1 = 2
      BY <2>2
    <3>2. g[2] = f[1]
      BY <1>5, <3>1
    <3>3. QED
      BY <1>3, <1>6, <2>2, <3>1, <3>2
  <2>3. CASE i # 0 /\ i # 1
    <3>1. /\ i \in 2..N /\ i + 1 \in 2..N /\ i - 1 \in 0..(N - 2)
          /\ (i + 1) - 1 = (i - 1) + 1
      BY <2>3
    <3>2. l.node[g[i]].next = k.node[f[i - 1]].next
      BY <1>3, <1>5, <3>1
    <3>3. g[i + 1] = f[(i - 1) + 1]
      BY <1>5, <3>1
    <3>4. QED
      BY <1>1, <3>1, <3>2, <3>3
  <2>4. QED
    BY <2>1, <2>2, <2>3
<1>10. l.node[g[N]].next = f[0]
  <2>1. N \in 2..N
    OBVIOUS
  <2>2. g[N] = f[N - 1] /\ f[N - 1] \in DOMAIN k.node /\ f[N - 1] # f[0]
    BY <1>5, <2>1
  <2>3. QED
    BY <1>1, <1>3, <2>2
<1>11. ASSUME NEW m \in DOMAIN l.node PROVE \E i \in 0..N : g[i] = m
  <2>1. CASE m = n
    <3>1. 1 \in 0..N
      OBVIOUS
    <3>2. QED
      BY <1>6, <2>1, <3>1
  <2>2. CASE m # n
    <3>1. PICK i \in 0..(N - 1) : f[i] = m
      BY <1>1, <1>3, <2>2
    <3>2. CASE i = 0
      <4>1. 0 \in 0..N
        OBVIOUS
      <4>2. QED
        BY <1>6, <3>1, <3>2, <4>1
    <3>3. CASE i # 0
      <4>1. i + 1 \in 2..N /\ (i + 1) - 1 = i /\ i + 1 \in 0..N
        BY <3>3
      <4>2. QED
        BY <1>5, <3>1, <4>1
    <3>4. QED
      BY <3>2, <3>3
  <2>3. QED
    BY <2>1, <2>2
<1>12. ASSUME NEW i \in 0..N, NEW m \in 0..N, g[i] = g[m] PROVE i = m
  <2>1. CASE i \in 2..N /\ m \in 2..N
    <3>1. i - 1 = m - 1
      BY <1>1, <1>5, <1>12, <2>1
    <3>2. QED
      BY <3>1
  <2>2. CASE ~(i \in 2..N /\ m \in 2..N)
    <3>1. \A j \in 2..N : g[j] # f[0] /\ g[j] # n
      BY <1>3, <1>5
    <3>2. QED
      BY <1>6, <1>7, <1>12, <2>2, <3>1
  <2>3. QED
    BY <2>1, <2>2
<1>13. l.counter - 1 = N /\ l.counter - 2 = N - 1
  BY <1>4
<1>14. /\ g \in [0..(l.counter - 1) -> DOMAIN l.node]
       /\ \A i \in 0..(l.counter - 2) : l.node[g[i]].next = g[i + 1]
       /\ l.node[g[l.counter - 1]].next = f[0]
       /\ \A m \in DOMAIN l.node : \E i \in 0..(l.counter - 1) : g[i] = m
       /\ \A i, m \in 0..(l.counter - 1) : g[i] = g[m] => i = m
  BY <1>8, <1>9, <1>10, <1>11, <1>12, <1>13
<1>15. QED
  BY <1>1, <1>6, <1>14 DEF Loop

\* The processes in the ring are the ones there are.
LEMMA SeenAreThere ==
    ASSUME NEW k, Shape(k), NEW c, NEW f, Loop(k, c, f), NEW i \in 1..k.counter
    PROVE  Seen(k, f)[i] \in DOMAIN k.proc
<1>1. k.counter \in Nat /\ i - 1 \in 0..(k.counter - 1)
  BY DEF Shape, IsKernel
<1>2. f[i - 1] \in DOMAIN k.node
  BY <1>1 DEF Loop
<1>3. Seen(k, f)[i] = PidAt(k, f[i - 1])
  BY SeenIsSeq
<1>4. QED
  BY <1>2, <1>3 DEF Shape, Homes

\* A new process comes second.
LEMMA GrownInserts ==
    ASSUME NEW k, NEW l, Shape(k), Shape(l), NEW n, NEW p, NEW u, NEW fg,
           Grown(k, l, n, p, u, fg)
    PROVE  Advances(Queue(k), Queue(l))
<1> DEFINE N == k.counter
<1>1. PICK f : Loop(k, k.current, f)
  BY LoopFromCurrent
<1>2. N \in Nat /\ N >= 2
  BY LoopFromCurrent
<1>3. PICK g : g = [i \in 0..N |-> IF i = 0 THEN f[0]
                                   ELSE IF i = 1 THEN n ELSE f[i - 1]]
  OBVIOUS
<1>4. Loop(l, k.current, g)
  BY <1>1, <1>2, <1>3, LoopWith
<1>5. l.counter = N + 1 /\ l.current = k.current
  <2>1. l = [node |-> l.node, proc |-> l.proc, current |-> k.current,
             first |-> k.first,
             foreground |-> IF fg THEN n ELSE k.foreground,
             background |-> IF fg THEN k.foreground ELSE k.background,
             counter |-> k.counter + 1, pidc |-> p + 1]
    BY DEF Grown
  <2>2. QED
    BY <2>1
<1>6. p \in Pids /\ p \notin DOMAIN k.proc
  BY DEF Grown
<1> DEFINE q == Queue(k)
           s == Queue(l)
           t == <<Head(q), p>> \o Tail(q)
<1>7. q = Seen(k, f) /\ s = Seen(l, g)
  BY <1>1, <1>4, <1>5, QueueIs DEF Seen
<1>8. /\ q \in Seq(Pids) /\ Len(q) = N
      /\ \A i \in 1..N : q[i] = PidAt(k, f[i - 1]) /\ q[i] # p
  BY <1>1, <1>6, <1>7, SeenIsSeq, SeenAreThere
<1>9. /\ s \in Seq(Pids) /\ Len(s) = N + 1
      /\ \A i \in 1..(N + 1) : s[i] = PidAt(l, g[i - 1])
  BY <1>4, <1>5, <1>7, SeenIsSeq
<1> HIDE DEF q, s
<1>10. /\ Tail(q) \in Seq(Pids) /\ Len(Tail(q)) = N - 1
       /\ \A i \in 1..(N - 1) : Tail(q)[i] = q[i + 1]
       /\ Head(q) = q[1] /\ q[1] \in Pids
  <2>1. q # <<>> /\ 1 \in 1..N
    BY <1>2, <1>8
  <2>2. QED
    BY <1>2, <1>8, <2>1, HeadTailProperties
<1>11. /\ t \in Seq(Pids) /\ Len(t) = N + 1
       /\ \A i \in 1..(N + 1) : t[i] = IF i = 1 THEN q[1] ELSE IF i = 2 THEN p
                                       ELSE q[i - 1]
  <2> DEFINE b == <<Head(q), p>>
  <2>1. b \in Seq(Pids) /\ Len(b) = 2 /\ b[1] = q[1] /\ b[2] = p
    BY <1>6, <1>10
  <2> HIDE DEF b
  <2>2. /\ b \o Tail(q) \in Seq(Pids) /\ Len(b \o Tail(q)) = 2 + (N - 1)
        /\ \A i \in 1..(2 + (N - 1)) :
              (b \o Tail(q))[i] = IF i <= 2 THEN b[i] ELSE Tail(q)[i - 2]
    <3>1. /\ b \o Tail(q) \in Seq(Pids)
          /\ Len(b \o Tail(q)) = Len(b) + Len(Tail(q))
          /\ \A i \in 1..(Len(b) + Len(Tail(q))) :
                (b \o Tail(q))[i] = IF i <= Len(b) THEN b[i]
                                    ELSE Tail(q)[i - Len(b)]
      BY <1>10, <2>1, ConcatProperties
    <3>2. QED
      BY <1>10, <2>1, <3>1
  <2>3. 2 + (N - 1) = N + 1
    BY <1>2
  <2>4. \A i \in 1..(N + 1) : /\ i <= 2 <=> i = 1 \/ i = 2
                              /\ ~(i <= 2) => /\ i - 2 \in 1..(N - 1)
                                              /\ (i - 2) + 1 = i - 1
    BY <1>2
  <2>5. ASSUME NEW i \in 1..(N + 1), ~(i <= 2) PROVE (b \o Tail(q))[i] = q[i - 1]
    BY <1>10, <2>2, <2>3, <2>4, <2>5
  <2>6. t = b \o Tail(q)
    BY DEF b
  <2> HIDE DEF t
  <2>7. QED
    BY <2>1, <2>2, <2>3, <2>4, <2>5, <2>6
<1> HIDE DEF t
<1>12. /\ l.node[n].proc = p
       /\ \A m \in DOMAIN k.node : l.node[m].proc = k.node[m].proc
  BY DEF Grown
<1>13. ASSUME NEW i \in 1..(N + 1) PROVE s[i] = t[i]
  <2>1. s[i] = PidAt(l, g[i - 1]) /\ i - 1 \in 0..N
    BY <1>2, <1>9
  <2>2. \A j \in 0..(N - 1) : PidAt(l, f[j]) = PidAt(k, f[j])
    BY <1>1, <1>12 DEF PidAt, Loop
  <2>3. CASE i = 1
    <3>1. 0 \in 0..(N - 1) /\ 1 \in 1..N
      BY <1>2
    <3>2. g[0] = f[0]
      BY <1>2, <1>3
    <3>3. QED
      BY <1>8, <1>11, <2>1, <2>2, <2>3, <3>1, <3>2
  <2>4. CASE i = 2
    <3>1. g[1] = n
      BY <1>2, <1>3
    <3>2. QED
      BY <1>11, <1>12, <2>1, <2>4, <3>1 DEF PidAt
  <2>5. CASE i # 1 /\ i # 2
    <3>1. /\ i - 1 \in 1..N /\ (i - 1) - 1 \in 0..(N - 1) /\ i - 1 # 0 /\ i - 1 # 1
      BY <1>2, <2>5
    <3>2. g[i - 1] = f[(i - 1) - 1]
      BY <1>3, <2>1, <3>1
    <3>3. t[i] = q[i - 1]
      BY <1>11, <2>5
    <3>4. QED
      BY <1>8, <2>1, <2>2, <3>1, <3>2, <3>3
  <2>6. QED
    BY <2>3, <2>4, <2>5
<1>14. s = t
  BY <1>9, <1>11, <1>13, SeqEqual
<1>15. QED
  BY <1>6, <1>8, <1>14 DEF Advances, q, s, t

\* A step that keeps the ring or takes its first process off is one of the queue.
LEMMA MovedAdvances ==
    ASSUME NEW k, NEW l, Shape(k), Shape(l), Moved(k, l)
    PROVE  Advances(Queue(k), Queue(l))
  BY LinkedRotates, LeftLeaves DEF Moved

\* Ctrl-C: the process in front, which has the CPU, is killed.
LEMMA CtrlCMoves ==
    ASSUME NEW k, k = kernel, NEW l, l = kernel', Shape(k), CtrlC,
           "ctrl-c" \notin Uses
    PROVE  Moved(k, l)
<1>1. Still(k, ReadyForeground(k)) /\ Still(k, ReturnForeground(k))
  BY KernelIsPlain, ForegroundStays
<1>2. CASE k.background = NoNode
  <2>1. l = ReadyForeground(k)
    BY <1>2 DEF CtrlC
  <2>2. QED
    BY <1>1, <2>1 DEF Moved, Still
<1>3. CASE k.background # NoNode
  <2>1. PICK q, h : q = CurrentPid(k) /\ h = ReturnForeground(k)
    OBVIOUS
  <2>2. q = PidAt(k, k.foreground) /\ l = KillProcess(h, q)
    BY <1>3, <2>1 DEF CtrlC, Me
  <2>3. q = CurrentPid(h)
    <3>1. k.current \in DOMAIN k.node
      BY DEF Shape, IsKernel
    <3>2. QED
      BY <1>1, <2>1, <3>1 DEF Still, Linked, CurrentPid, PidAt
  <2>4. l = Schedule(SetState(h, q, "KILLED"), FALSE)
    BY <2>2, <2>3 DEF KillProcess
  <2>5. Still(k, SetState(h, q, "KILLED"))
    BY <1>1, <2>1, StateChanges
  <2>6. QED
    BY <2>4, <2>5, ScheduleMoves
<1>4. QED
  BY <1>2, <1>3

\* Every step of the scheduler is one of the queue.
LEMMA NextAdvances ==
    ASSUME Uses \subseteq {"block"}, Sound(kernel), Next
    PROVE  Advances(Queue(kernel), Queue(kernel'))
<1>1. PICK k, l : k = kernel /\ l = kernel'
  OBVIOUS
<1> SUFFICES Advances(Queue(k), Queue(l))
  BY <1>1
<1>2. Sound(k) /\ Shape(k) /\ Shape(l) /\ Still(k, k)
  <2>1. Sound(kernel')
    BY NextSound
  <2>2. QED
    BY <1>1, <2>1, KernelIsPlain DEF Sound
<1>3. ASSUME NEW h, Still(k, h), NEW yield, l = Schedule(h, yield)
      PROVE  Advances(Queue(k), Queue(l))
  BY <1>2, <1>3, ScheduleMoves, MovedAdvances
<1>4. ASSUME Still(k, l) PROVE Advances(Queue(k), Queue(l))
  BY <1>2, <1>4, MovedAdvances DEF Moved, Still
<1>5. \A p, s : Still(k, SetState(k, p, s)) /\ Still(k, ReadyProcess(k, p))
  BY <1>2, StateChanges
<1>6. CASE Tick \/ Yield
  BY <1>1, <1>2, <1>3, <1>6 DEF Tick, Yield
<1>7. CASE Exit
  <2>1. l = Schedule(SetState(k, CurrentPid(k), "KILLED"), FALSE)
    BY <1>1, <1>7 DEF Exit, KillProcess, Me
  <2>2. QED
    BY <1>3, <1>5, <2>1
<1>8. CASE WaitPid
  <2>1. PICK g : g = SetState(k, CurrentPid(k), "BLOCKED")
    OBVIOUS
  <2> DEFINE procs == [g.proc EXCEPT ![CurrentPid(k)].waits = TRUE]
             h == [g EXCEPT !.proc = procs]
  <2>2. l = Schedule(h, FALSE)
    BY <1>1, <1>8, <2>1 DEF WaitPid, Me
  <2> HIDE DEF procs
  <2>3. Still(k, h)
    BY <1>5, <2>1, ProcessesChange
  <2> HIDE DEF h
  <2>4. QED
    BY <1>3, <2>2, <2>3
<1>9. CASE CtrlC
  <2>1. Moved(k, l)
    BY <1>1, <1>2, <1>9, CtrlCMoves
  <2>2. QED
    BY <1>2, <2>1, MovedAdvances
<1>10. ASSUME NEW prio \in Priorities, NEW fg \in BOOLEAN, Exec(prio, fg)
       PROVE  Advances(Queue(k), Queue(l))
  <2>1. PICK p, q, n : /\ p = k.pidc /\ q = CurrentPid(k)
                       /\ n = Min(NodeIds \ DOMAIN k.node)
    OBVIOUS
  <2>2. Grown(k, l, n, p, q, fg)
    BY <1>1, <1>2, <1>10, <2>1, ExecGrows DEF Sound
  <2>3. QED
    BY <1>2, <2>2, GrownInserts
<1>11. ASSUME NEW p \in Pids, Block(p) PROVE Advances(Queue(k), Queue(l))
  BY <1>1, <1>3, <1>5, <1>11 DEF Block
<1>12. ASSUME NEW p \in Pids, Ready(p) PROVE Advances(Queue(k), Queue(l))
  BY <1>1, <1>4, <1>5, <1>12 DEF Ready
<1>13. ASSUME NEW p \in Pids, NEW prio \in Priorities, Nice(p, prio)
       PROVE  Advances(Queue(k), Queue(l))
  <2> DEFINE procs == [k.proc EXCEPT ![p].priority = prio]
  <2>1. l = [k EXCEPT !.proc = procs]
    BY <1>1, <1>13 DEF Nice
  <2> HIDE DEF procs
  <2>2. QED
    BY <1>2, <1>4, <2>1, ProcessesChange
<1>14. "kill" \notin Uses
  OBVIOUS
<1>15. QED
  BY <1>6, <1>7, <1>8, <1>9, <1>10, <1>11, <1>12, <1>13, <1>14 DEF Next, Kill

(***************************************************************************)
(* The ring of scheduler.c is a queue: whatever destroy_node, add_node and *)
(* find_next_ready do to its nodes, a step inserts a process behind the    *)
(* one that has the CPU, rotates, or takes the first one off.              *)
(***************************************************************************)
THEOREM RingIsAQueue ==
    ASSUME Uses \subseteq {"block"} PROVE Spec => ImplementsRunQueue
<1>1. Init => Queue(kernel) = <<Idle, Shell>>
  <2> SUFFICES ASSUME Init PROVE Queue(kernel) = <<Idle, Shell>>
    OBVIOUS
  <2>1. PICK k : k = kernel
    OBVIOUS
  <2>2. Shape(k)
    BY <2>1, InitSound DEF Sound
  <2>3. /\ k.counter = 2 /\ k.current = 1 /\ DOMAIN k.node = {1, 2}
        /\ k.node[1].next = 2 /\ k.node[2].next = 1
        /\ PidAt(k, 1) = Idle /\ PidAt(k, 2) = Shell
    BY <2>1 DEF Init, Node, PidAt
  <2> DEFINE f == [i \in 0..1 |-> i + 1]
  <2>4. f[0] = 1 /\ f[1] = 2 /\ f \in [0..1 -> {1, 2}]
    OBVIOUS
  <2>5. \A i : (i \in 0..1 <=> i = 0 \/ i = 1) /\ (i \in 0..0 <=> i = 0)
    OBVIOUS
  <2> HIDE DEF f
  <2>6. Loop(k, k.current, f)
    BY <2>3, <2>4, <2>5 DEF Loop
  <2>7. Queue(k) = [i \in 1..2 |-> PidAt(k, f[i - 1])]
    <3>1. Queue(k) = [i \in 1..k.counter |-> PidAt(k, f[i - 1])]
      BY <2>2, <2>6, QueueIs
    <3>2. QED
      BY <2>3, <3>1
  <2>8. \A i \in 1..2 : PidAt(k, f[i - 1]) = IF i = 1 THEN Idle ELSE Shell
    BY <2>3, <2>4
  <2>9. Queue(k) = <<Idle, Shell>>
    BY <2>7, <2>8
  <2>10. QED
    BY <2>1, <2>9
<1>2. SchedInv /\ [Next]_kernel => [Abstract!Next]_(Queue(kernel))
  <2> SUFFICES ASSUME SchedInv, [Next]_kernel
               PROVE  [Abstract!Next]_(Queue(kernel))
    OBVIOUS
  <2>1. CASE Next
    <3>1. Advances(Queue(kernel), Queue(kernel'))
      BY <2>1, NextAdvances DEF SchedInv
    <3>2. QED
      BY <3>1 DEF Advances, Abstract!Next, Abstract!Insert, Abstract!Switch,
                  Abstract!Leave
  <2>2. CASE kernel' = kernel
    BY <2>2
  <2>3. QED
    BY <2>1, <2>2
<1>3. QED
  BY <1>1, <1>2, Invariance, PTL
     DEF Spec, ImplementsRunQueue, Abstract!Spec, Abstract!Init
=============================================================================
