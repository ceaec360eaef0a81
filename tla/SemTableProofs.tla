--------------------------- MODULE SemTableProofs ---------------------------
(***************************************************************************)
(* What SemTable guarantees for every set of processes and of names and    *)
(* every length of the table.                                              *)
(***************************************************************************)
EXTENDS SemTable, FiniteSetTheorems, TLAPS

\* The opens of a name that are not closed yet, one by one.
Pending(name) == {t \in Procs \X (1..MaxOpens) : t[2] <= opens[t[1]][name]}

SemRec == [used : BOOLEAN, name : Names \cup KernelNames \cup {NoName},
           openCount : Int]

TableTypes ==
    /\ sems \in [Slots -> SemRec]
    /\ opens \in [Procs -> [Names -> 0..MaxOpens]]

\* The first three slots are the kernel's: no process closes their names.
KernelSlots ==
    \A i \in Slots : i <= 2 => sems[i].used /\ sems[i].name \in KernelNames

(***************************************************************************)
(* The open that took a slot is counted in slot 0, so what the slot counts *)
(* is less than the opens pending: with the last of them it is free.       *)
(***************************************************************************)
UserSlots ==
    \A i \in Slots : i > 2 /\ sems[i].used =>
        /\ sems[i].name \in Names
        /\ \A name \in Names : sems[i].name = name =>
              /\ sems[i].openCount \in Nat
              /\ sems[i].openCount < Cardinality(Pending(name))

OneSlotEach ==
    \A i, j \in Slots :
        sems[i].used /\ sems[j].used /\ sems[i].name = sems[j].name => i = j

TableInv == TableTypes /\ KernelSlots /\ UserSlots /\ OneSlotEach

-----------------------------------------------------------------------------
\* Every non-empty set of naturals has a least element.
LEMMA LeastNat ==
    ASSUME NEW T \in SUBSET Nat, T # {}
    PROVE  \E x \in T : \A y \in T : x <= y
<1>1. PICK R : IsWellFoundedOn(R, Nat) /\ R = OpToRel(<, Nat)
  BY NatLessThanWellFounded, Zenon
<1>2. R = {ss \in Nat \X Nat : ss[1] < ss[2]}
  BY <1>1, Zenon DEF OpToRel
<1>3. PICK x \in T : \A y \in T : ~(<<y, x>> \in R)
  BY <1>1, WFMin
<1>4. \A u, v \in Nat : <<u, v>> \in R <=> u < v
  BY <1>2
<1>5. \A y \in T : x \in Nat /\ y \in Nat /\ ~(y < x)
  BY <1>3, <1>4
<1>6. \A y \in T : x <= y
  BY <1>5
<1>7. QED
  BY <1>6

\* The loops of get_sem_by_name and get_new_sem stop at a slot they look for.
LEMMA LoopFindsSlot ==
    ASSUME NEW T \in SUBSET Slots, T # {} PROVE Min(T) \in T
<1>1. T \in SUBSET Nat
  BY TableAssumption DEF Slots
<1>2. \E x \in T : \A y \in T : x <= y
  BY <1>1, LeastNat
<1>3. QED
  BY <1>2 DEF Min

\* Pending opens can be counted.
LEMMA PendingFinite ==
    ASSUME NEW name
    PROVE  IsFiniteSet(Pending(name)) /\ Cardinality(Pending(name)) \in Nat
<1>1. IsFiniteSet(1..MaxOpens)
  BY TableAssumption, FS_Interval
<1>2. IsFiniteSet(Procs \X (1..MaxOpens))
  BY <1>1, TableAssumption, FS_Product
<1>3. Pending(name) \in SUBSET (Procs \X (1..MaxOpens))
  BY DEF Pending
<1>4. IsFiniteSet(Pending(name))
  BY <1>2, <1>3, FS_Subset
<1>5. QED
  BY <1>4, FS_CardinalityType

\* The pending opens after sem_open ...
LEMMA OpenPends ==
    ASSUME TableTypes, NEW p \in Procs, NEW name \in Names,
           opens[p][name] < MaxOpens,
           opens' = [opens EXCEPT ![p][name] = @ + 1]
    PROVE  /\ Cardinality(Pending(name)') = Cardinality(Pending(name)) + 1
           /\ \A other \in Names :
                  other # name => Pending(other)' = Pending(other)
           /\ opens' \in [Procs -> [Names -> 0..MaxOpens]]
<1> DEFINE k == opens[p][name]
<1>1. k \in Nat /\ k < MaxOpens /\ MaxOpens \in Nat
  BY TableAssumption DEF TableTypes
<1>2. /\ opens' \in [Procs -> [Names -> 0..MaxOpens]]
      /\ opens'[p][name] = k + 1
      /\ \A q \in Procs, n \in Names :
             q # p \/ n # name => opens'[q][n] = opens[q][n]
  BY <1>1 DEF TableTypes
<1>3. \A q \in Procs, n \in Names : opens[q][n] \in Nat
  BY DEF TableTypes
<1> HIDE DEF k
<1>4. Pending(name)' = Pending(name) \cup {<<p, k + 1>>}
  <2>1. \A t \in Procs \X (1..MaxOpens) :
           t[2] <= opens'[t[1]][name] <=>
             t[2] <= opens[t[1]][name] \/ t = <<p, k + 1>>
    <3> SUFFICES ASSUME NEW q \in Procs, NEW j \in 1..MaxOpens
                 PROVE  j <= opens'[q][name] <=>
                          j <= opens[q][name] \/ <<q, j>> = <<p, k + 1>>
      OBVIOUS
    <3>1. CASE q = p
      BY <1>1, <1>2, <3>1 DEF k
    <3>2. CASE q # p
      BY <1>2, <3>2
    <3>3. QED
      BY <3>1, <3>2
  <2>2. <<p, k + 1>> \in Procs \X (1..MaxOpens)
    BY <1>1
  <2>3. QED
    BY <2>1, <2>2 DEF Pending
<1>5. <<p, k + 1>> \notin Pending(name)
  BY <1>1 DEF Pending, k
<1>6. Cardinality(Pending(name)') = Cardinality(Pending(name)) + 1
  BY <1>4, <1>5, PendingFinite, FS_AddElement
<1>7. ASSUME NEW other \in Names, other # name
      PROVE  Pending(other)' = Pending(other)
  <2>1. \A t \in Procs \X (1..MaxOpens) :
            opens'[t[1]][other] = opens[t[1]][other]
    BY <1>2, <1>7
  <2>2. QED
    BY <2>1 DEF Pending
<1>8. QED
  BY <1>2, <1>6, <1>7

\* ... and after sem_close.
LEMMA ClosePends ==
    ASSUME TableTypes, NEW p \in Procs, NEW name \in Names,
           opens[p][name] > 0,
           opens' = [opens EXCEPT ![p][name] = @ - 1]
    PROVE  /\ Cardinality(Pending(name)') = Cardinality(Pending(name)) - 1
           /\ \A other \in Names :
                  other # name => Pending(other)' = Pending(other)
           /\ opens' \in [Procs -> [Names -> 0..MaxOpens]]
<1> DEFINE k == opens[p][name]
<1>1. k \in Nat /\ k > 0 /\ k <= MaxOpens /\ MaxOpens \in Nat
  BY TableAssumption DEF TableTypes
<1>2. /\ opens' \in [Procs -> [Names -> 0..MaxOpens]]
      /\ opens'[p][name] = k - 1
      /\ \A q \in Procs, n \in Names :
             q # p \/ n # name => opens'[q][n] = opens[q][n]
  BY <1>1 DEF TableTypes
<1> HIDE DEF k
<1>4. Pending(name)' = Pending(name) \ {<<p, k>>}
  <2>1. \A t \in Procs \X (1..MaxOpens) :
           t[2] <= opens'[t[1]][name] <=>
             t[2] <= opens[t[1]][name] /\ t # <<p, k>>
    <3> SUFFICES ASSUME NEW q \in Procs, NEW j \in 1..MaxOpens
                 PROVE  j <= opens'[q][name] <=>
                          j <= opens[q][name] /\ <<q, j>> # <<p, k>>
      OBVIOUS
    <3>1. CASE q = p
      BY <1>1, <1>2, <3>1 DEF k
    <3>2. CASE q # p
      BY <1>2, <3>2
    <3>3. QED
      BY <3>1, <3>2
  <2>2. QED
    BY <2>1 DEF Pending
<1>5. <<p, k>> \in Pending(name)
  BY <1>1 DEF Pending, k
<1>6. Cardinality(Pending(name)') = Cardinality(Pending(name)) - 1
  BY <1>4, <1>5, PendingFinite, FS_RemoveElement
<1>7. ASSUME NEW other \in Names, other # name
      PROVE  Pending(other)' = Pending(other)
  <2>1. \A t \in Procs \X (1..MaxOpens) :
            opens'[t[1]][other] = opens[t[1]][other]
    BY <1>2, <1>7
  <2>2. QED
    BY <2>1 DEF Pending
<1>8. QED
  BY <1>2, <1>6, <1>7

-----------------------------------------------------------------------------
\* init_scheduler leaves three slots taken and nothing pending.
LEMMA TableInit == Init => TableInv
<1> SUFFICES ASSUME Init PROVE TableInv
  OBVIOUS
<1>1. \A i \in Slots :
         /\ i \in Int
         /\ i = 0 => sems[i] = Sem("PROCESSES_MUTEX", 3)
         /\ i = 1 => sems[i] = Sem("SCHEDULER_MUTEX", 0)
         /\ i = 2 => sems[i] = Sem("PROC_MUTEX", 0)
         /\ i > 2 => sems[i] = FreeSem
  BY TableAssumption DEF Init, Slots
<1>2. \A i \in Slots : i = 0 \/ i = 1 \/ i = 2 \/ i > 2
  BY TableAssumption DEF Slots
<1>3. /\ FreeSem \in SemRec /\ ~FreeSem.used
      /\ \A n \in KernelNames, c \in Int :
            Sem(n, c) \in SemRec /\ Sem(n, c).used /\ Sem(n, c).name = n
  BY DEF FreeSem, Sem, SemRec
<1>4. sems \in [Slots -> SemRec]
  BY <1>1, <1>2, <1>3 DEF Init, KernelNames
<1>5. opens \in [Procs -> [Names -> 0..MaxOpens]]
  BY TableAssumption DEF Init
<1>6. KernelSlots
  BY <1>1, <1>2, <1>3 DEF KernelSlots, KernelNames
<1>7. UserSlots
  BY <1>1, <1>3 DEF UserSlots
<1>8. OneSlotEach
  BY <1>1, <1>2, <1>3 DEF OneSlotEach, KernelNames
<1>9. QED
  BY <1>4, <1>5, <1>6, <1>7, <1>8 DEF TableInv, TableTypes

\* The slot a user's name is found in is not one of the kernel's.
LEMMA FoundSlot ==
    ASSUME TableInv, NEW name \in Names, Holding(name) # {}
    PROVE  LET h == Min(Holding(name))
           IN  /\ h \in Slots /\ h \in Int /\ h > 2
               /\ sems[h].used /\ sems[h].name = name /\ sems[h] \in SemRec
               /\ sems[h].openCount \in Nat
               /\ sems[h].openCount < Cardinality(Pending(name))
<1>1. Holding(name) \in SUBSET Slots
  BY DEF Holding
<1>2. PICK h \in Holding(name) : h = Min(Holding(name))
  BY <1>1, LoopFindsSlot
<1>3. h \in Slots /\ h \in Int /\ sems[h].used /\ sems[h].name = name
  BY TableAssumption DEF Holding, Slots
<1>4. ~(h <= 2)
  BY <1>3, TableAssumption DEF TableInv, KernelSlots
<1>5. h > 2 /\ sems[h] \in SemRec
  BY <1>3, <1>4 DEF TableInv, TableTypes
<1>6. QED
  BY <1>2, <1>3, <1>5 DEF TableInv, UserSlots

\* A free slot is not one of the kernel's either.
LEMMA NewSlot ==
    ASSUME TableInv, Unused # {}
    PROVE  LET h == Min(Unused)
           IN  h \in Slots /\ h \in Int /\ h > 2 /\ ~sems[h].used
<1>1. Unused \in SUBSET Slots
  BY DEF Unused
<1>2. PICK h \in Unused : h = Min(Unused)
  BY <1>1, LoopFindsSlot
<1>3. h \in Slots /\ h \in Int /\ ~sems[h].used
  BY TableAssumption DEF Unused, Slots
<1>4. ~(h <= 2)
  BY <1>3 DEF TableInv, KernelSlots
<1>5. QED
  BY <1>2, <1>3, <1>4

\* sem_open of a name that is in the table.
LEMMA OpenFound ==
    ASSUME TableInv, NEW p \in Procs, NEW name \in Names,
           opens[p][name] < MaxOpens, Holding(name) # {},
           opens' = [opens EXCEPT ![p][name] = @ + 1],
           sems' = [sems EXCEPT ![Min(Holding(name))].openCount = Inc(@)]
    PROVE  TableInv'
<1> DEFINE h == Min(Holding(name))
<1>1. /\ h \in Slots /\ h \in Int /\ h > 2
      /\ sems[h].used /\ sems[h].name = name /\ sems[h] \in SemRec
      /\ sems[h].openCount \in Nat
      /\ sems[h].openCount < Cardinality(Pending(name))
  BY FoundSlot
<1>2. /\ Cardinality(Pending(name)') = Cardinality(Pending(name)) + 1
      /\ \A other \in Names : other # name => Pending(other)' = Pending(other)
      /\ opens' \in [Procs -> [Names -> 0..MaxOpens]]
  BY OpenPends DEF TableInv
<1>3. Cardinality(Pending(name)) \in Nat
  BY PendingFinite
<1> HIDE DEF h
<1>4. /\ Inc(sems[h].openCount) \in Nat
      /\ Inc(sems[h].openCount) <= sems[h].openCount + 1
  BY <1>1 DEF Inc
<1>5. /\ sems' \in [Slots -> SemRec]
      /\ sems'[h].used /\ sems'[h].name = name
      /\ sems'[h].openCount = Inc(sems[h].openCount)
      /\ \A i \in Slots : i # h => sems'[i] = sems[i]
  BY <1>1, <1>4 DEF TableInv, TableTypes, SemRec, h
<1>6. KernelSlots'
  BY <1>1, <1>5 DEF TableInv, KernelSlots
<1>7. UserSlots'
  <2>0. \A i \in Slots : i > 2 /\ sems'[i].used => sems'[i].name \in Names
    BY <1>5 DEF TableInv, UserSlots
  <2> SUFFICES ASSUME NEW i \in Slots, i > 2, sems'[i].used,
                      NEW n \in Names, sems'[i].name = n
               PROVE  /\ sems'[i].openCount \in Nat
                      /\ sems'[i].openCount < Cardinality(Pending(n)')
    BY <2>0 DEF UserSlots
  <2>1. CASE i = h
    BY <1>1, <1>2, <1>3, <1>4, <1>5, <2>1
  <2>2. CASE i # h
    <3>1. sems'[i] = sems[i] /\ n # name
      BY <1>1, <1>5, <2>2 DEF TableInv, OneSlotEach
    <3>2. Pending(n)' = Pending(n)
      BY <1>2, <3>1
    <3>3. QED
      BY <3>1, <3>2 DEF TableInv, UserSlots
  <2>3. QED
    BY <2>1, <2>2
<1>8. OneSlotEach'
  BY <1>1, <1>5 DEF TableInv, OneSlotEach
<1>9. QED
  BY <1>2, <1>5, <1>6, <1>7, <1>8 DEF TableInv, TableTypes

\* sem_open of a name that is not: a free slot is taken.
LEMMA OpenNew ==
    ASSUME TableInv, NEW p \in Procs, NEW name \in Names,
           SemOpen(p, name), Holding(name) = {}
    PROVE  TableInv'
<1> DEFINE h == Min(Unused)
<1>0. /\ opens[p][name] < MaxOpens /\ Unused # {}
      /\ opens' = [opens EXCEPT ![p][name] = @ + 1]
  BY DEF SemOpen
<1>1. h \in Slots /\ h \in Int /\ h > 2 /\ ~sems[h].used
  BY <1>0, NewSlot
<1>2. /\ Cardinality(Pending(name)') = Cardinality(Pending(name)) + 1
      /\ \A other \in Names : other # name => Pending(other)' = Pending(other)
      /\ opens' \in [Procs -> [Names -> 0..MaxOpens]]
  BY <1>0, OpenPends DEF TableInv
<1>3. Cardinality(Pending(name)) \in Nat
  BY PendingFinite
<1> HIDE DEF h
<1>4. 0 \in Slots /\ sems[0] \in SemRec
  <2>1. 0 \in Slots
    BY TableAssumption DEF Slots
  <2>2. QED
    BY <2>1 DEF TableInv, TableTypes
<1>5. Inc(sems[0].openCount) \in Int
  BY <1>4 DEF Inc, SemRec
<1>6. /\ Sem(name, 0) \in SemRec /\ Sem(name, 0).used
      /\ Sem(name, 0).name = name /\ Sem(name, 0).openCount = 0
  BY DEF Sem, SemRec
<1> DEFINE t == [sems EXCEPT ![h] = Sem(name, 0)]
           s == [sems[0] EXCEPT !.openCount = Inc(sems[0].openCount)]
<1>7. sems' = [t EXCEPT ![0].openCount = Inc(@)]
  BY DEF SemOpen, h, CountedSlot
<1>8. /\ t \in [Slots -> SemRec] /\ t[h] = Sem(name, 0)
      /\ \A i \in Slots : i # h => t[i] = sems[i]
  BY <1>1, <1>6 DEF TableInv, TableTypes
<1> HIDE DEF t
<1>9. /\ sems' \in [Slots -> SemRec] /\ sems'[h] = Sem(name, 0)
      /\ \A i \in Slots : i # h /\ i # 0 => sems'[i] = sems[i]
      /\ \A i \in Slots : i # h =>
            sems'[i].used = sems[i].used /\ sems'[i].name = sems[i].name
  <2>1. s \in SemRec /\ s.used = sems[0].used /\ s.name = sems[0].name
    BY <1>4, <1>5 DEF SemRec
  <2>2. t[0] = sems[0]
    BY <1>1, <1>4, <1>8
  <2>3. sems' = [t EXCEPT ![0] = s]
    BY <1>7, <2>2
  <2> HIDE DEF s
  <2>4. /\ sems' \in [Slots -> SemRec] /\ sems'[0] = s
        /\ \A i \in Slots : i # 0 => sems'[i] = t[i]
    BY <1>4, <1>8, <2>1, <2>3
  <2>5. QED
    BY <1>1, <1>8, <2>1, <2>4
<1>10. \A i \in Slots : sems[i].used => sems[i].name # name
  BY DEF Holding
<1>11. KernelSlots'
  BY <1>1, <1>9 DEF TableInv, KernelSlots
<1>12. UserSlots'
  <2>0. \A i \in Slots : i > 2 /\ sems'[i].used => sems'[i].name \in Names
    BY <1>6, <1>9 DEF TableInv, UserSlots
  <2> SUFFICES ASSUME NEW i \in Slots, i > 2, sems'[i].used,
                      NEW n \in Names, sems'[i].name = n
               PROVE  /\ sems'[i].openCount \in Nat
                      /\ sems'[i].openCount < Cardinality(Pending(n)')
    BY <2>0 DEF UserSlots
  <2>1. CASE i = h
    <3>1. n = name /\ sems'[i].openCount = 0
      BY <1>6, <1>9, <2>1
    <3>2. QED
      BY <1>2, <1>3, <3>1
  <2>2. CASE i # h
    <3>1. sems'[i] = sems[i] /\ n # name
      BY <1>9, <1>10, <2>2
    <3>2. Pending(n)' = Pending(n)
      BY <1>2, <3>1
    <3>3. QED
      BY <3>1, <3>2 DEF TableInv, UserSlots
  <2>3. QED
    BY <2>1, <2>2
<1>13. OneSlotEach'
  BY <1>1, <1>6, <1>9, <1>10 DEF TableInv, OneSlotEach
<1>14. QED
  BY <1>2, <1>9, <1>11, <1>12, <1>13 DEF TableInv, TableTypes

\* sem_close of a name that is in the table: the slot that goes on counting
\* still counts less than what is pending.
LEMMA CloseFound ==
    ASSUME TableInv, NEW p \in Procs, NEW name \in Names,
           SemClose(p, name), Holding(name) # {}
    PROVE  TableInv'
<1> DEFINE h == Min(Holding(name))
           c == sems[h].openCount - 1
<1>0. /\ opens[p][name] > 0
      /\ opens' = [opens EXCEPT ![p][name] = @ - 1]
      /\ sems' = [sems EXCEPT ![h] = Closed(sems[h])]
  BY DEF SemClose
<1>1. /\ h \in Slots /\ h \in Int /\ h > 2
      /\ sems[h].used /\ sems[h].name = name /\ sems[h] \in SemRec
      /\ sems[h].openCount \in Nat
      /\ sems[h].openCount < Cardinality(Pending(name))
  BY FoundSlot
<1>2. /\ Cardinality(Pending(name)') = Cardinality(Pending(name)) - 1
      /\ \A other \in Names : other # name => Pending(other)' = Pending(other)
      /\ opens' \in [Procs -> [Names -> 0..MaxOpens]]
  BY <1>0, ClosePends DEF TableInv
<1>3. Cardinality(Pending(name)) \in Nat
  BY PendingFinite
<1> HIDE DEF h
<1>4. /\ Closed(sems[h]) \in SemRec
      /\ Closed(sems[h]).used =>
            /\ Closed(sems[h]).name = name
            /\ Closed(sems[h]).openCount = c /\ c \in Nat
  <2>1. CASE c < 1
    <3>1. Closed(sems[h]) = [used |-> FALSE, name |-> NoName, openCount |-> c]
      BY <2>1 DEF Closed, FreeSem
    <3>2. c \in Int
      BY <1>1
    <3> HIDE DEF c
    <3>3. QED
      BY <3>1, <3>2 DEF SemRec
  <2>2. CASE ~(c < 1)
    BY <1>1, <2>2 DEF Closed, SemRec
  <2>3. QED
    BY <2>1, <2>2
<1>5. /\ sems' \in [Slots -> SemRec] /\ sems'[h] = Closed(sems[h])
      /\ \A i \in Slots : i # h => sems'[i] = sems[i]
  BY <1>0, <1>1, <1>4 DEF TableInv, TableTypes
<1>6. KernelSlots'
  BY <1>1, <1>5 DEF TableInv, KernelSlots
<1>7. UserSlots'
  <2>0. \A i \in Slots : i > 2 /\ sems'[i].used => sems'[i].name \in Names
    BY <1>4, <1>5 DEF TableInv, UserSlots
  <2> SUFFICES ASSUME NEW i \in Slots, i > 2, sems'[i].used,
                      NEW n \in Names, sems'[i].name = n
               PROVE  /\ sems'[i].openCount \in Nat
                      /\ sems'[i].openCount < Cardinality(Pending(n)')
    BY <2>0 DEF UserSlots
  <2>1. CASE i = h
    BY <1>1, <1>2, <1>3, <1>4, <1>5, <2>1
  <2>2. CASE i # h
    <3>1. sems'[i] = sems[i] /\ n # name
      BY <1>1, <1>5, <2>2 DEF TableInv, OneSlotEach
    <3>2. Pending(n)' = Pending(n)
      BY <1>2, <3>1
    <3>3. QED
      BY <3>1, <3>2 DEF TableInv, UserSlots
  <2>3. QED
    BY <2>1, <2>2
<1>8. OneSlotEach'
  BY <1>1, <1>4, <1>5 DEF TableInv, OneSlotEach
<1>9. QED
  BY <1>2, <1>5, <1>6, <1>7, <1>8 DEF TableInv, TableTypes

\* sem_close of a name that is not: only what is pending changes.
LEMMA CloseMissing ==
    ASSUME TableInv, NEW p \in Procs, NEW name \in Names,
           SemClose(p, name), Holding(name) = {}
    PROVE  TableInv'
<1>1. /\ opens[p][name] > 0 /\ sems' = sems
      /\ opens' = [opens EXCEPT ![p][name] = @ - 1]
  BY DEF SemClose
<1>2. /\ \A other \in Names : other # name => Pending(other)' = Pending(other)
      /\ opens' \in [Procs -> [Names -> 0..MaxOpens]]
  BY <1>1, ClosePends DEF TableInv
<1>3. \A i \in Slots : sems[i].used => sems[i].name # name
  BY DEF Holding
<1>4. UserSlots'
  <2> SUFFICES ASSUME NEW i \in Slots, i > 2, sems[i].used,
                      NEW n \in Names, sems[i].name = n
               PROVE  /\ sems[i].openCount \in Nat
                      /\ sems[i].openCount < Cardinality(Pending(n)')
    BY <1>1 DEF TableInv, UserSlots
  <2>1. Pending(n)' = Pending(n)
    BY <1>2, <1>3
  <2>2. QED
    BY <2>1 DEF TableInv, UserSlots
<1>5. QED
  BY <1>1, <1>2, <1>4 DEF TableInv, TableTypes, KernelSlots, OneSlotEach

\* Every step of the table keeps the invariant.
LEMMA TableStep == TableInv /\ [Next]_tableVars => TableInv'
<1> SUFFICES ASSUME TableInv, [Next]_tableVars PROVE TableInv'
  OBVIOUS
<1>1. ASSUME NEW p \in Procs, NEW name \in Names, SemOpen(p, name)
      PROVE  TableInv'
  <2>1. CASE Holding(name) = {}
    BY <1>1, <2>1, OpenNew
  <2>2. CASE Holding(name) # {}
    BY <1>1, <2>2, OpenFound DEF SemOpen
  <2>3. QED
    BY <2>1, <2>2
<1>2. ASSUME NEW p \in Procs, NEW name \in Names, SemClose(p, name)
      PROVE  TableInv'
  BY <1>2, CloseFound, CloseMissing
<1>3. CASE UNCHANGED tableVars
  BY <1>3 DEF tableVars, TableInv, TableTypes, KernelSlots, UserSlots,
              OneSlotEach, Pending
<1>4. QED
  BY <1>1, <1>2, <1>3 DEF Next

-----------------------------------------------------------------------------
(***************************************************************************)
(* sem_open never gives a name a second slot, so sem_wait and sem_post of  *)
(* one name always meet on one semaphore, however opens and closes fall.   *)
(***************************************************************************)
THEOREM NamesStayUnique == Spec => []NamesUnique
<1>1. TableInv => NamesUnique
  <2> SUFFICES ASSUME TableInv, NEW name \in Names \cup KernelNames
               PROVE  Cardinality(Holding(name)) <= 1
    BY DEF NamesUnique
  <2>1. CASE Holding(name) = {}
    BY <2>1, FS_EmptySet
  <2>2. CASE Holding(name) # {}
    <3>1. PICK i : i \in Holding(name)
      BY <2>2
    <3>2. Holding(name) = {i}
      BY <3>1 DEF Holding, TableInv, OneSlotEach
    <3>3. Cardinality({i}) = 1
      BY FS_Singleton, Zenon
    <3>4. QED
      BY <3>2, <3>3
  <2>3. QED
    BY <2>1, <2>2
<1>2. QED
  BY <1>1, TableInit, TableStep, PTL DEF Spec

(***************************************************************************)
(* When everyone who opened a name has closed it, sem_close has freed its  *)
(* slot: the table does not fill up, although sem_open counts the first    *)
(* open of every name in slot 0.                                           *)
(***************************************************************************)
THEOREM SlotsNeverLeak == Spec => []NoLeakedSlot
<1>1. TableInv => NoLeakedSlot
  <2> SUFFICES ASSUME TableInv, NEW name \in Names,
                      \A p \in Procs : opens[p][name] = 0
               PROVE  Holding(name) = {}
    BY DEF NoLeakedSlot
  <2>1. Pending(name) = {}
    BY DEF Pending
  <2>2. Cardinality(Pending(name)) = 0
    BY <2>1, FS_EmptySet
  <2>3. QED
    BY <2>2, FoundSlot
<1>2. QED
  BY <1>1, TableInit, TableStep, PTL DEF Spec
=============================================================================
