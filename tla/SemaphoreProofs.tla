-------------------------- MODULE SemaphoreProofs --------------------------
(***************************************************************************)
(* What Semaphore guarantees for any number of processes, any initial      *)
(* value and any length of the array of blocked processes, and that the    *)
(* kernel's own scheduler, RoundRobinSem, only does what Semaphore allows. *)
(***************************************************************************)
EXTENDS RoundRobinSem, MCSemaphore, FiniteSetTheorems, TLAPS

(***************************************************************************)
(* The strengthening behind type correctness.  value is unsigned: it stays *)
(* a natural number only because the process between the test of line 43   *)
(* and the store of line 73 owns the lock, so nobody else decrements.      *)
(***************************************************************************)
DecrementSafe ==
    \A p \in Procs : /\ pc[p] = "load" => value > 0
                     /\ pc[p] = "store" => loaded[p] > 0

LockInv == TypeOK /\ LockExclusive /\ DecrementSafe

\* A semaphore starts with a free lock and nobody inside the kernel.
LEMMA LockInit == Init => LockInv
  BY SemAssumption DEF Init, LockInv, TypeOK, LockExclusive, DecrementSafe,
     LockLabels, Labels

\* No step of the running process, and no switch, breaks the lock protocol.
LEMMA LockStep == LockInv /\ [Next]_vars => LockInv'
<1> SUFFICES ASSUME LockInv, [Next]_vars PROVE LockInv'
  OBVIOUS
<1> USE SemAssumption DEF LockInv, TypeOK, LockExclusive, DecrementSafe,
        LockLabels, Labels, Goto, semVars
<1>1. CASE WaitCall(current)
  BY <1>1 DEF WaitCall
<1>2. CASE Xchg(current)
  BY <1>2 DEF Xchg
<1>3. CASE Check(current)
  BY <1>3 DEF Check
<1>4. CASE Release(current)
  BY <1>4 DEF Release
<1>5. CASE Enqueue(current)
  <2>1. blocked' \in [0..(MaxProc - 1) -> Procs \cup {NoPid}]
    BY <1>5 DEF Enqueue, Appended
  <2>2. LockExclusive'
    BY <1>5 DEF Enqueue, RecheckHolds
  <2>3. DecrementSafe'
    BY <1>5 DEF Enqueue, RecheckHolds
  <2>4. /\ blockedLast' \in Nat
        /\ lock' \in {0, 1}
        /\ pc' \in [Procs -> Labels]
    <3>1. CASE RecheckHolds
      BY <1>5, <3>1 DEF Enqueue
    <3>2. CASE ~RecheckHolds
      <4>1. /\ blockedLast' = blockedLast + 1
            /\ lock' = lock
            /\ pc' = [pc EXCEPT ![current] = "force"]
        BY <1>5, <3>2 DEF Enqueue
      <4>2. blockedLast \in Nat /\ lock \in {0, 1} /\ pc \in [Procs -> Labels]
        OBVIOUS
      <4>3. QED
        BY <4>1, <4>2
    <3>3. QED
      BY <3>1, <3>2
  <2>5. UNCHANGED <<value, blockedFirst, current, intFlag, loaded, holds>>
    BY <1>5 DEF Enqueue
  <2>6. QED
    BY <2>1, <2>2, <2>3, <2>4, <2>5
<1>6. CASE Load(current)
  BY <1>6 DEF Load
<1>7. CASE Store(current)
  BY <1>7 DEF Store
<1>8. CASE Unlock(current)
  BY <1>8 DEF Unlock
<1>9. CASE Post(current)
  BY <1>9 DEF Post
<1>10. ASSUME NEW q \in Procs, ForceScheduler(current, q) PROVE LockInv'
  BY <1>10 DEF ForceScheduler
<1>11. ASSUME NEW q \in Procs, Tick(current, q) PROVE LockInv'
  BY <1>11 DEF Tick
<1>12. CASE UNCHANGED vars
  BY <1>12 DEF vars
<1>13. QED
  BY <1>1, <1>2, <1>3, <1>4, <1>5, <1>6, <1>7, <1>8, <1>9, <1>10, <1>11,
     <1>12 DEF Next, Step

\* Type correctness: in particular the unsigned value never goes below zero
\* (semaphore.c:73), for every number of processes and every initial value.
THEOREM TypeCorrect == Spec => []TypeOK
<1>1. Spec => []LockInv
  BY LockInit, LockStep, PTL DEF Spec
<1>2. LockInv => TypeOK
  BY DEF LockInv
<1>3. QED
  BY <1>1, <1>2, PTL

\* At most one process is between taking and dropping the lock of sem_wait,
\* and the lock word says so (semaphore.c:40-41).
THEOREM LockIsExclusive == Spec => []LockExclusive
<1>1. Spec => []LockInv
  BY LockInit, LockStep, PTL DEF Spec
<1>2. LockInv => LockExclusive
  BY DEF LockInv
<1>3. QED
  BY <1>1, <1>2, PTL

-----------------------------------------------------------------------------
(***************************************************************************)
(* A semaphore opened with 1 and only posted by the process that waited.   *)
(* The token is in exactly one place: in value, or with one process.  A    *)
(* process between the test and the store still finds it in value, since   *)
(* only the holder of the token could post meanwhile.                      *)
(***************************************************************************)
TokenInPlace ==
    \A p \in Procs :
        /\ holds[p] \in {0, 1}
        /\ holds[p] = 1 => pc[p] \in {"user", "unlock"}
        /\ pc[p] \in {"load", "store"} => value = 1
        /\ pc[p] = "store" => loaded[p] = 1

MutexInv == LockInv /\ TokenInPlace /\ TokenKept /\ MutualExclusion

\* The mutex starts with its token in value.
LEMMA MutexInit == ASSUME InitValue = 1 PROVE Init => MutexInv
  BY LockInit, SemAssumption DEF Init, MutexInv, TokenInPlace, TokenKept,
     MutualExclusion, LockInv, TypeOK

\* No step moves the token to a second place or drops it.
LEMMA MutexStep ==
    ASSUME Producers = {} PROVE MutexInv /\ [Next]_vars => MutexInv'
<1> SUFFICES ASSUME MutexInv, [Next]_vars PROVE MutexInv'
  OBVIOUS
<1>0. LockInv'
  BY LockStep DEF MutexInv
<1> USE <1>0, SemAssumption DEF MutexInv, LockInv, TypeOK, LockExclusive,
        LockLabels, TokenInPlace, TokenKept, MutualExclusion, Goto, semVars
<1>1. CASE WaitCall(current)
  BY <1>1 DEF WaitCall
<1>2. CASE Xchg(current)
  BY <1>2 DEF Xchg
<1>3. CASE Check(current)
  BY <1>3 DEF Check
<1>4. CASE Release(current)
  BY <1>4 DEF Release
<1>5. CASE Enqueue(current)
  BY <1>5 DEF Enqueue, RecheckHolds
<1>6. CASE Load(current)
  BY <1>6 DEF Load
<1>7. CASE Store(current)
  BY <1>7 DEF Store
<1>8. CASE Unlock(current)
  BY <1>8 DEF Unlock
<1>9. CASE Post(current)
  BY <1>9 DEF Post
<1>10. ASSUME NEW q \in Procs, ForceScheduler(current, q) PROVE MutexInv'
  BY <1>10 DEF ForceScheduler
<1>11. ASSUME NEW q \in Procs, Tick(current, q) PROVE MutexInv'
  BY <1>11 DEF Tick
<1>12. CASE UNCHANGED vars
  BY <1>12 DEF vars
<1>13. QED
  BY <1>1, <1>2, <1>3, <1>4, <1>5, <1>6, <1>7, <1>8, <1>9, <1>10, <1>11,
     <1>12 DEF Next, Step

\* Used as a mutex, sem_wait and sem_post admit one process at a time.
THEOREM MutexExcludes ==
    ASSUME InitValue = 1, Producers = {} PROVE Spec => []MutualExclusion
<1>1. Spec => []MutexInv
  BY MutexInit, MutexStep, PTL DEF Spec
<1>2. MutexInv => MutualExclusion
  BY DEF MutexInv
<1>3. QED
  BY <1>1, <1>2, PTL

\* Used as a mutex, no post is lost to the unprotected decrement of line 73.
THEOREM MutexKeepsToken ==
    ASSUME InitValue = 1, Producers = {} PROVE Spec => []TokenKept
<1>1. Spec => []MutexInv
  BY MutexInit, MutexStep, PTL DEF Spec
<1>2. MutexInv => TokenKept
  BY DEF MutexInv
<1>3. QED
  BY <1>1, <1>2, PTL

-----------------------------------------------------------------------------
\* The scheduler switches between the processes of the ring only.
LEMMA RRStepIsStep ==
    ASSUME current \in Procs, [RRNext]_rrVars PROVE [Next]_vars
<1>1. NextProc[current] \in Procs
  BY RRAssumption
<1>2. CASE RRTick
  BY <1>2 DEF RRTick, Next
<1>3. CASE RRForce
  BY <1>3 DEF RRForce, Next
<1>4. CASE RRYield
  BY <1>1, <1>4 DEF RRYield, Next
<1>5. CASE RREnqueue \/ RRPost \/ RRStep
  BY <1>5 DEF RREnqueue, RRPost, RRStep, Next, Step
<1>6. CASE UNCHANGED rrVars
  BY <1>6 DEF rrVars
<1>7. QED
  BY <1>2, <1>3, <1>4, <1>5, <1>6 DEF RRNext

(***************************************************************************)
(* Under scheduler() with its quantums, _force_scheduler and yields, and   *)
(* with ready_process called on whatever pid sem_post pops, the semaphore  *)
(* takes only steps of Semaphore: what is proved there for any choice of   *)
(* the next process holds of the real one.                                 *)
(***************************************************************************)
THEOREM SchedulerAllowed == RRSpec => Spec
<1>1. RRInit => Init /\ LockInv
  BY LockInit DEF RRInit
<1>2. LockInv /\ [RRNext]_rrVars => [Next]_vars
  BY RRStepIsStep DEF LockInv, TypeOK
<1>3. LockInv /\ [RRNext]_rrVars => LockInv'
  BY <1>2, LockStep
<1>4. QED
  BY <1>1, <1>2, <1>3, PTL DEF RRSpec, Spec

\* With the kernel's scheduler a mutex admits one process at a time.
THEOREM ScheduledMutexExcludes ==
    ASSUME InitValue = 1, Producers = {} PROVE RRSpec => []MutualExclusion
  BY SchedulerAllowed, MutexExcludes, PTL

\* With the kernel's scheduler no post to a mutex is lost.
THEOREM ScheduledMutexKeepsToken ==
    ASSUME InitValue = 1, Producers = {} PROVE RRSpec => []TokenKept
  BY SchedulerAllowed, MutexKeepsToken, PTL

(***************************************************************************)
(* At most the process that has the CPU is RUNNING: ready_process may take *)
(* that from it, and nothing gives it to another.                          *)
(***************************************************************************)
OnlyCurrentRuns ==
    /\ state \in [Procs -> {"READY", "RUNNING"}]
    /\ \A p \in Procs : state[p] = "RUNNING" => p = current

\* scheduler() and ready_process keep one process RUNNING at most.
THEOREM OneProcessRuns == RRSpec => []OnlyCurrentRuns
<1> DEFINE Inv == LockInv /\ OnlyCurrentRuns
<1>1. RRInit => Inv
  BY LockInit DEF RRInit, OnlyCurrentRuns
<1>2. Inv /\ [RRNext]_rrVars => Inv'
  <2> SUFFICES ASSUME Inv, [RRNext]_rrVars PROVE Inv'
    OBVIOUS
  <2>0. current \in Procs /\ NextProc[current] \in Procs
    BY RRAssumption DEF LockInv, TypeOK
  <2>1. LockInv'
    BY <2>0, RRStepIsStep, LockStep
  <2> SUFFICES OnlyCurrentRuns'
    BY <2>1
  <2>2. ASSUME NEW q \in Procs, Scheduler(current, q), current' = q
        PROVE  OnlyCurrentRuns'
    BY <2>0, <2>2 DEF Scheduler, SwitchTo, OnlyCurrentRuns
  <2>3. CASE RRTick
    BY <2>2, <2>3 DEF RRTick, Tick, vars
  <2>4. CASE RRForce
    BY <2>2, <2>4 DEF RRForce, ForceScheduler
  <2>5. CASE RRYield
    BY <2>0, <2>5 DEF RRYield, Tick, SwitchTo, OnlyCurrentRuns
  <2>6. CASE RREnqueue
    BY <2>6 DEF RREnqueue, Enqueue, ReadyProcess, OnlyCurrentRuns
  <2>7. CASE RRPost
    BY <2>7 DEF RRPost, Post, ReadyProcess, OnlyCurrentRuns
  <2>8. CASE RRStep
    BY <2>8 DEF RRStep, WaitCall, Xchg, Check, Release, Load, Store, Unlock,
                OnlyCurrentRuns
  <2>9. CASE UNCHANGED rrVars
    BY <2>9 DEF rrVars, vars, OnlyCurrentRuns
  <2>10. QED
    BY <2>3, <2>4, <2>5, <2>6, <2>7, <2>8, <2>9 DEF RRNext
<1>3. QED
  BY <1>1, <1>2, PTL DEF RRSpec

-----------------------------------------------------------------------------
(***************************************************************************)
(* A counting semaphore is not granted more often than it was opened and   *)
(* posted for.  The sum over the processes is taken in the order in which  *)
(* CHOOSE picks them; the lemmas show that the order does not matter.      *)
(***************************************************************************)
Pick(s) == CHOOSE x \in s : TRUE

\* f gives the sum of h over each set of the family D.
Sums(f, h, D) ==
    /\ f \in [D -> Int]
    /\ \A s \in D : f[s] = IF s = {} THEN 0
                           ELSE h[Pick(s)] + f[s \ {Pick(s)}]

SumOf(h) ==
    CHOOSE f : f = [s \in SUBSET Procs |->
                      IF s = {} THEN 0 ELSE h[Pick(s)] + f[s \ {Pick(s)}]]

Small(n) == {s \in SUBSET Procs : Cardinality(s) <= n}

\* Every non-empty set of naturals has a least element.
LEMMA LeastNat ==
    ASSUME NEW T \in SUBSET Nat, T # {}
    PROVE  \E x \in T : \A y \in T : x <= y
<1>1. PICK R : IsWellFoundedOn(R, Nat) /\ R = OpToRel(<, Nat)
  BY NatLessThanWellFounded, Zenon
<1>2. R = {ss \in Nat \X Nat : ss[1] < ss[2]}
  BY <1>1, Zenon DEF OpToRel
<1>3. PICK x \in T : \A y \in T : ~(<<y, x>> \in R)
  BY <1>1, WFMin
<1>4. \A u, v \in Nat : <<u, v>> \in R <=> u < v
  BY <1>2
<1>5. \A y \in T : x \in Nat /\ y \in Nat /\ ~(y < x)
  BY <1>3, <1>4
<1>6. \A y \in T : x <= y
  BY <1>5
<1>7. QED
  BY <1>6

\* Sets of processes are finite, and have one process less without one.
LEMMA OneLess ==
    ASSUME IsFiniteSet(Procs), NEW s \in SUBSET Procs, NEW p \in s
    PROVE  /\ s \ {p} \in SUBSET Procs
           /\ Cardinality(s) \in Nat /\ Cardinality(s) > 0
           /\ Cardinality(s \ {p}) = Cardinality(s) - 1
<1>1. IsFiniteSet(s)
  BY FS_Subset
<1>2. Cardinality(s \ {p}) = Cardinality(s) - 1 /\ IsFiniteSet(s \ {p})
  BY <1>1, FS_RemoveElement
<1>3. Cardinality(s) \in Nat /\ Cardinality(s \ {p}) \in Nat
  BY <1>1, <1>2, FS_CardinalityType
<1>4. QED
  BY <1>2, <1>3

\* The sums over sets of at most n processes exist, for every n.
LEMMA SumsExist ==
    ASSUME IsFiniteSet(Procs), NEW h \in [Procs -> Int], NEW n \in Nat
    PROVE  \E f : Sums(f, h, Small(n))
<1> DEFINE P(m) == \E f : Sums(f, h, Small(m))
           T == {m \in Nat : ~P(m)}
<1> SUFFICES ASSUME T # {} PROVE FALSE
  OBVIOUS
<1>1. T \in SUBSET Nat
  OBVIOUS
<1>2. PICK m \in T : \A y \in T : m <= y
  BY <1>1, LeastNat
<1>3. m \in Nat /\ ~P(m)
  OBVIOUS
<1>4. \A s \in SUBSET Procs : s # {} => Pick(s) \in s /\ Pick(s) \in Procs
  BY DEF Pick
<1>5. CASE m = 0
  <2>1. \A s \in Small(m) : s = {}
    <3> SUFFICES ASSUME NEW s \in Small(m), s # {} PROVE FALSE
      OBVIOUS
    <3>1. s \in SUBSET Procs /\ Cardinality(s) <= 0
      BY <1>5 DEF Small
    <3>2. PICK p \in s : TRUE
      OBVIOUS
    <3>3. Cardinality(s) \in Nat /\ Cardinality(s) > 0
      BY <3>1, <3>2, OneLess
    <3>4. QED
      BY <3>1, <3>3
  <2> DEFINE f == [s \in Small(m) |-> 0]
  <2>2. Sums(f, h, Small(m))
    BY <2>1 DEF Sums
  <2>3. QED
    BY <1>3, <2>2
<1>6. CASE m # 0
  <2>1. m - 1 \in Nat /\ ~(m <= m - 1)
    BY <1>3, <1>6
  <2>2. PICK f : Sums(f, h, Small(m - 1))
    BY <1>2, <2>1
  <2> DEFINE e == [s \in Small(m) |->
                     IF s = {} THEN 0 ELSE h[Pick(s)] + f[s \ {Pick(s)}]]
  <2>3. \A s \in Small(m) : s # {} => s \ {Pick(s)} \in Small(m - 1)
    <3> SUFFICES ASSUME NEW s \in Small(m), s # {}
                 PROVE  s \ {Pick(s)} \in Small(m - 1)
      OBVIOUS
    <3>1. s \in SUBSET Procs /\ Cardinality(s) <= m /\ Pick(s) \in s
      BY <1>4 DEF Small
    <3>2. /\ s \ {Pick(s)} \in SUBSET Procs /\ Cardinality(s) \in Nat
          /\ Cardinality(s \ {Pick(s)}) = Cardinality(s) - 1
      BY <3>1, OneLess
    <3>3. Cardinality(s \ {Pick(s)}) <= m - 1
      BY <1>3, <3>1, <3>2
    <3>4. QED
      BY <3>2, <3>3 DEF Small
  <2>4. Small(m - 1) \subseteq Small(m) /\ Small(m) \subseteq SUBSET Procs
    <3>1. \A s \in Small(m - 1) : Cardinality(s) \in Nat
      <4> SUFFICES ASSUME NEW s \in Small(m - 1) PROVE Cardinality(s) \in Nat
        OBVIOUS
      <4>1. IsFiniteSet(s)
        BY FS_Subset DEF Small
      <4>2. QED
        BY <4>1, FS_CardinalityType
    <3>2. \A s \in Small(m - 1) : s \in SUBSET Procs /\ Cardinality(s) <= m
      <4> SUFFICES ASSUME NEW s \in Small(m - 1)
                   PROVE  s \in SUBSET Procs /\ Cardinality(s) <= m
        OBVIOUS
      <4>1. s \in SUBSET Procs /\ Cardinality(s) <= m - 1
        BY DEF Small
      <4>2. Cardinality(s) \in Nat
        BY <3>1
      <4>3. QED
        BY <1>3, <4>1, <4>2
    <3>3. QED
      BY <3>2 DEF Small
  <2>5. /\ f \in [Small(m - 1) -> Int]
        /\ \A s \in Small(m - 1) :
              f[s] = IF s = {} THEN 0 ELSE h[Pick(s)] + f[s \ {Pick(s)}]
    BY <2>2 DEF Sums
  <2>6. \A s \in Small(m - 1) : e[s] = f[s]
    BY <2>4, <2>5
  <2>7. e \in [Small(m) -> Int]
    BY <1>4, <2>3, <2>4, <2>5
  <2>8. \A s \in Small(m) :
           e[s] = IF s = {} THEN 0 ELSE h[Pick(s)] + e[s \ {Pick(s)}]
    BY <2>3, <2>6
  <2> HIDE DEF e
  <2>9. Sums(e, h, Small(m))
    BY <2>7, <2>8 DEF Sums
  <2>10. QED
    BY <1>3, <2>9
<1>7. QED
  BY <1>5, <1>6

\* What the recursive definition of the sum gives.
LEMMA SumOfIs ==
    ASSUME IsFiniteSet(Procs), NEW h \in [Procs -> Int]
    PROVE  Sums(SumOf(h), h, SUBSET Procs)
<1> DEFINE n == Cardinality(Procs)
<1>1. n \in Nat
  BY FS_CardinalityType
<1>2. Small(n) = SUBSET Procs
  <2>1. \A s \in SUBSET Procs : Cardinality(s) <= n
    BY FS_Subset
  <2>2. QED
    BY <2>1 DEF Small
<1>3. PICK f : Sums(f, h, SUBSET Procs)
  BY <1>1, <1>2, SumsExist
<1>4. f = [s \in SUBSET Procs |->
             IF s = {} THEN 0 ELSE h[Pick(s)] + f[s \ {Pick(s)}]]
  BY <1>3 DEF Sums
<1> DEFINE e == SumOf(h)
<1>5. e = [s \in SUBSET Procs |->
             IF s = {} THEN 0 ELSE h[Pick(s)] + e[s \ {Pick(s)}]]
  BY <1>4, Zenon DEF SumOf
<1> HIDE DEF e
<1> DEFINE Q == {k \in Nat : \E s \in SUBSET Procs :
                               Cardinality(s) = k /\ e[s] # f[s]}
<1>6. Q = {}
  <2> SUFFICES ASSUME Q # {} PROVE FALSE
    OBVIOUS
  <2>1. Q \in SUBSET Nat
    OBVIOUS
  <2>2. PICK k \in Q : \A y \in Q : k <= y
    BY <2>1, LeastNat
  <2>3. PICK s \in SUBSET Procs : Cardinality(s) = k /\ e[s] # f[s]
    OBVIOUS
  <2>4. e[s] = (IF s = {} THEN 0 ELSE h[Pick(s)] + e[s \ {Pick(s)}])
    BY <1>5
  <2>5. f[s] = (IF s = {} THEN 0 ELSE h[Pick(s)] + f[s \ {Pick(s)}])
    BY <1>3 DEF Sums
  <2>6. s # {} /\ e[s \ {Pick(s)}] # f[s \ {Pick(s)}]
    BY <2>3, <2>4, <2>5
  <2>7. Pick(s) \in s
    BY <2>6 DEF Pick
  <2>8. /\ s \ {Pick(s)} \in SUBSET Procs /\ k \in Nat /\ k > 0
        /\ Cardinality(s \ {Pick(s)}) = k - 1
    BY <2>3, <2>7, OneLess
  <2>9. k - 1 \in Nat /\ ~(k <= k - 1)
    BY <2>8
  <2>10. k - 1 \in Q
    BY <2>6, <2>8, <2>9
  <2>11. QED
    BY <2>2, <2>9, <2>10
<1>7. \A s \in SUBSET Procs : e[s] = f[s]
  <2> SUFFICES ASSUME NEW s \in SUBSET Procs, e[s] # f[s] PROVE FALSE
    OBVIOUS
  <2>1. IsFiniteSet(s)
    BY FS_Subset
  <2>2. Cardinality(s) \in Nat
    BY <2>1, FS_CardinalityType
  <2>3. QED
    BY <1>6, <2>2
<1>8. f \in [SUBSET Procs -> Int]
  BY <1>3 DEF Sums
<1>9. e \in [SUBSET Procs -> Int]
  <2>1. e = [s \in SUBSET Procs |-> e[s]]
    BY <1>5
  <2>2. \A s \in SUBSET Procs : e[s] \in Int
    BY <1>7, <1>8
  <2>3. QED
    BY <2>1, <2>2
<1>10. QED
  BY <1>5, <1>9 DEF Sums, e

\* The sum does not depend on the order: any process may be taken out first.
LEMMA SumTakesOut ==
    ASSUME IsFiniteSet(Procs), NEW h \in [Procs -> Int],
           NEW t \in SUBSET Procs, NEW r \in t
    PROVE  SumOf(h)[t] = h[r] + SumOf(h)[t \ {r}]
<1> DEFINE e == SumOf(h)
           Q == {k \in Nat : \E s \in SUBSET Procs : \E p \in s :
                    Cardinality(s) = k /\ e[s] # h[p] + e[s \ {p}]}
<1>1. /\ e \in [SUBSET Procs -> Int]
      /\ \A s \in SUBSET Procs :
            e[s] = IF s = {} THEN 0 ELSE h[Pick(s)] + e[s \ {Pick(s)}]
  BY SumOfIs DEF Sums
<1> HIDE DEF e
<1>2. SUFFICES Q = {}
  <2>1. Cardinality(t) \in Nat
    BY OneLess
  <2>2. QED
    BY <1>2, <2>1 DEF e
<1>3. SUFFICES ASSUME Q # {} PROVE FALSE
  OBVIOUS
<1>4. Q \in SUBSET Nat
  OBVIOUS
<1>5. PICK k \in Q : \A y \in Q : k <= y
  BY <1>3, <1>4, LeastNat
<1>6. PICK s \in SUBSET Procs : \E p \in s :
         Cardinality(s) = k /\ e[s] # h[p] + e[s \ {p}]
  OBVIOUS
<1>7. PICK p \in s : Cardinality(s) = k /\ e[s] # h[p] + e[s \ {p}]
  BY <1>6
<1> DEFINE x == Pick(s)
<1>8. x \in s
  BY DEF Pick
<1>9. e[s] = h[x] + e[s \ {x}]
  BY <1>1, <1>7
<1> HIDE DEF x
<1>10. x # p
  BY <1>7, <1>9
<1>11. /\ s \ {x} \in SUBSET Procs /\ s \ {p} \in SUBSET Procs
       /\ k \in Nat /\ k > 0
       /\ Cardinality(s \ {x}) = k - 1 /\ Cardinality(s \ {p}) = k - 1
  BY <1>7, <1>8, OneLess
<1> HIDE DEF Q
<1>12. k - 1 \in Nat /\ k - 1 \notin Q
  BY <1>5, <1>11
<1>13. \A u \in SUBSET Procs : \A q \in u :
          Cardinality(u) = k - 1 => e[u] = h[q] + e[u \ {q}]
  BY <1>12 DEF Q
<1>14. p \in s \ {x} /\ x \in s \ {p}
  BY <1>8, <1>10
<1>15. e[s \ {x}] = h[p] + e[(s \ {x}) \ {p}]
  BY <1>11, <1>13, <1>14
<1>16. e[s \ {p}] = h[x] + e[(s \ {p}) \ {x}]
  BY <1>11, <1>13, <1>14
<1>17. (s \ {x}) \ {p} = (s \ {p}) \ {x}
  OBVIOUS
<1>18. h[p] \in Int /\ h[x] \in Int /\ e[(s \ {p}) \ {x}] \in Int
  BY <1>1, <1>8
<1>19. e[s] = h[p] + e[s \ {p}]
  <2>1. PICK c \in Int : c = e[(s \ {p}) \ {x}]
    BY <1>18
  <2>2. e[s \ {x}] = h[p] + c
    BY <1>15, <1>17, <2>1
  <2>3. e[s \ {p}] = h[x] + c
    BY <1>16, <2>1
  <2>4. \A i, j, m \in Int : i + (j + m) = j + (i + m)
    OBVIOUS
  <2>5. h[x] + (h[p] + c) = h[p] + (h[x] + c)
    BY <1>18, <2>4
  <2>6. QED
    BY <1>9, <2>2, <2>3, <2>5, Zenon
<1>20. QED
  BY <1>7, <1>19

\* The sum over t depends on the processes in t only.
LEMMA SumsAgree ==
    ASSUME IsFiniteSet(Procs), NEW h \in [Procs -> Int],
           NEW g \in [Procs -> Int], NEW t \in SUBSET Procs,
           \A q \in t : h[q] = g[q]
    PROVE  SumOf(h)[t] = SumOf(g)[t]
<1> DEFINE e == SumOf(h)
           f == SumOf(g)
           Q == {k \in Nat : \E s \in SUBSET t :
                    Cardinality(s) = k /\ e[s] # f[s]}
<1>1. /\ \A s \in SUBSET Procs :
            e[s] = IF s = {} THEN 0 ELSE h[Pick(s)] + e[s \ {Pick(s)}]
      /\ \A s \in SUBSET Procs :
            f[s] = IF s = {} THEN 0 ELSE g[Pick(s)] + f[s \ {Pick(s)}]
  BY SumOfIs DEF Sums
<1> HIDE DEF e, f
<1>2. SUFFICES Q = {}
  <2>1. IsFiniteSet(t)
    BY FS_Subset
  <2>2. Cardinality(t) \in Nat
    BY <2>1, FS_CardinalityType
  <2>3. QED
    BY <1>2, <2>2 DEF e, f
<1>3. SUFFICES ASSUME Q # {} PROVE FALSE
  OBVIOUS
<1>4. Q \in SUBSET Nat
  OBVIOUS
<1>5. PICK k \in Q : \A y \in Q : k <= y
  BY <1>3, <1>4, LeastNat
<1>6. PICK s \in SUBSET t : Cardinality(s) = k /\ e[s] # f[s]
  OBVIOUS
<1>7. s \in SUBSET Procs
  OBVIOUS
<1>8. s # {} /\ Pick(s) \in s
  BY <1>1, <1>6, <1>7 DEF Pick
<1> DEFINE u == s \ {Pick(s)}
<1>9. e[s] = h[Pick(s)] + e[u] /\ f[s] = g[Pick(s)] + f[u]
  BY <1>1, <1>7, <1>8
<1>10. h[Pick(s)] = g[Pick(s)]
  BY <1>8
<1>11. k \in Nat /\ k > 0 /\ Cardinality(u) = k - 1 /\ u \in SUBSET t
  BY <1>6, <1>7, <1>8, OneLess
<1> HIDE DEF u
<1>12. k - 1 \in Nat /\ (k - 1 \notin Q)
  <2> HIDE DEF Q
  <2>1. QED
    BY <1>5, <1>11
<1>13. e[u] = f[u]
  BY <1>11, <1>12
<1>14. QED
  BY <1>6, <1>9, <1>10, <1>13

\* h becomes g by adding d to the entry of p.
Adds(h, g, p, d) ==
    g[p] = h[p] + d /\ \A q \in Procs \ {p} : g[q] = h[q]

\* Changing the entry of one process by d changes the sum by d.
LEMMA SumChanges ==
    ASSUME IsFiniteSet(Procs), NEW h \in [Procs -> Int], NEW p \in Procs,
           NEW d \in Int, NEW g \in [Procs -> Int], Adds(h, g, p, d)
    PROVE  SumOf(g)[Procs] = SumOf(h)[Procs] + d
<1>1. PICK t \in SUBSET Procs : t = Procs \ {p}
  OBVIOUS
<1>2. \A q \in t : g[q] = h[q]
  BY <1>1 DEF Adds
<1>3. SumOf(g)[t] = SumOf(h)[t]
  BY <1>2, SumsAgree
<1>4. SumOf(g)[Procs] = g[p] + SumOf(g)[t]
  BY <1>1, SumTakesOut
<1>5. SumOf(h)[Procs] = h[p] + SumOf(h)[t]
  BY <1>1, SumTakesOut
<1>6. SumOf(h) \in [SUBSET Procs -> Int]
  BY SumOfIs DEF Sums
<1>7. SumOf(h)[t] \in Int /\ h[p] \in Int
  BY <1>6
<1>8. g[p] = h[p] + d
  BY DEF Adds
<1>9. QED
  BY <1>3, <1>4, <1>5, <1>7, <1>8

(***************************************************************************)
(* The value that is about to be stored is stale if others posted in the   *)
(* meantime, but never too large: it was right when it was loaded, posts   *)
(* only lower the sum of what is held, and the lock keeps waits away.      *)
(***************************************************************************)
Granted == SumOf(holds)[Procs]

GrantInv ==
    /\ LockInv
    /\ value + Granted <= InitValue
    /\ \A p \in Procs : pc[p] = "store" => loaded[p] + Granted <= InitValue

\* At first the whole value is there and nobody holds any of it.
LEMMA GrantInit == ASSUME IsFiniteSet(Procs) PROVE Init => GrantInv
<1> SUFFICES ASSUME Init PROVE GrantInv
  OBVIOUS
<1>1. LockInv
  BY LockInit
<1>2. holds \in [Procs -> Int] /\ \A p \in Procs : holds[p] = 0
  BY DEF Init
<1>3. Sums(SumOf(holds), holds, SUBSET Procs)
  BY <1>2, SumOfIs
<1>4. Granted = 0
  <2> DEFINE e == SumOf(holds)
             Q == {k \in Nat : \E s \in SUBSET Procs :
                                  Cardinality(s) = k /\ e[s] # 0}
  <2>1. \A s \in SUBSET Procs :
           e[s] = IF s = {} THEN 0 ELSE holds[Pick(s)] + e[s \ {Pick(s)}]
    BY <1>3 DEF Sums
  <2>2. e \in [SUBSET Procs -> Int]
    BY <1>3 DEF Sums
  <2> HIDE DEF e
  <2>3. ASSUME Q # {} PROVE FALSE
    <3>1. Q \in SUBSET Nat
      OBVIOUS
    <3>2. PICK k \in Q : \A y \in Q : k <= y
      BY <2>3, <3>1, LeastNat
    <3>3. PICK s \in SUBSET Procs : Cardinality(s) = k /\ e[s] # 0
      OBVIOUS
    <3>4. s # {} /\ Pick(s) \in s
      BY <2>1, <3>3 DEF Pick
    <3> DEFINE u == s \ {Pick(s)}
    <3>5. e[s] = holds[Pick(s)] + e[u]
      BY <2>1, <3>4
    <3>6. /\ u \in SUBSET Procs /\ k \in Nat /\ k > 0
          /\ Cardinality(u) = k - 1
      BY <3>3, <3>4, OneLess
    <3> HIDE DEF u
    <3>7. holds[Pick(s)] = 0 /\ e[u] \in Int
      BY <1>2, <2>2, <3>4, <3>6
    <3>8. e[u] # 0
      BY <3>3, <3>5, <3>7
    <3>9. k - 1 \in Nat
      BY <3>6
    <3>10. k - 1 \in Q
      BY <3>6, <3>8, <3>9
    <3> HIDE DEF Q
    <3>11. QED
      BY <3>2, <3>6, <3>10
  <2>4. Cardinality(Procs) \in Nat
    BY FS_CardinalityType
  <2>5. e[Procs] = 0
    BY <2>3, <2>4
  <2>6. QED
    BY <2>5 DEF e, Granted
<1>5. value = InitValue /\ \A p \in Procs : pc[p] = "user"
  BY DEF Init
<1>6. QED
  BY <1>1, <1>4, <1>5, SemAssumption DEF GrantInv

\* No step grants more than was there: a store puts back what it loaded less
\* one, whatever was posted since.
LEMMA GrantStep ==
    ASSUME IsFiniteSet(Procs), GrantInv, [Next]_vars
    PROVE  GrantInv'
<1>1. LockInv /\ LockInv'
  BY LockStep DEF GrantInv
<1>2. /\ value \in Nat /\ loaded \in [Procs -> Nat]
      /\ holds \in [Procs -> Int] /\ pc \in [Procs -> Labels]
      /\ current \in Procs /\ holds' \in [Procs -> Int]
      /\ InitValue \in Nat
      /\ \A p, q \in Procs :
            pc[p] \in LockLabels /\ pc[q] \in LockLabels => p = q
  BY <1>1, SemAssumption DEF LockInv, TypeOK, LockExclusive
<1>3. SumOf(holds) \in [SUBSET Procs -> Int]
  BY <1>2, SumOfIs DEF Sums
<1>4. Granted \in Int
  BY <1>3 DEF Granted
<1>5. /\ value + Granted <= InitValue
      /\ \A p \in Procs : pc[p] = "store" => loaded[p] + Granted <= InitValue
  BY DEF GrantInv
<1> DEFINE Good == /\ value' + Granted' <= InitValue
                   /\ \A p \in Procs : pc'[p] = "store" =>
                         loaded'[p] + Granted' <= InitValue
<1>6. SUFFICES Good
  BY <1>1, <1>6 DEF GrantInv
\* Steps that change neither the value nor what is held or loaded.
<1>7. ASSUME value' = value, loaded' = loaded, holds' = holds,
             \A p \in Procs : pc'[p] = "store" => pc[p] = "store"
      PROVE  Good
  <2>1. Granted' = Granted
    BY <1>7 DEF Granted
  <2>2. QED
    BY <1>5, <1>7, <2>1
<1>8. CASE Load(current)
  <2>1. Granted' = Granted
    BY <1>8 DEF Load, Granted
  <2>2. value' = value /\ loaded' = [loaded EXCEPT ![current] = value]
    BY <1>8 DEF Load, semVars
  <2>3. \A p \in Procs : p # current =>
           pc'[p] = pc[p] /\ loaded'[p] = loaded[p]
    BY <1>2, <1>8, <2>2 DEF Load, Goto
  <2>4. loaded'[current] = value
    BY <1>2, <2>2
  <2>5. QED
    BY <1>5, <2>1, <2>2, <2>3, <2>4
<1>9. CASE Store(current)
  <2>1. /\ pc[current] = "store" /\ value' = loaded[current] - 1
        /\ holds' = [holds EXCEPT ![current] = @ + 1]
        /\ pc' = [pc EXCEPT ![current] = "unlock"]
    BY <1>9 DEF Store, Goto
  <2>2. Adds(holds, holds', current, 1)
    BY <1>2, <2>1 DEF Adds
  <2>3. SumOf(holds')[Procs] = SumOf(holds)[Procs] + 1
    BY <1>2, <2>2, SumChanges
  <2>4. Granted' = Granted + 1
    BY <2>3 DEF Granted
  <2>5. value' + Granted' <= InitValue
    <3>1. loaded[current] \in Nat /\ loaded[current] + Granted <= InitValue
      BY <1>2, <1>5, <2>1
    <3>2. QED
      BY <1>2, <1>4, <2>1, <2>4, <3>1
  <2>6. ASSUME NEW p \in Procs, pc'[p] = "store" PROVE FALSE
    <3>1. pc'[current] = "unlock" /\ (p # current => pc'[p] = pc[p])
      BY <1>2, <2>1
    <3>2. p # current /\ pc[p] = "store"
      BY <2>6, <3>1
    <3>3. QED
      BY <1>2, <2>1, <3>2 DEF LockLabels
  <2>7. QED
    BY <2>5, <2>6
<1>10. CASE Post(current)
  <2>1. /\ value' = value + 1 /\ pc' = pc /\ loaded' = loaded
        /\ holds' = [holds EXCEPT ![current] = @ - 1]
    BY <1>10 DEF Post
  <2>2. Adds(holds, holds', current, -1)
    <3>1. holds'[current] = holds[current] - 1
      BY <1>2, <2>1
    <3>2. holds[current] - 1 = holds[current] + (-1)
      BY <1>2
    <3>3. QED
      BY <1>2, <2>1, <3>1, <3>2 DEF Adds
  <2>3. SumOf(holds')[Procs] = SumOf(holds)[Procs] + (-1)
    BY <1>2, <2>2, SumChanges
  <2>4. Granted' = Granted - 1
    BY <1>4, <2>3 DEF Granted
  <2>5. value' + Granted' <= InitValue
    BY <1>2, <1>4, <1>5, <2>1, <2>4
  <2>6. ASSUME NEW p \in Procs, pc'[p] = "store"
        PROVE  loaded'[p] + Granted' <= InitValue
    <3>1. loaded[p] \in Nat /\ loaded[p] + Granted <= InitValue
      BY <1>2, <1>5, <2>1, <2>6
    <3>2. QED
      BY <1>2, <1>4, <2>1, <2>4, <3>1
  <2>7. QED
    BY <2>5, <2>6
<1> HIDE DEF Good
<1>11. CASE WaitCall(current)
  BY <1>2, <1>7, <1>11 DEF WaitCall, Goto, semVars
<1>12. CASE Xchg(current)
  BY <1>2, <1>7, <1>12 DEF Xchg, Goto
<1>13. CASE Check(current)
  BY <1>2, <1>7, <1>13 DEF Check, Goto, semVars
<1>14. CASE Release(current)
  BY <1>2, <1>7, <1>14 DEF Release, Goto
<1>15. CASE Enqueue(current)
  BY <1>2, <1>7, <1>15 DEF Enqueue, Goto
<1>16. CASE Unlock(current)
  BY <1>2, <1>7, <1>16 DEF Unlock, Goto
<1>17. ASSUME NEW q \in Procs, ForceScheduler(current, q) PROVE Good
  BY <1>2, <1>7, <1>17 DEF ForceScheduler, Goto, semVars
<1>18. ASSUME NEW q \in Procs, Tick(current, q) PROVE Good
  BY <1>7, <1>18 DEF Tick, semVars
<1>19. CASE UNCHANGED vars
  BY <1>7, <1>19 DEF vars, semVars
<1>20. QED
  BY <1>8, <1>9, <1>10, <1>11, <1>12, <1>13, <1>14, <1>15, <1>16, <1>17,
     <1>18, <1>19 DEF Next, Step

\* The sum of the property, written as a fold, is the same sum.
LEMMA FoldIsSum ==
    MapThenSumSet(LAMBDA p : holds[p], Procs) = SumOf(holds)[Procs]
  BY Zenon DEF MapThenSumSet, MapThenFoldSet, SumOf, Pick

\* For any finite number of processes, any initial value and any producers,
\* sem_wait never returns more often than the semaphore was opened and posted
\* for, although sem_post ignores the lock and may fall between the load and
\* the store of semaphore.c:73.
THEOREM GrantsStayCovered ==
    ASSUME IsFiniteSet(Procs) PROVE Spec => []NeverOverGranted
<1>1. Init => GrantInv
  BY GrantInit
<1>2. GrantInv /\ [Next]_vars => GrantInv'
  BY GrantStep
<1>3. GrantInv => NeverOverGranted
  BY FoldIsSum DEF GrantInv, NeverOverGranted, Granted
<1>4. QED
  BY <1>1, <1>2, <1>3, PTL DEF Spec

\* sem_wait returns no more often than posts and the initial value cover when
\* the kernel's own scheduler switches, whatever the quantum.
THEOREM ScheduledGrantsStayCovered ==
    ASSUME IsFiniteSet(Procs) PROVE RRSpec => []NeverOverGranted
  BY SchedulerAllowed, GrantsStayCovered, PTL
=============================================================================
