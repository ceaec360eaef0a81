---------------------------- MODULE PhyloProofs ----------------------------
(***************************************************************************)
(* What Phylo guarantees for every MIN, INITIAL and MAX number of          *)
(* philosophers and every number of processes.                             *)
(***************************************************************************)
EXTENDS Phylo, TLAPS

Pcs == {"none", "take_fork", "wait_hungry", "put_fork", "post_think",
        "wait_think", "check"}

PhyloTypes ==
    /\ count \in MIN..MAX
    /\ state \in [Ids -> State]
    /\ hungry_lock \in [Ids -> Nat]
    /\ think_unlock \in [Ids -> Nat]
    /\ proc \in [Procs -> [id : Ids, pc : Pcs]]
    /\ main \in {"loop", "wait_think", "remove", "post_think"}
    /\ main \in {"wait_think", "remove"} => count > MIN
    /\ main = "post_think" => count < MAX

Seated(p) == proc[p] # NoProc

\* Every philosopher has an entry of the shared arrays of its own.
IdsAreOwn ==
    \A p, q \in Procs :
        Seated(p) /\ Seated(q) /\ p # q => proc[p].id # proc[q].id

\* Philosopher i waits for its think_unlock.
Waits(i) == \E p \in Procs : At(p, "wait_think") /\ proc[p].id = i

\* think_unlock[i] is posted only while philosopher i waits for it.
ThinkToken ==
    \A i \in Ids :
        /\ think_unlock[i] \in {0, 1}
        /\ think_unlock[i] = 1 => Waits(i)

\* Philosopher i is held: main has taken the token it waits for.
Held(i) == think_unlock[i] = 0 /\ Waits(i)

MainHolds ==
    /\ main = "remove" => Held(count - 1)
    /\ main = "post_think" => Held(count)

LeaveInv ==
    /\ PhyloTypes
    /\ RemovedIsOut
    /\ "shared_id" \notin met => IdsAreOwn /\ ThinkToken /\ MainHolds

-----------------------------------------------------------------------------
\* The table always has two philosophers or more, and entries for all of them.
LEMMA CountRange ==
    ASSUME PhyloTypes
    PROVE  /\ count \in Nat /\ MAX \in Nat /\ count > 1 /\ count <= MAX
           /\ MIN \in Nat /\ MIN > 1
           /\ \A i : i \in Ids <=> i \in Nat /\ i < MAX
           /\ \A i \in 0..(count - 1) : i \in Ids
<1>1. MIN \in Nat /\ MAX \in Nat /\ MIN > 1
  BY PhyloAssumption
<1>2. count \in MIN..MAX
  BY DEF PhyloTypes
<1>3. QED
  BY <1>1, <1>2 DEF Ids

\* Every process is at one of its program points with an id of the arrays.
LEMMA ProcType ==
    ASSUME PhyloTypes, NEW p \in Procs
    PROVE  proc[p].id \in Ids /\ proc[p].id \in Nat /\ proc[p].pc \in Pcs
<1>1. proc[p] \in [id : Ids, pc : Pcs]
  BY DEF PhyloTypes
<1>2. QED
  BY <1>1, CountRange

\* The two neighbours of a philosopher, without the modulo.
LEMMA Neighbours ==
    ASSUME count \in Nat, count > 1, NEW i \in 0..(count - 1)
    PROVE  /\ LEFT(i) = IF i = 0 THEN count - 1 ELSE i - 1
           /\ RIGHT(i) = IF i = count - 1 THEN 0 ELSE i + 1
<1>1. \A a \in 0..(count - 1) : a % count = a /\ (a + count) % count = a
  BY SMT
<1>2. LEFT(i) = IF i = 0 THEN count - 1 ELSE i - 1
  <2>1. CASE i = 0
    BY <1>1, <2>1 DEF LEFT
  <2>2. CASE i # 0
    <3>1. i - 1 \in 0..(count - 1) /\ i + count - 1 = (i - 1) + count
      BY <2>2
    <3>2. QED
      BY <1>1, <2>2, <3>1 DEF LEFT
  <2>3. QED
    BY <2>1, <2>2
<1>3. RIGHT(i) = IF i = count - 1 THEN 0 ELSE i + 1
  <2>1. CASE i = count - 1
    <3>1. 0 \in 0..(count - 1) /\ i + 1 = 0 + count
      BY <2>1
    <3>2. QED
      BY <1>1, <2>1, <3>1 DEF RIGHT
  <2>2. CASE i # count - 1
    BY <1>1, <2>2 DEF RIGHT
  <2>3. QED
    BY <2>1, <2>2
<1>4. QED
  BY <1>2, <1>3

NeighbourTable ==
    count \in Nat /\ count > 1 =>
        \A i \in 0..(count - 1) :
            /\ LEFT(i) = IF i = 0 THEN count - 1 ELSE i - 1
            /\ RIGHT(i) = IF i = count - 1 THEN 0 ELSE i + 1

\* Neighbours, as a formula of the state that has a next-state form.
LEMMA NeighboursNow == NeighbourTable
  BY Neighbours DEF NeighbourTable

\* The same of the table as a step leaves it.
LEMMA NeighboursNext == NeighbourTable'
  BY NeighboursNow, PTL

\* LEFT and RIGHT are entries of the philosophers at the table, whoever asks.
LEMMA NeighboursSit ==
    ASSUME count \in Nat, count > 1, NEW i \in Nat
    PROVE  LEFT(i) \in 0..(count - 1) /\ RIGHT(i) \in 0..(count - 1)
  BY SMT DEF LEFT, RIGHT

-----------------------------------------------------------------------------
ForkTable == [state : [Ids -> State], hungry : [Ids -> Nat]]

\* What test(id) does: nothing, or id goes from HUNGRY to EATING with one post
\* of its hungry_lock while neither neighbour eats.
LEMMA TestEffect ==
    ASSUME PhyloTypes, NEW f \in ForkTable, NEW id \in Ids
    PROVE  LET t == Test(f, id)
           IN  /\ t \in ForkTable
               /\ \A i \in Ids \ {id} :
                      t.state[i] = f.state[i] /\ t.hungry[i] = f.hungry[i]
               /\ \/ /\ t = f
                     /\ \/ f.state[id] # "HUNGRY"
                        \/ f.state[LEFT(id)] = "EATING"
                        \/ f.state[RIGHT(id)] = "EATING"
                  \/ /\ f.state[id] = "HUNGRY" /\ t.state[id] = "EATING"
                     /\ t.hungry[id] = f.hungry[id] + 1
                     /\ f.state[LEFT(id)] # "EATING"
                     /\ f.state[RIGHT(id)] # "EATING"
<1> DEFINE go == /\ f.state[id] = "HUNGRY"
                 /\ f.state[LEFT(id)] # "EATING"
                 /\ f.state[RIGHT(id)] # "EATING"
<1>2. f.state \in [Ids -> State] /\ f.hungry \in [Ids -> Nat]
  BY DEF ForkTable
<1>3. CASE ~go
  BY <1>3 DEF Test
<1>4. CASE go
  <2>1. Test(f, id) = [f EXCEPT !.state[id] = "EATING", !.hungry[id] = @ + 1]
    BY <1>4 DEF Test
  <2>2. /\ Test(f, id).state = [f.state EXCEPT ![id] = "EATING"]
        /\ Test(f, id).hungry = [f.hungry EXCEPT ![id] = @ + 1]
        /\ Test(f, id) = [state |-> [f.state EXCEPT ![id] = "EATING"],
                          hungry |-> [f.hungry EXCEPT ![id] = @ + 1]]
    BY <2>1 DEF ForkTable
  <2>3. QED
    BY <1>2, <1>4, <2>2 DEF ForkTable, State
<1>5. QED
  BY <1>3, <1>4

\* i was given its forks in this step: it was HUNGRY, and no neighbour eats.
Served(i) ==
    /\ state[i] = "HUNGRY" /\ state'[i] = "EATING"
    /\ hungry_lock'[i] = hungry_lock[i] + 1
    /\ state'[LEFT(i)] # "EATING" /\ state'[RIGHT(i)] # "EATING"

Untouched(i) == state'[i] = state[i] /\ hungry_lock'[i] = hungry_lock[i]

ForkTypes == state' \in [Ids -> State] /\ hungry_lock' \in [Ids -> Nat]

\* take_fork for a philosopher at the table.
LEMMA TakeForkEffect ==
    ASSUME PhyloTypes, NEW p \in Procs, TakeFork(p), proc[p].id < count
    PROVE  LET id == proc[p].id
           IN  /\ ForkTypes
               /\ \A i \in Ids \ {id} : Untouched(i)
               /\ \/ state'[id] = "HUNGRY" /\ hungry_lock'[id] = hungry_lock[id]
                  \/ /\ state'[id] = "EATING"
                     /\ hungry_lock'[id] = hungry_lock[id] + 1
                     /\ state'[LEFT(id)] # "EATING"
                     /\ state'[RIGHT(id)] # "EATING"
<1> DEFINE id == proc[p].id
           f == [Forks EXCEPT !.state[id] = "HUNGRY"]
           t == Test(f, id)
<1>1. id \in 0..(count - 1) /\ id \in Ids
  BY CountRange, ProcType
<1>2. /\ f \in ForkTable
      /\ f.state = [state EXCEPT ![id] = "HUNGRY"]
      /\ f.hungry = hungry_lock
  BY <1>1 DEF Forks, ForkTable, PhyloTypes, State
<1>3. state' = t.state /\ hungry_lock' = t.hungry
  BY DEF TakeFork, SetForks
<1>4. /\ LEFT(id) \in Ids \ {id} /\ RIGHT(id) \in Ids \ {id}
  BY <1>1, Neighbours, CountRange
<1> HIDE DEF f, t, id
<1>5. /\ t \in ForkTable
      /\ \A i \in Ids \ {id} :
             t.state[i] = f.state[i] /\ t.hungry[i] = f.hungry[i]
      /\ \/ t = f
         \/ /\ f.state[id] = "HUNGRY" /\ t.state[id] = "EATING"
            /\ t.hungry[id] = f.hungry[id] + 1
            /\ f.state[LEFT(id)] # "EATING"
            /\ f.state[RIGHT(id)] # "EATING"
  BY <1>1, <1>2, TestEffect DEF t
<1>6. ForkTypes
  BY <1>3, <1>5 DEF ForkTypes, ForkTable
<1>7. \A i \in Ids \ {id} : Untouched(i)
  BY <1>1, <1>2, <1>3, <1>5 DEF Untouched, PhyloTypes
<1>8. \/ state'[id] = "HUNGRY" /\ hungry_lock'[id] = hungry_lock[id]
      \/ /\ state'[id] = "EATING"
         /\ hungry_lock'[id] = hungry_lock[id] + 1
         /\ state'[LEFT(id)] # "EATING" /\ state'[RIGHT(id)] # "EATING"
  BY <1>1, <1>2, <1>3, <1>4, <1>5 DEF PhyloTypes
<1>9. QED
  BY <1>6, <1>7, <1>8 DEF id

\* put_fork for a philosopher at the table: it thinks, and each other entry is
\* left alone or served.
LEMMA PutForkEffect ==
    ASSUME PhyloTypes, NEW p \in Procs, PutFork(p), proc[p].id < count
    PROVE  LET id == proc[p].id
           IN  /\ ForkTypes
               /\ state'[id] = "THINKING" /\ hungry_lock'[id] = hungry_lock[id]
               /\ \A i \in Ids \ {id} : Untouched(i) \/ (i < count /\ Served(i))
<1> DEFINE id == proc[p].id
           f == [Forks EXCEPT !.state[id] = "THINKING"]
           l == LEFT(id)
           r == RIGHT(id)
           t == Test(f, l)
           u == Test(t, r)
<1>1. id \in 0..(count - 1) /\ id \in Ids
  BY CountRange, ProcType
<1>2. /\ f \in ForkTable
      /\ f.state = [state EXCEPT ![id] = "THINKING"]
      /\ f.hungry = hungry_lock
  BY <1>1 DEF Forks, ForkTable, PhyloTypes, State
<1>3. state' = u.state /\ hungry_lock' = u.hungry
  BY DEF PutFork, SetForks
<1>4. /\ l \in Ids \ {id} /\ r \in Ids \ {id}
      /\ l \in 0..(count - 1) /\ r \in 0..(count - 1)
  BY <1>1, Neighbours, CountRange
<1>5. /\ LEFT(l) \in Ids \ {l} /\ RIGHT(l) \in Ids \ {l}
      /\ LEFT(r) \in Ids \ {r} /\ RIGHT(r) \in Ids \ {r}
      /\ LEFT(r) = l <=> RIGHT(l) = r
      /\ RIGHT(r) = l <=> LEFT(l) = r
  BY <1>4, Neighbours, CountRange
<1> HIDE DEF f, t, l, r
<1>6. /\ t \in ForkTable
      /\ \A i \in Ids \ {l} :
             t.state[i] = f.state[i] /\ t.hungry[i] = f.hungry[i]
      /\ \/ t = f
         \/ /\ f.state[l] = "HUNGRY" /\ t.state[l] = "EATING"
            /\ t.hungry[l] = f.hungry[l] + 1
            /\ f.state[LEFT(l)] # "EATING"
            /\ f.state[RIGHT(l)] # "EATING"
  BY <1>2, <1>4, TestEffect DEF t
<1>7. /\ u \in ForkTable
      /\ \A i \in Ids \ {r} :
             u.state[i] = t.state[i] /\ u.hungry[i] = t.hungry[i]
      /\ \/ u = t
         \/ /\ t.state[r] = "HUNGRY" /\ u.state[r] = "EATING"
            /\ u.hungry[r] = t.hungry[r] + 1
            /\ t.state[LEFT(r)] # "EATING"
            /\ t.state[RIGHT(r)] # "EATING"
  BY <1>4, <1>6, TestEffect DEF u
<1> HIDE DEF u, id
<1>8. ForkTypes
  BY <1>3, <1>7 DEF ForkTypes, ForkTable
<1>9. state'[id] = "THINKING" /\ hungry_lock'[id] = hungry_lock[id]
  BY <1>1, <1>2, <1>3, <1>4, <1>6, <1>7 DEF PhyloTypes
<1>10. \A i \in Ids \ {id, l, r} : Untouched(i)
  BY <1>2, <1>3, <1>6, <1>7 DEF Untouched, PhyloTypes
<1>11. ASSUME t.state[r] = state[r], t.hungry[r] = hungry_lock[r]
       PROVE  Untouched(r) \/ Served(r)
  <2>1. CASE u = t
    BY <2>1, <1>3, <1>11 DEF Untouched
  <2>2. CASE u # t
    <3>1. u.state[LEFT(r)] # "EATING" /\ u.state[RIGHT(r)] # "EATING"
      BY <2>2, <1>5, <1>7
    <3>2. QED
      BY <2>2, <3>1, <1>3, <1>7, <1>11 DEF Served
  <2>3. QED
    BY <2>1, <2>2
<1>12. CASE t = f
  <2>1. Untouched(r) \/ Served(r)
    BY <1>2, <1>4, <1>11, <1>12 DEF PhyloTypes
  <2>2. l # r => Untouched(l)
    BY <1>2, <1>3, <1>4, <1>7, <1>12 DEF Untouched, PhyloTypes
  <2>3. QED
    BY <2>1, <2>2, <1>4, <1>8, <1>9, <1>10, CountRange DEF id
<1>13. CASE t # f
  <2>1. f.state[l] = state[l] /\ f.hungry[l] = hungry_lock[l]
    BY <1>2, <1>4 DEF PhyloTypes
  <2>2. /\ t.state[l] = "EATING"
        /\ u.state[l] = "EATING"
        /\ u.hungry[l] = f.hungry[l] + 1
    BY <1>4, <1>6, <1>7, <1>13
  <2>3. t.state[LEFT(l)] # "EATING" /\ t.state[RIGHT(l)] # "EATING"
    BY <1>5, <1>6, <1>13
  <2>4. u.state[LEFT(l)] # "EATING" /\ u.state[RIGHT(l)] # "EATING"
    BY <2>2, <2>3, <1>4, <1>5, <1>7
  <2>5. Served(l)
    BY <2>1, <2>2, <2>4, <1>3, <1>6, <1>13 DEF Served
  <2>6. l # r => Untouched(r) \/ Served(r)
    BY <1>2, <1>4, <1>6, <1>11 DEF PhyloTypes
  <2>7. QED
    BY <2>5, <2>6, <1>4, <1>8, <1>9, <1>10, CountRange DEF id
<1>14. QED
  BY <1>12, <1>13

\* take_fork and put_fork keep the types, for an id at the table or not.
LEMMA ForkTypesKept ==
    ASSUME PhyloTypes, NEW p \in Procs, TakeFork(p) \/ PutFork(p)
    PROVE  ForkTypes
<1> DEFINE id == proc[p].id
           h == [Forks EXCEPT !.state[id] = "HUNGRY"]
           d == [Forks EXCEPT !.state[id] = "THINKING"]
<1>1. id \in Ids /\ LEFT(id) \in Ids /\ RIGHT(id) \in Ids
  BY ProcType, NeighboursSit, CountRange
<1>2. h \in ForkTable /\ d \in ForkTable
  BY <1>1 DEF Forks, ForkTable, PhyloTypes, State
<1>3. CASE TakeFork(p)
  <2>1. state' = Test(h, id).state /\ hungry_lock' = Test(h, id).hungry
    BY <1>3 DEF TakeFork, SetForks
  <2> HIDE DEF h, id
  <2>2. Test(h, id) \in ForkTable
    BY <1>1, <1>2, TestEffect
  <2>3. QED
    BY <2>1, <2>2 DEF ForkTypes, ForkTable
<1>4. CASE PutFork(p)
  <2> DEFINE t == Test(d, LEFT(id))
             u == Test(t, RIGHT(id))
  <2>1. state' = u.state /\ hungry_lock' = u.hungry
    BY <1>4 DEF PutFork, SetForks
  <2> HIDE DEF d, id, t, u
  <2>2. t \in ForkTable
    BY <1>1, <1>2, TestEffect DEF t
  <2>3. u \in ForkTable
    BY <1>1, <2>2, TestEffect DEF u
  <2>4. QED
    BY <2>1, <2>3 DEF ForkTypes, ForkTable
<1>5. QED
  BY <1>3, <1>4

\* A process that is anywhere in its program is a philosopher.
LEMMA AtSeated ==
    ASSUME NEW p \in Procs, proc[p].pc # "none" PROVE Seated(p)
  BY DEF Seated, NoProc, Proc

\* What a step of one process does to the processes.
LEMMA GotoEffect ==
    ASSUME PhyloTypes, NEW p \in Procs, NEW l \in Pcs \ {"none"}, Goto(p, l)
    PROVE  /\ proc' \in [Procs -> [id : Ids, pc : Pcs]]
           /\ proc'[p].id = proc[p].id /\ proc'[p].pc = l
           /\ proc'[p] # NoProc
           /\ \A q \in Procs \ {p} : proc'[q] = proc[q]
<1>1. proc' = [proc EXCEPT ![p].pc = l]
  BY DEF Goto
<1>2. proc[p] \in [id : Ids, pc : Pcs]
  BY DEF PhyloTypes
<1>3. /\ proc'[p] = [proc[p] EXCEPT !.pc = l]
      /\ \A q \in Procs \ {p} : proc'[q] = proc[q]
  BY <1>1 DEF PhyloTypes
<1>4. proc'[p].id = proc[p].id /\ proc'[p].pc = l
  BY <1>2, <1>3
<1>5. proc'[p] # NoProc
  BY <1>4 DEF NoProc, Proc
<1>6. QED
  BY <1>1, <1>2, <1>3, <1>4, <1>5 DEF PhyloTypes

-----------------------------------------------------------------------------
\* A post and a wait that gets through keep the values of semaphores natural.
LEMMA SemaphoreValues ==
    ASSUME NEW f \in [Ids -> Nat], NEW i \in Ids
    PROVE  /\ [f EXCEPT ![i] = @ + 1] \in [Ids -> Nat]
           /\ f[i] > 0 => [f EXCEPT ![i] = @ - 1] \in [Ids -> Nat]
<1>1. f[i] \in Nat
  OBVIOUS
<1>2. f[i] + 1 \in Nat /\ (f[i] > 0 => f[i] - 1 \in Nat)
  BY <1>1
<1>3. QED
  BY <1>2

\* Every step keeps the types, whatever has been met.
LEMMA TypesStep == PhyloTypes /\ [Next]_vars => PhyloTypes'
<1> SUFFICES ASSUME PhyloTypes, [Next]_vars PROVE PhyloTypes'
  OBVIOUS
<1>0. hungry_lock \in [Ids -> Nat] /\ think_unlock \in [Ids -> Nat]
  BY DEF PhyloTypes
<1>1. ASSUME NEW p \in Procs, TakeFork(p) PROVE PhyloTypes'
  <2>1. ForkTypes /\ proc' \in [Procs -> [id : Ids, pc : Pcs]]
    BY <1>1, ForkTypesKept, GotoEffect DEF TakeFork, Pcs
  <2>2. QED
    BY <1>1, <2>1 DEF PhyloTypes, ForkTypes, TakeFork
<1>2. ASSUME NEW p \in Procs, WaitHungry(p) PROVE PhyloTypes'
  <2>1. proc' \in [Procs -> [id : Ids, pc : Pcs]]
    BY <1>2, GotoEffect DEF WaitHungry, Pcs
  <2>2. hungry_lock' \in [Ids -> Nat]
    BY <1>0, <1>2, ProcType, SemaphoreValues DEF WaitHungry
  <2>3. QED
    BY <1>2, <2>1, <2>2 DEF PhyloTypes, WaitHungry
<1>3. ASSUME NEW p \in Procs, PutFork(p) PROVE PhyloTypes'
  <2>1. ForkTypes /\ proc' \in [Procs -> [id : Ids, pc : Pcs]]
    BY <1>3, ForkTypesKept, GotoEffect DEF PutFork, Pcs
  <2>2. QED
    BY <1>3, <2>1 DEF PhyloTypes, ForkTypes, PutFork
<1>4. ASSUME NEW p \in Procs, PostThink(p) PROVE PhyloTypes'
  <2>1. proc' \in [Procs -> [id : Ids, pc : Pcs]]
    BY <1>4, GotoEffect DEF PostThink, Pcs
  <2>2. think_unlock' \in [Ids -> Nat]
    BY <1>0, <1>4, ProcType, SemaphoreValues DEF PostThink
  <2>3. QED
    BY <1>4, <2>1, <2>2 DEF PhyloTypes, PostThink
<1>5. ASSUME NEW p \in Procs, WaitThink(p) PROVE PhyloTypes'
  <2>1. proc' \in [Procs -> [id : Ids, pc : Pcs]]
    BY <1>5, GotoEffect DEF WaitThink, Pcs
  <2>2. think_unlock' \in [Ids -> Nat]
    BY <1>0, <1>5, ProcType, SemaphoreValues DEF WaitThink
  <2>3. QED
    BY <1>5, <2>1, <2>2 DEF PhyloTypes, WaitThink
<1>6. ASSUME NEW p \in Procs, Check(p) PROVE PhyloTypes'
  <2>1. NoProc \in [id : Ids, pc : Pcs]
    BY CountRange DEF NoProc, Proc, Pcs
  <2>2. proc' \in [Procs -> [id : Ids, pc : Pcs]]
    <3>1. CASE state[proc[p].id] = "LEAVING"
      BY <1>6, <2>1, <3>1 DEF Check, PhyloTypes
    <3>2. CASE state[proc[p].id] # "LEAVING"
      BY <1>6, <3>2, GotoEffect DEF Check, Pcs
    <3>3. QED
      BY <3>1, <3>2
  <2>3. QED
    BY <1>6, <2>2 DEF PhyloTypes, Check, shared
<1>7. CASE AddPhylo
  <2>1. count \in Ids /\ count + 1 \in MIN..MAX
    <3>1. count < MAX /\ count \in MIN..MAX
      BY <1>7 DEF AddPhylo, PhyloTypes
    <3>2. QED
      BY <3>1, CountRange
  <2>2. Proc(count, "take_fork") \in [id : Ids, pc : Pcs]
    BY <2>1 DEF Proc, Pcs
  <2>3. proc' \in [Procs -> [id : Ids, pc : Pcs]]
    BY <1>7, <2>2 DEF AddPhylo, PhyloTypes
  <2>4. state' \in [Ids -> State]
    BY <1>7 DEF AddPhylo, PhyloTypes, State
  <2>5. QED
    BY <1>7, <2>1, <2>3, <2>4 DEF AddPhylo, PhyloTypes
<1>8. CASE AskRemove
  BY <1>8 DEF AskRemove, PhyloTypes, shared
<1>9. CASE RemoveWait
  <2>1. count - 1 \in Ids
    BY CountRange
  <2>2. think_unlock' \in [Ids -> Nat]
    BY <1>0, <1>9, <2>1, SemaphoreValues DEF RemoveWait
  <2>3. QED
    BY <1>9, <2>2 DEF RemoveWait, PhyloTypes
<1>10. CASE RemovePhylo
  <2>1. count - 1 \in MIN..MAX /\ count - 1 < MAX
    <3>1. count > MIN /\ count \in MIN..MAX
      BY <1>10 DEF RemovePhylo, PhyloTypes
    <3>2. QED
      BY <3>1, CountRange
  <2>2. state' \in [Ids -> State]
    BY <1>10 DEF RemovePhylo, PhyloTypes, State
  <2>3. QED
    BY <1>10, <2>1, <2>2 DEF RemovePhylo, PhyloTypes
<1>11. CASE RemovePost
  <2>1. think_unlock' \in [Ids -> Nat]
    <3>1. count < MAX
      BY <1>11 DEF RemovePost, PhyloTypes
    <3>2. count \in Ids
      BY <3>1, CountRange
    <3>3. QED
      BY <1>0, <1>11, <3>2, SemaphoreValues DEF RemovePost
  <2>2. QED
    BY <1>11, <2>1 DEF RemovePost, PhyloTypes
<1>12. CASE ShowTable \/ UNCHANGED vars
  BY <1>12 DEF ShowTable, vars, shared, PhyloTypes
<1>13. QED
  BY <1>1, <1>2, <1>3, <1>4, <1>5, <1>6, <1>7, <1>8, <1>9, <1>10, <1>11,
     <1>12 DEF Next, Phylo, Removing, PhyloProc

\* What has been met is never forgotten.
LEMMA MetGrows == [Next]_vars => met \subseteq met'
  BY DEF Next, Phylo, Removing, PhyloProc, TakeFork, WaitHungry, PutFork, PostThink,
     WaitThink, Check, AddPhylo, AskRemove, RemoveWait, RemovePhylo,
     RemovePost, ShowTable, Note, vars

\* The philosophers sit down with ids of their own and no token about.
LEMMA LeaveInit == Init => LeaveInv
<1> SUFFICES ASSUME Init PROVE LeaveInv
  OBVIOUS
<1>1. PhyloTypes
  <2>1. count \in MIN..MAX
    BY PhyloAssumption DEF Init
  <2>2. state \in [Ids -> State]
    BY PhyloAssumption DEF Init, Ids, State
  <2>3. \A p \in Procs :
            p <= INITIAL => Proc(p - 1, "take_fork") \in [id : Ids, pc : Pcs]
    BY PhyloAssumption DEF Proc, Ids, Pcs, Procs
  <2>4. NoProc \in [id : Ids, pc : Pcs]
    BY PhyloAssumption DEF NoProc, Proc, Ids, Pcs
  <2>5. proc \in [Procs -> [id : Ids, pc : Pcs]]
    BY <2>3, <2>4 DEF Init
  <2>6. hungry_lock \in [Ids -> Nat] /\ think_unlock \in [Ids -> Nat]
    BY DEF Init
  <2>7. QED
    BY <2>1, <2>2, <2>5, <2>6 DEF Init, PhyloTypes
<1>2. \A p \in Procs : Seated(p) => proc[p].id = p - 1 /\ p - 1 < count
  <2> SUFFICES ASSUME NEW p \in Procs, Seated(p)
               PROVE  proc[p].id = p - 1 /\ p - 1 < count
    OBVIOUS
  <2>1. proc[p] = IF p <= INITIAL THEN Proc(p - 1, "take_fork") ELSE NoProc
    BY DEF Init
  <2>2. p <= INITIAL /\ proc[p] = Proc(p - 1, "take_fork")
    BY <2>1 DEF Seated
  <2>3. proc[p].id = p - 1
    BY <2>2 DEF Proc
  <2>4. QED
    BY <2>2, <2>3, PhyloAssumption DEF Init, Procs
<1>3. QED
  <2>1. IdsAreOwn
    BY <1>2 DEF IdsAreOwn, Procs
  <2>2. ThinkToken /\ MainHolds
    BY DEF Init, ThinkToken, MainHolds
  <2>3. RemovedIsOut
    <3>1. \A p \in Procs : proc[p] # NoProc => ~(proc[p].id >= count)
      BY <1>1, <1>2, CountRange DEF Seated, Procs
    <3>2. QED
      BY <3>1 DEF RemovedIsOut
  <2>4. QED
    BY <1>1, <2>1, <2>2, <2>3 DEF LeaveInv

\* A step that leaves think_unlock and main alone and takes no philosopher
\* away from its wait keeps every token where it is.
LEMMA TokensKept ==
    ASSUME PhyloTypes, ThinkToken, MainHolds,
           UNCHANGED <<count, think_unlock, main>>,
           \A i \in Ids : Waits(i) => Waits(i)'
    PROVE  ThinkToken' /\ MainHolds'
<1>1. ThinkToken'
  BY DEF ThinkToken
<1>2. /\ count - 1 \in Ids
      /\ main = "post_think" => count \in Ids
  BY CountRange DEF PhyloTypes
<1>3. MainHolds'
  BY <1>2 DEF MainHolds, Held
<1>4. QED
  BY <1>1, <1>3

\* What a step of a philosopher at one place of its program does to the waits
\* and to the ids.
LEMMA MoveEffect ==
    ASSUME PhyloTypes, IdsAreOwn, NEW p \in Procs,
           NEW l \in Pcs \ {"none"}, Goto(p, l), proc[p].pc # "none"
    PROVE  /\ IdsAreOwn'
           /\ \A i \in Ids \ {proc[p].id} : Waits(i) => Waits(i)'
           /\ Waits(proc[p].id) => proc[p].pc = "wait_think"
           /\ l = "wait_think" => Waits(proc[p].id)'
<1>1. /\ proc'[p].id = proc[p].id /\ proc'[p].pc = l
      /\ \A q \in Procs \ {p} : proc'[q] = proc[q]
  BY GotoEffect
<1>2. Seated(p)
  BY AtSeated
<1>3. IdsAreOwn'
  BY <1>1, <1>2 DEF IdsAreOwn, Seated
<1>4. ASSUME NEW i \in Ids \ {proc[p].id}, Waits(i) PROVE Waits(i)'
  BY <1>1, <1>4 DEF Waits, At
<1>5. ASSUME Waits(proc[p].id) PROVE proc[p].pc = "wait_think"
  <2>1. PICK q \in Procs : At(q, "wait_think") /\ proc[q].id = proc[p].id
    BY <1>5 DEF Waits
  <2>2. Seated(q)
    BY <2>1, AtSeated DEF At
  <2>3. QED
    BY <1>2, <2>1, <2>2 DEF IdsAreOwn, At
<1>6. ASSUME l = "wait_think" PROVE Waits(proc[p].id)'
  BY <1>1, <1>6 DEF Waits, At
<1>7. QED
  BY <1>3, <1>4, <1>5, <1>6

\* The tokens of think_unlock stay with philosophers that wait for them, main
\* keeps the one it removes where it is, and what is removed stays out.
LEMMA LeaveStep == LeaveInv /\ [Next]_vars => LeaveInv'
<1> SUFFICES ASSUME LeaveInv, [Next]_vars PROVE LeaveInv'
  OBVIOUS
<1> DEFINE Good == IdsAreOwn /\ ThinkToken /\ MainHolds /\ RemovedIsOut
<1>1. PhyloTypes /\ PhyloTypes'
  BY TypesStep DEF LeaveInv
<1>2. CASE "shared_id" \in met'
  BY <1>1, <1>2 DEF LeaveInv, RemovedIsOut
<1>3. CASE "shared_id" \notin met'
  <2>1. "shared_id" \notin met
    BY <1>3, MetGrows
  <2>2. IdsAreOwn /\ ThinkToken /\ MainHolds
    BY <2>1 DEF LeaveInv
  <2>3. \A p \in Procs : Seated(p) /\ proc[p].id >= count =>
            /\ proc[p].pc \in {"wait_think", "check"}
            /\ state[proc[p].id] = "LEAVING"
    BY <2>1 DEF LeaveInv, RemovedIsOut, Seated
  <2>4. \A p \in Procs : /\ proc[p].id \in Ids /\ proc[p].id \in Nat
                         /\ proc[p].pc \in Pcs
                         /\ proc[p].pc # "none" => Seated(p)
    BY <1>1, ProcType, AtSeated
  <2>5. think_unlock \in [Ids -> Nat] /\ state \in [Ids -> State]
    BY <1>1 DEF PhyloTypes
  <2>6. /\ count \in Nat /\ count > 1
        /\ count - 1 \in Ids /\ (main = "post_think" => count \in Ids)
    BY <1>1, CountRange DEF PhyloTypes
  <2> USE DEF At
  <2>11. ASSUME NEW p \in Procs, TakeFork(p) PROVE Good'
    <3>1. /\ Goto(p, "wait_hungry")
          /\ UNCHANGED <<count, think_unlock, main>>
          /\ proc[p].pc = "take_fork"
      BY <2>11 DEF TakeFork
    <3>2. /\ proc'[p].id = proc[p].id /\ proc'[p].pc = "wait_hungry"
          /\ \A q \in Procs \ {p} : proc'[q] = proc[q]
      BY <1>1, <3>1, GotoEffect DEF Pcs
    <3>3. /\ IdsAreOwn'
          /\ \A i \in Ids \ {proc[p].id} : Waits(i) => Waits(i)'
          /\ Waits(proc[p].id) => proc[p].pc = "wait_think"
      BY <1>1, <2>2, <3>1, MoveEffect DEF Pcs
    <3>4. ThinkToken' /\ MainHolds'
      BY <1>1, <2>2, <3>1, <3>3, TokensKept
    <3>5. proc[p].id < count
      BY <2>3, <2>4, <2>6, <3>1
    <3>6. \A i \in Ids \ {proc[p].id} : state'[i] = state[i]
      BY <1>1, <2>11, <3>5, TakeForkEffect DEF Untouched
    <3>7. RemovedIsOut'
      BY <2>3, <2>4, <2>6, <3>1, <3>2, <3>5, <3>6 DEF RemovedIsOut, Seated
    <3>8. QED
      BY <3>3, <3>4, <3>7
  <2>12. ASSUME NEW p \in Procs, WaitHungry(p) PROVE Good'
    <3>1. /\ Goto(p, "put_fork")
          /\ UNCHANGED <<count, state, think_unlock, main>>
          /\ proc[p].pc = "wait_hungry"
      BY <2>12 DEF WaitHungry
    <3>2. /\ proc'[p].id = proc[p].id /\ proc'[p].pc = "put_fork"
          /\ \A q \in Procs \ {p} : proc'[q] = proc[q]
      BY <1>1, <3>1, GotoEffect DEF Pcs
    <3>3. /\ IdsAreOwn'
          /\ \A i \in Ids \ {proc[p].id} : Waits(i) => Waits(i)'
          /\ Waits(proc[p].id) => proc[p].pc = "wait_think"
      BY <1>1, <2>2, <3>1, MoveEffect DEF Pcs
    <3>4. ThinkToken' /\ MainHolds'
      BY <1>1, <2>2, <3>1, <3>3, TokensKept
    <3>5. RemovedIsOut'
      BY <2>3, <2>4, <3>1, <3>2 DEF RemovedIsOut, Seated
    <3>6. QED
      BY <3>3, <3>4, <3>5
  <2>13. ASSUME NEW p \in Procs, PutFork(p) PROVE Good'
    <3>1. /\ Goto(p, "post_think")
          /\ UNCHANGED <<count, think_unlock, main>>
          /\ proc[p].pc = "put_fork"
      BY <2>13 DEF PutFork
    <3>2. /\ proc'[p].id = proc[p].id /\ proc'[p].pc = "post_think"
          /\ \A q \in Procs \ {p} : proc'[q] = proc[q]
      BY <1>1, <3>1, GotoEffect DEF Pcs
    <3>3. /\ IdsAreOwn'
          /\ \A i \in Ids \ {proc[p].id} : Waits(i) => Waits(i)'
          /\ Waits(proc[p].id) => proc[p].pc = "wait_think"
      BY <1>1, <2>2, <3>1, MoveEffect DEF Pcs
    <3>4. ThinkToken' /\ MainHolds'
      BY <1>1, <2>2, <3>1, <3>3, TokensKept
    <3>5. proc[p].id < count
      BY <2>3, <2>4, <2>6, <3>1
    <3>6. \A i \in Ids \ {proc[p].id} : state'[i] = state[i] \/ i < count
      BY <1>1, <2>13, <3>5, PutForkEffect DEF Untouched
    <3>7. RemovedIsOut'
      BY <2>3, <2>4, <2>6, <3>1, <3>2, <3>5, <3>6 DEF RemovedIsOut, Seated
    <3>8. QED
      BY <3>3, <3>4, <3>7
  <2>14. ASSUME NEW p \in Procs, PostThink(p) PROVE Good'
    <3>1. /\ Goto(p, "wait_think")
          /\ UNCHANGED <<count, state, main>>
          /\ proc[p].pc = "post_think"
      BY <2>14 DEF PostThink
    <3>2. /\ proc'[p].id = proc[p].id /\ proc'[p].pc = "wait_think"
          /\ \A q \in Procs \ {p} : proc'[q] = proc[q]
      BY <1>1, <3>1, GotoEffect DEF Pcs
    <3>3. /\ IdsAreOwn'
          /\ \A i \in Ids \ {proc[p].id} : Waits(i) => Waits(i)'
          /\ Waits(proc[p].id) => proc[p].pc = "wait_think"
          /\ Waits(proc[p].id)'
      BY <1>1, <2>2, <3>1, MoveEffect DEF Pcs
    <3>4. think_unlock[proc[p].id] = 0
      BY <2>2, <2>4, <3>1, <3>3 DEF ThinkToken
    <3>5. /\ think_unlock'[proc[p].id] = 1
          /\ \A i \in Ids \ {proc[p].id} : think_unlock'[i] = think_unlock[i]
      BY <2>4, <2>5, <2>14, <3>4 DEF PostThink
    <3>6. ThinkToken'
      <4>1. ASSUME NEW i \in Ids, i # proc[p].id
            PROVE  /\ think_unlock'[i] \in {0, 1}
                   /\ (think_unlock'[i] = 1 => Waits(i)')
        BY <2>2, <3>3, <3>5, <4>1 DEF ThinkToken
      <4>2. QED
        BY <3>2, <3>3, <3>5, <4>1 DEF ThinkToken
    <3>7. \A i \in Ids : Held(i) => Held(i)'
      BY <3>1, <3>3, <3>4, <3>5 DEF Held
    <3>8. MainHolds'
      BY <2>2, <2>6, <3>1, <3>7 DEF MainHolds
    <3>9. RemovedIsOut'
      BY <2>3, <2>4, <3>1, <3>2 DEF RemovedIsOut, Seated
    <3>10. QED
      BY <3>3, <3>6, <3>8, <3>9
  <2>15. ASSUME NEW p \in Procs, WaitThink(p) PROVE Good'
    <3>1. /\ Goto(p, "check")
          /\ UNCHANGED <<count, state, main>>
          /\ proc[p].pc = "wait_think"
      BY <2>15 DEF WaitThink
    <3>2. /\ proc'[p].id = proc[p].id /\ proc'[p].pc = "check"
          /\ \A q \in Procs \ {p} : proc'[q] = proc[q]
      BY <1>1, <3>1, GotoEffect DEF Pcs
    <3>3. /\ IdsAreOwn'
          /\ \A i \in Ids \ {proc[p].id} : Waits(i) => Waits(i)'
          /\ Waits(proc[p].id) => proc[p].pc = "wait_think"
      BY <1>1, <2>2, <3>1, MoveEffect DEF Pcs
    <3>4. think_unlock[proc[p].id] = 1
      BY <2>2, <2>4, <2>15 DEF ThinkToken, WaitThink
    <3>5. /\ think_unlock'[proc[p].id] = 0
          /\ \A i \in Ids \ {proc[p].id} : think_unlock'[i] = think_unlock[i]
      BY <2>4, <2>5, <2>15, <3>4 DEF WaitThink
    <3>6. ThinkToken'
      BY <2>2, <3>3, <3>5 DEF ThinkToken
    <3>7. \A i \in Ids : Held(i) => Held(i)'
      BY <3>1, <3>3, <3>4, <3>5 DEF Held
    <3>8. MainHolds'
      BY <2>2, <2>6, <3>1, <3>7 DEF MainHolds
    <3>9. RemovedIsOut'
      BY <2>3, <2>4, <3>1, <3>2 DEF RemovedIsOut, Seated
    <3>10. QED
      BY <3>3, <3>6, <3>8, <3>9
  <2>16. ASSUME NEW p \in Procs, Check(p), state[proc[p].id] # "LEAVING"
         PROVE  Good'
    <3>1. /\ Goto(p, "take_fork") /\ proc[p].pc = "check"
          /\ UNCHANGED <<count, state, think_unlock, main>>
      BY <2>16 DEF Check, shared
    <3>2. /\ proc'[p].id = proc[p].id /\ proc'[p].pc = "take_fork"
          /\ \A q \in Procs \ {p} : proc'[q] = proc[q]
      BY <1>1, <3>1, GotoEffect DEF Pcs
    <3>3. /\ IdsAreOwn'
          /\ \A i \in Ids : Waits(i) => Waits(i)'
      BY <1>1, <2>2, <3>1, MoveEffect DEF Pcs
    <3>4. ThinkToken' /\ MainHolds'
      BY <1>1, <2>2, <3>1, <3>3, TokensKept
    <3>5. RemovedIsOut'
      BY <2>3, <2>4, <2>16, <3>1, <3>2 DEF RemovedIsOut, Seated
    <3>6. QED
      BY <3>3, <3>4, <3>5
  <2>17. ASSUME NEW p \in Procs, Check(p), state[proc[p].id] = "LEAVING"
         PROVE  Good'
    <3>1. /\ proc' = [proc EXCEPT ![p] = NoProc] /\ proc[p].pc = "check"
          /\ UNCHANGED <<count, state, think_unlock, main>>
      BY <2>17 DEF Check, shared
    <3>2. proc'[p] = NoProc /\ \A q \in Procs \ {p} : proc'[q] = proc[q]
      BY <1>1, <3>1 DEF PhyloTypes
    <3>3. IdsAreOwn' /\ RemovedIsOut'
      BY <2>2, <2>3, <3>1, <3>2 DEF IdsAreOwn, RemovedIsOut, Seated
    <3>4. \A i \in Ids : Waits(i) => Waits(i)'
      BY <3>1, <3>2 DEF Waits
    <3>5. ThinkToken' /\ MainHolds'
      BY <1>1, <2>2, <3>1, <3>4, TokensKept
    <3>6. QED
      BY <3>3, <3>5
  <2>18. ASSUME AddPhylo PROVE Good'
    <3>1. PICK p \in Procs : /\ proc[p] = NoProc
                             /\ proc' = [proc EXCEPT ![p] = Proc(count, "take_fork")]
      BY <2>18 DEF AddPhylo
    <3>2. /\ proc'[p].id = count /\ proc'[p].pc = "take_fork"
          /\ \A q \in Procs \ {p} : proc'[q] = proc[q]
      BY <1>1, <3>1 DEF Proc, PhyloTypes
    <3>3. \A q \in Procs : Seated(q) => proc[q].id # count
      BY <1>3, <2>18 DEF AddPhylo, Note, Seated
    <3>4. /\ count' = count + 1 /\ main' = "loop" /\ UNCHANGED think_unlock
          /\ state' = [state EXCEPT ![count] = "THINKING"]
      BY <2>18 DEF AddPhylo
    <3>5. \A i \in Ids : Waits(i) => Waits(i)'
      <4>1. proc[p].pc # "wait_think"
        BY <3>1 DEF NoProc, Proc
      <4>2. QED
        BY <3>2, <4>1 DEF Waits
    <3>6. IdsAreOwn'
      BY <2>2, <3>2, <3>3 DEF IdsAreOwn, Seated
    <3>7. ThinkToken' /\ MainHolds'
      BY <2>2, <3>4, <3>5 DEF ThinkToken, MainHolds
    <3>8. \A q \in Procs \ {p} : Seated(q) /\ proc[q].id >= count + 1 =>
              /\ proc[q].pc \in {"wait_think", "check"}
              /\ state'[proc[q].id] = "LEAVING"
      BY <2>3, <2>4, <2>5, <2>6, <3>4
    <3>9. RemovedIsOut'
      BY <2>6, <3>2, <3>4, <3>8 DEF RemovedIsOut, Seated
    <3>10. QED
      BY <3>6, <3>7, <3>9
  <2>19. ASSUME AskRemove PROVE Good'
    <3>1. UNCHANGED <<count, state, think_unlock, proc>> /\ main' = "wait_think"
      BY <2>19 DEF AskRemove, shared
    <3>2. IdsAreOwn' /\ RemovedIsOut'
      BY <2>2, <2>3, <3>1 DEF IdsAreOwn, RemovedIsOut, Seated
    <3>3. ThinkToken' /\ MainHolds'
      BY <2>2, <3>1 DEF ThinkToken, MainHolds, Waits
    <3>4. QED
      BY <3>2, <3>3
  <2>20. ASSUME RemoveWait PROVE Good'
    <3>1. /\ main' = "remove" /\ UNCHANGED <<count, state, proc>>
          /\ think_unlock[count - 1] > 0
          /\ think_unlock' = [think_unlock EXCEPT ![count - 1] = @ - 1]
      BY <2>20 DEF RemoveWait
    <3>2. think_unlock[count - 1] = 1 /\ Waits(count - 1)
      BY <2>2, <2>6, <3>1 DEF ThinkToken
    <3>3. /\ think_unlock'[count - 1] = 0
          /\ \A i \in Ids \ {count - 1} : think_unlock'[i] = think_unlock[i]
      BY <2>5, <2>6, <3>1, <3>2
    <3>4. \A i \in Ids : Waits(i) <=> Waits(i)'
      BY <3>1 DEF Waits
    <3>5. IdsAreOwn' /\ RemovedIsOut'
      BY <2>2, <2>3, <3>1 DEF IdsAreOwn, RemovedIsOut, Seated
    <3>6. ThinkToken'
      BY <2>2, <3>3, <3>4 DEF ThinkToken
    <3>7. MainHolds'
      BY <2>6, <3>1, <3>2, <3>3, <3>4 DEF MainHolds, Held
    <3>8. QED
      BY <3>5, <3>6, <3>7
  <2>21. ASSUME RemovePhylo PROVE Good'
    <3>1. /\ main = "remove" /\ main' = "post_think" /\ count' = count - 1
          /\ state' = [state EXCEPT ![count - 1] = "LEAVING"]
          /\ UNCHANGED <<think_unlock, proc>>
      BY <2>21 DEF RemovePhylo
    <3>2. Held(count - 1)
      BY <2>2, <3>1 DEF MainHolds
    <3>3. \A i \in Ids : Waits(i) <=> Waits(i)'
      BY <3>1 DEF Waits
    <3>4. IdsAreOwn' /\ ThinkToken' /\ MainHolds'
      BY <2>2, <2>6, <3>1, <3>2, <3>3
         DEF IdsAreOwn, ThinkToken, MainHolds, Held, Seated
    <3>5. ASSUME NEW p \in Procs, Seated(p), proc[p].id = count - 1
          PROVE  proc[p].pc = "wait_think"
      <4>1. PICK q \in Procs : proc[q].pc = "wait_think" /\ proc[q].id = count - 1
        BY <3>2 DEF Held, Waits
      <4>2. QED
        BY <2>2, <2>4, <3>5, <4>1 DEF IdsAreOwn
    <3>6. ASSUME NEW p \in Procs, Seated(p), proc[p].id >= count - 1
          PROVE  /\ proc[p].pc \in {"wait_think", "check"}
                 /\ state'[proc[p].id] = "LEAVING"
      BY <2>3, <2>4, <2>5, <2>6, <3>1, <3>5, <3>6
    <3>7. RemovedIsOut'
      BY <3>1, <3>6 DEF RemovedIsOut, Seated
    <3>8. QED
      BY <3>4, <3>7
  <2>22. ASSUME RemovePost PROVE Good'
    <3>1. /\ main = "post_think" /\ main' = "loop"
          /\ think_unlock' = [think_unlock EXCEPT ![count] = @ + 1]
          /\ UNCHANGED <<count, state, proc>>
      BY <2>22 DEF RemovePost
    <3>2. Held(count) /\ count \in Ids
      BY <2>2, <2>6, <3>1 DEF MainHolds
    <3>3. /\ think_unlock'[count] = 1
          /\ \A i \in Ids \ {count} : think_unlock'[i] = think_unlock[i]
      BY <2>5, <3>1, <3>2 DEF Held
    <3>4. \A i \in Ids : Waits(i) <=> Waits(i)'
      BY <3>1 DEF Waits
    <3>5. IdsAreOwn' /\ RemovedIsOut' /\ MainHolds'
      BY <2>2, <2>3, <3>1 DEF IdsAreOwn, RemovedIsOut, MainHolds, Seated
    <3>6. ThinkToken'
      BY <2>2, <3>2, <3>3, <3>4 DEF ThinkToken, Held
    <3>7. QED
      BY <3>5, <3>6
  <2>23. ASSUME ShowTable \/ UNCHANGED vars PROVE Good'
    <3>1. UNCHANGED <<count, state, think_unlock, proc, main>>
      BY <2>23 DEF ShowTable, vars, shared
    <3>2. IdsAreOwn' /\ RemovedIsOut'
      BY <2>2, <2>3, <3>1 DEF IdsAreOwn, RemovedIsOut, Seated
    <3>3. \A i \in Ids : Waits(i) => Waits(i)'
      BY <3>1 DEF Waits
    <3>4. QED
      BY <1>1, <2>2, <3>1, <3>2, <3>3, TokensKept
  <2>24. Good'
    BY <2>11, <2>12, <2>13, <2>14, <2>15, <2>16, <2>17, <2>18, <2>19, <2>20,
       <2>21, <2>22, <2>23 DEF Next, Phylo, Removing, PhyloProc
  <2>25. QED
    BY <1>1, <2>24 DEF LeaveInv
<1>4. QED
  BY <1>2, <1>3

-----------------------------------------------------------------------------
(***************************************************************************)
(* The tokens of hungry_lock.  A token is there only for a philosopher     *)
(* that waits for it: without this, one left over from an earlier turn     *)
(* would let its philosopher eat unasked.                                  *)
(***************************************************************************)
WaitsToEat(i) == \E p \in Procs : At(p, "wait_hungry") /\ proc[p].id = i

HungryToken == \A i \in Ids : hungry_lock[i] > 0 => WaitsToEat(i)

TokenInv ==
    /\ PermissionIsKept
    /\ met \subseteq {"removed"} => HungryToken

\* One process: HUNGRY without a token or EATING with one.
Permitted(p) ==
    \/ state[proc[p].id] = "HUNGRY" /\ hungry_lock[proc[p].id] = 0
    \/ state[proc[p].id] = "EATING" /\ hungry_lock[proc[p].id] = 1

\* At the start no token has been posted and nobody waits.
LEMMA TokenInit == Init => TokenInv
<1> SUFFICES ASSUME Init PROVE TokenInv
  OBVIOUS
<1>1. \A i \in Ids : hungry_lock[i] = 0
  BY DEF Init
<1>2. \A p \in Procs : ~At(p, "wait_hungry")
  BY DEF Init, At, Proc, NoProc
<1>3. QED
  BY <1>1, <1>2 DEF TokenInv, PermissionIsKept, HungryToken

\* A token is posted for, and taken by, one philosopher that waits.
LEMMA TokenStep == LeaveInv /\ TokenInv /\ [Next]_vars => TokenInv'
<1> SUFFICES ASSUME LeaveInv, TokenInv, [Next]_vars,
                    met' \subseteq {"removed"}
             PROVE  HungryToken' /\ \A p \in Procs :
                        At(p, "wait_hungry")' => Permitted(p)'
  BY DEF TokenInv, PermissionIsKept, Permitted
<1> DEFINE Good == HungryToken /\ \A p \in Procs :
    At(p, "wait_hungry") => Permitted(p)
<1>1. PhyloTypes /\ PhyloTypes'
  BY TypesStep DEF LeaveInv
<1>2. /\ met \subseteq {"removed"}
      /\ "shared_id" \notin met
      /\ "shared_id" \notin met'
  BY MetGrows
<1>3. HungryToken /\ \A p \in Procs : At(p, "wait_hungry") => Permitted(p)
  BY <1>2 DEF TokenInv, PermissionIsKept, Permitted
<1>4. IdsAreOwn /\ MainHolds
  BY <1>2 DEF LeaveInv
<1>5. \A p \in Procs :
          Seated(p) /\ proc[p].id >= count => proc[p].pc \in {"wait_think", "check"}
  BY <1>2 DEF LeaveInv, RemovedIsOut, Seated
<1>6. \A p \in Procs : /\ proc[p].id \in Ids /\ proc[p].id \in Nat
                       /\ proc[p].pc # "none" => Seated(p)
  BY <1>1, ProcType, AtSeated
<1>7. hungry_lock \in [Ids -> Nat] /\ state \in [Ids -> State]
  BY <1>1 DEF PhyloTypes
<1>8. count \in Nat
  BY <1>1, CountRange
<1>9. ASSUME NEW p \in Procs, proc[p].pc # "none", WaitsToEat(proc[p].id)
      PROVE  At(p, "wait_hungry")
  BY <1>4, <1>6, <1>9 DEF WaitsToEat, IdsAreOwn, At
<1> USE DEF At
<1>11. ASSUME NEW p \in Procs, TakeFork(p) PROVE Good'
  <2>1. proc[p].pc = "take_fork" /\ Goto(p, "wait_hungry")
    BY <1>11 DEF TakeFork, At
  <2>2. /\ proc'[p].id = proc[p].id /\ proc'[p].pc = "wait_hungry"
        /\ \A q \in Procs \ {p} : proc'[q] = proc[q]
    BY <1>1, <2>1, GotoEffect DEF Pcs
  <2>3. proc[p].id < count
    BY <1>5, <1>6, <1>8, <2>1
  <2>4. /\ \A i \in Ids \ {proc[p].id} : Untouched(i)
        /\ \/ state'[proc[p].id] = "HUNGRY" /\ hungry_lock'[proc[p].id] = hungry_lock[proc[p].id]
           \/ /\ state'[proc[p].id] = "EATING"
              /\ hungry_lock'[proc[p].id] = hungry_lock[proc[p].id] + 1
    BY <1>1, <1>11, <2>3, TakeForkEffect
  <2>5. hungry_lock[proc[p].id] = 0
    BY <1>3, <1>6, <1>7, <1>9, <2>1 DEF HungryToken
  <2>6. HungryToken'
    <3>1. WaitsToEat(proc[p].id)' /\ \A i \in Ids :
              WaitsToEat(i) => WaitsToEat(i)'
      BY <2>1, <2>2 DEF WaitsToEat
    <3>2. QED
      BY <1>3, <2>2, <2>4, <3>1 DEF HungryToken, Untouched
  <2>7. Permitted(p)'
    BY <2>2, <2>4, <2>5 DEF Permitted
  <2>8. ASSUME NEW q \in Procs \ {p}, At(q, "wait_hungry")' PROVE Permitted(q)'
    <3>1. proc[q].id # proc[p].id
      BY <1>4, <1>6, <2>1, <2>2, <2>8 DEF IdsAreOwn
    <3>2. QED
      BY <1>3, <1>6, <2>2, <2>4, <2>8, <3>1 DEF Permitted, Untouched
  <2>9. QED
    BY <2>6, <2>7, <2>8
<1>12. ASSUME NEW p \in Procs, WaitHungry(p) PROVE Good'
  <2>1. /\ proc[p].pc = "wait_hungry" /\ Goto(p, "put_fork")
        /\ hungry_lock[proc[p].id] > 0 /\ UNCHANGED state
        /\ hungry_lock' = [hungry_lock EXCEPT ![proc[p].id] = @ - 1]
    BY <1>12 DEF WaitHungry, At
  <2>2. /\ proc'[p].id = proc[p].id /\ proc'[p].pc = "put_fork"
        /\ \A q \in Procs \ {p} : proc'[q] = proc[q]
    BY <1>1, <2>1, GotoEffect DEF Pcs
  <2>3. hungry_lock[proc[p].id] = 1
    BY <1>3, <1>6, <1>7, <2>1 DEF Permitted
  <2>4. /\ hungry_lock'[proc[p].id] = 0
        /\ \A i \in Ids \ {proc[p].id} : hungry_lock'[i] = hungry_lock[i]
    BY <1>6, <1>7, <2>1, <2>3
  <2>5. HungryToken'
    <3>1. \A i \in Ids \ {proc[p].id} : WaitsToEat(i) => WaitsToEat(i)'
      BY <2>1, <2>2 DEF WaitsToEat
    <3>2. QED
      BY <1>3, <2>4, <3>1 DEF HungryToken
  <2>6. ASSUME NEW q \in Procs, At(q, "wait_hungry")' PROVE Permitted(q)'
    <3>1. q # p /\ proc'[q] = proc[q] /\ proc[q].id # proc[p].id
      BY <1>4, <1>6, <2>1, <2>2, <2>6 DEF IdsAreOwn
    <3>2. QED
      BY <1>3, <1>6, <2>1, <2>4, <2>6, <3>1 DEF Permitted
  <2>7. QED
    BY <2>5, <2>6
<1>13. ASSUME NEW p \in Procs, PutFork(p) PROVE Good'
  <2>1. /\ proc[p].pc = "put_fork" /\ Goto(p, "post_think")
        /\ Note(Phantom, "phantom")
    BY <1>13 DEF PutFork, At
  <2>2. /\ proc'[p].id = proc[p].id /\ proc'[p].pc = "post_think"
        /\ \A q \in Procs \ {p} : proc'[q] = proc[q]
    BY <1>1, <2>1, GotoEffect DEF Pcs
  <2>3. proc[p].id < count
    BY <1>5, <1>6, <1>8, <2>1
  <2>4. /\ hungry_lock'[proc[p].id] = hungry_lock[proc[p].id]
        /\ \A i \in Ids \ {proc[p].id} : Untouched(i) \/ Served(i)
    BY <1>1, <1>13, <2>3, PutForkEffect
  <2>5. ~Phantom
    BY <2>1 DEF Note
  <2>6. \A i \in Ids : hungry_lock'[i] > hungry_lock[i] => WaitsToEat(i)'
    <3>1. \A i \in Ids : hungry_lock'[i] > hungry_lock[i] =>
             \E q \in Procs : proc'[q] = Proc(i, "wait_hungry")
      BY <2>5 DEF Phantom
    <3>2. \A i :
              Proc(i, "wait_hungry").id = i /\ Proc(i, "wait_hungry").pc = "wait_hungry"
      BY DEF Proc
    <3>3. QED
      BY <3>1, <3>2 DEF WaitsToEat
  <2>7. \A i \in Ids : WaitsToEat(i) => WaitsToEat(i)'
    BY <2>1, <2>2 DEF WaitsToEat
  <2>8. HungryToken'
    <3>1. \A i \in Ids :
              hungry_lock'[i] = hungry_lock[i] \/ hungry_lock'[i] = hungry_lock[i] + 1
      BY <2>4 DEF Untouched, Served
    <3>2. \A i \in Ids : hungry_lock[i] \in Nat
      BY <1>7
    <3>3. QED
      BY <1>3, <2>6, <2>7, <3>1, <3>2 DEF HungryToken
  <2>9. ASSUME NEW q \in Procs, At(q, "wait_hungry")' PROVE Permitted(q)'
    <3>1. q # p /\ proc'[q] = proc[q] /\ proc[q].id # proc[p].id
      BY <1>4, <1>6, <2>1, <2>2, <2>9 DEF IdsAreOwn
    <3>2. Permitted(q) /\ (Untouched(proc[q].id) \/ Served(proc[q].id))
      BY <1>3, <1>6, <2>4, <2>9, <3>1
    <3>3. QED
      BY <3>1, <3>2 DEF Permitted, Untouched, Served
  <2>10. QED
    BY <2>8, <2>9
<1>14. ASSUME NEW p \in Procs, PostThink(p) \/ WaitThink(p) \/ Check(p)
       PROVE  Good'
  <2>1. /\ UNCHANGED <<state, hungry_lock>>
        /\ \A q \in Procs \ {p} : proc'[q] = proc[q]
        /\ proc[p].pc # "wait_hungry" /\ proc'[p].pc # "wait_hungry"
    <3>1. CASE PostThink(p)
      BY <1>1, <3>1, GotoEffect DEF PostThink, Pcs
    <3>2. CASE WaitThink(p)
      BY <1>1, <3>2, GotoEffect DEF WaitThink, Pcs
    <3>3. CASE Check(p) /\ state[proc[p].id] # "LEAVING"
      BY <1>1, <3>3, GotoEffect DEF Check, Pcs, shared
    <3>4. CASE Check(p) /\ state[proc[p].id] = "LEAVING"
      BY <1>1, <3>4 DEF Check, PhyloTypes, NoProc, Proc, shared
    <3>5. QED
      BY <1>14, <3>1, <3>2, <3>3, <3>4
  <2>2. \A i \in Ids : WaitsToEat(i) => WaitsToEat(i)'
    BY <2>1 DEF WaitsToEat
  <2>3. QED
    BY <1>3, <2>1, <2>2 DEF HungryToken, Permitted
<1>15. ASSUME AddPhylo PROVE Good'
  <2>1. PICK p \in Procs : /\ proc[p] = NoProc
                           /\ proc' = [proc EXCEPT ![p] = Proc(count, "take_fork")]
    BY <1>15 DEF AddPhylo
  <2>2. /\ proc'[p].pc = "take_fork" /\ proc[p].pc = "none"
        /\ \A q \in Procs \ {p} : proc'[q] = proc[q]
    BY <1>1, <2>1 DEF Proc, NoProc, PhyloTypes
  <2>3. \A q \in Procs : Seated(q) => proc[q].id # count
    BY <1>2, <1>15 DEF AddPhylo, Note, Seated
  <2>4. /\ state' = [state EXCEPT ![count] = "THINKING"]
        /\ UNCHANGED hungry_lock
    BY <1>15 DEF AddPhylo
  <2>5. \A i \in Ids : WaitsToEat(i) => WaitsToEat(i)'
    BY <2>2 DEF WaitsToEat
  <2>6. ASSUME NEW q \in Procs, At(q, "wait_hungry")' PROVE Permitted(q)'
    <3>1. q # p /\ proc'[q] = proc[q] /\ proc[q].id # count
      BY <1>6, <2>2, <2>3, <2>6
    <3>2. QED
      BY <1>3, <1>6, <1>7, <2>4, <2>6, <3>1 DEF Permitted
  <2>7. QED
    BY <1>3, <2>4, <2>5, <2>6 DEF HungryToken
<1>16. ASSUME RemovePhylo PROVE Good'
  <2>1. /\ state' = [state EXCEPT ![count - 1] = "LEAVING"]
        /\ UNCHANGED <<hungry_lock, proc>> /\ Held(count - 1)
    BY <1>4, <1>16 DEF RemovePhylo, MainHolds
  <2>2. PICK q \in Procs : proc[q].pc = "wait_think" /\ proc[q].id = count - 1
    BY <2>1 DEF Held, Waits
  <2>3. ASSUME NEW p \in Procs, At(p, "wait_hungry")' PROVE Permitted(p)'
    <3>1. proc'[p] = proc[p] /\ proc[p].id # count - 1
      BY <1>4, <1>6, <2>1, <2>2, <2>3 DEF IdsAreOwn
    <3>2. QED
      BY <1>3, <1>6, <1>7, <2>1, <2>3, <3>1 DEF Permitted
  <2>4. QED
    BY <1>3, <2>1, <2>3 DEF HungryToken, WaitsToEat
<1>17. ASSUME AskRemove \/ RemoveWait \/ RemovePost \/ ShowTable \/ UNCHANGED vars
       PROVE  Good'
  <2>1. UNCHANGED <<state, hungry_lock, proc>>
    BY <1>17 DEF AskRemove, RemoveWait, RemovePost, ShowTable, vars, shared
  <2>2. QED
    BY <1>3, <2>1 DEF HungryToken, WaitsToEat, Permitted
<1>18. QED
  BY <1>11, <1>12, <1>13, <1>14, <1>15, <1>16, <1>17
     DEF Next, Phylo, Removing, PhyloProc

-----------------------------------------------------------------------------
(***************************************************************************)
(* Who has the forks.  A philosopher has them from the moment its state    *)
(* becomes EATING, before it takes the token, until put_fork.  An entry    *)
(* that reads EATING without its philosopher having the forks (one that    *)
(* was never written) only makes the others wait.                          *)
(***************************************************************************)
Eats(p) ==
    \/ At(p, "put_fork")
    \/ At(p, "wait_hungry") /\ state[proc[p].id] = "EATING"

Beside(i, j) == j \in {LEFT(i), RIGHT(i)}

EatInv ==
    met = {} =>
        /\ \A p \in Procs : Eats(p) => state[proc[p].id] = "EATING"
        /\ \A p, q \in Procs :
              Eats(p) /\ Eats(q) /\ p # q => ~Beside(proc[p].id, proc[q].id)

\* A philosopher is its neighbour's neighbour.
LEMMA BesideSymmetric ==
    ASSUME PhyloTypes, NEW i \in 0..(count - 1), NEW j \in 0..(count - 1)
    PROVE  Beside(i, j) <=> Beside(j, i)
  BY CountRange, Neighbours DEF Beside

\* When the table grows, no two who were apart come to sit side by side.
LEMMA BesideAfterAdd ==
    ASSUME PhyloTypes, PhyloTypes', count' = count + 1,
           NEW i \in 0..(count - 1), NEW j \in 0..(count - 1), Beside(i, j)'
    PROVE  Beside(i, j)
<1>1. count \in Nat /\ count > 1 /\ count' \in Nat /\ count' > 1
  BY CountRange
<1>2. /\ LEFT(i) = IF i = 0 THEN count - 1 ELSE i - 1
      /\ RIGHT(i) = IF i = count - 1 THEN 0 ELSE i + 1
  BY <1>1, Neighbours
<1>3. i \in 0..(count' - 1)
  BY <1>1
<1>4. (/\ LEFT(i) = IF i = 0 THEN count - 1 ELSE i - 1
       /\ RIGHT(i) = IF i = count - 1 THEN 0 ELSE i + 1)'
  BY <1>1, <1>3, NeighboursNext DEF NeighbourTable
<1>5. QED
  BY <1>1, <1>2, <1>3, <1>4 DEF Beside

\* At the start nobody has taken forks.
LEMMA EatInit == Init => EatInv
<1> SUFFICES ASSUME Init PROVE \A p \in Procs : ~Eats(p)
  BY DEF EatInv
<1>1. QED
  BY DEF Init, Eats, At, Proc, NoProc

\* No step gives forks to a philosopher beside one that has them.
LEMMA EatStep == LeaveInv /\ TokenInv /\ EatInv /\ [Next]_vars => EatInv'
<1> SUFFICES ASSUME LeaveInv, TokenInv, EatInv, [Next]_vars, met' = {}
             PROVE  EatInv'
  BY DEF EatInv
<1> DEFINE Fed == \A p \in Procs : Eats(p) => state[proc[p].id] = "EATING"
           Apart == \A p, q \in Procs :
              Eats(p) /\ Eats(q) /\ p # q => ~Beside(proc[p].id, proc[q].id)
<1>1. PhyloTypes /\ PhyloTypes'
  BY TypesStep DEF LeaveInv
<1>2. met = {}
  BY MetGrows
<1>3. Fed /\ Apart
  BY <1>2 DEF EatInv
<1>4. IdsAreOwn
  BY <1>2 DEF LeaveInv
<1>5. \A p \in Procs : /\ proc[p].id \in Ids /\ proc[p].id \in Nat
                       /\ proc[p].pc # "none" => Seated(p)
  BY <1>1, ProcType, AtSeated
<1>6. count \in Nat /\ count > 1
  BY <1>1, CountRange
<1>7. \A p \in Procs :
          proc[p].pc \in {"take_fork", "wait_hungry", "put_fork"} =>
          proc[p].id < count /\ proc[p].id \in 0..(count - 1)
  BY <1>2, <1>5, <1>6 DEF LeaveInv, RemovedIsOut, Seated
<1>8. \A p \in Procs : Eats(p) => proc[p].id \in 0..(count - 1) /\ Seated(p)
  BY <1>5, <1>7 DEF Eats, At
<1>9. state \in [Ids -> State]
  BY <1>1 DEF PhyloTypes
<1> HIDE DEF Fed, Apart
<1>11. ASSUME NEW p \in Procs, TakeFork(p) PROVE Fed' /\ Apart'
  <2>1. proc[p].pc = "take_fork" /\ Goto(p, "wait_hungry") /\ UNCHANGED count
    BY <1>11 DEF TakeFork, At
  <2>2. /\ proc'[p].id = proc[p].id /\ proc'[p].pc = "wait_hungry"
        /\ \A q \in Procs \ {p} : proc'[q] = proc[q]
    BY <1>1, <2>1, GotoEffect DEF Pcs
  <2>3. proc[p].id \in 0..(count - 1) /\ Seated(p) /\ proc[p].id < count
    BY <1>5, <1>7, <2>1
  <2>4. /\ \A i \in Ids \ {proc[p].id} : state'[i] = state[i]
        /\ \/ state'[proc[p].id] = "HUNGRY"
           \/ /\ state'[LEFT(proc[p].id)] # "EATING"
              /\ state'[RIGHT(proc[p].id)] # "EATING"
    BY <1>1, <1>11, <2>3, TakeForkEffect DEF Untouched
  <2>5. ASSUME NEW q \in Procs \ {p}, Eats(q)'
        PROVE  Eats(q) /\ state'[proc[q].id] = "EATING"
    <3>1. proc'[q] = proc[q] /\ proc[q].id # proc[p].id
      BY <1>4, <1>5, <2>2, <2>3, <2>5 DEF IdsAreOwn, Eats, At
    <3>2. Eats(q)
      BY <1>5, <2>4, <2>5, <3>1 DEF Eats, At
    <3>3. QED
      BY <1>3, <1>5, <2>4, <3>1, <3>2 DEF Fed
  <2>6. ASSUME Eats(p)', NEW q \in Procs \ {p}, Eats(q)'
        PROVE  /\ ~Beside(proc[p].id, proc[q].id)
               /\ ~Beside(proc[q].id, proc[p].id)
    <3>1. state'[proc[p].id] = "EATING"
      BY <2>2, <2>6 DEF Eats, At
    <3>2. ~Beside(proc[p].id, proc[q].id)
      BY <2>4, <2>5, <2>6, <3>1 DEF Beside
    <3>3. QED
      BY <1>1, <1>8, <2>3, <2>5, <2>6, <3>2, BesideSymmetric
  <2>7. Fed'
    BY <2>2, <2>5 DEF Fed, Eats, At
  <2>8. \A i, j : Beside(i, j)' <=> Beside(i, j)
    BY <2>1 DEF Beside, LEFT, RIGHT
  <2>9. Apart'
    BY <1>3, <2>2, <2>5, <2>6, <2>8 DEF Apart
  <2>10. QED
    BY <2>7, <2>9
<1>12. ASSUME NEW p \in Procs, WaitHungry(p) PROVE Fed' /\ Apart'
  <2>1. /\ proc[p].pc = "wait_hungry" /\ Goto(p, "put_fork")
        /\ hungry_lock[proc[p].id] > 0 /\ UNCHANGED <<count, state>>
    BY <1>12 DEF WaitHungry, At
  <2>2. /\ proc'[p].id = proc[p].id /\ proc'[p].pc = "put_fork"
        /\ \A q \in Procs \ {p} : proc'[q] = proc[q]
    BY <1>1, <2>1, GotoEffect DEF Pcs
  <2>3. Eats(p)
    BY <1>2, <2>1 DEF TokenInv, PermissionIsKept, Eats, At
  <2>4. \A q \in Procs : Eats(q)' => Eats(q) /\ proc'[q].id = proc[q].id
    BY <2>1, <2>2, <2>3 DEF Eats, At
  <2>5. \A i, j : Beside(i, j)' <=> Beside(i, j)
    BY <2>1 DEF Beside, LEFT, RIGHT
  <2>6. QED
    BY <1>3, <2>1, <2>4, <2>5 DEF Fed, Apart
<1>13. ASSUME NEW p \in Procs, PutFork(p) PROVE Fed' /\ Apart'
  <2>1. proc[p].pc = "put_fork" /\ Goto(p, "post_think") /\ UNCHANGED count
    BY <1>13 DEF PutFork, At
  <2>2. /\ proc'[p].id = proc[p].id /\ proc'[p].pc = "post_think"
        /\ \A q \in Procs \ {p} : proc'[q] = proc[q]
    BY <1>1, <2>1, GotoEffect DEF Pcs
  <2>3. proc[p].id < count /\ Seated(p)
    BY <1>5, <1>7, <2>1
  <2>4. \A i \in Ids \ {proc[p].id} : Untouched(i) \/ Served(i)
    BY <1>1, <1>13, <2>3, PutForkEffect
  <2>5. ASSUME NEW q \in Procs, Eats(q)'
        PROVE  /\ q # p /\ proc'[q] = proc[q] /\ state'[proc[q].id] = "EATING"
               /\ proc[q].id \in 0..(count - 1)
               /\ \/ Eats(q)
                  \/ /\ state'[LEFT(proc[q].id)] # "EATING"
                     /\ state'[RIGHT(proc[q].id)] # "EATING"
    <3>1. q # p /\ proc'[q] = proc[q]
      BY <2>2, <2>5 DEF Eats, At
    <3>2. proc[q].id # proc[p].id /\ proc[q].id \in Ids
      BY <1>4, <1>5, <2>3, <2>5, <3>1 DEF IdsAreOwn, Eats, At
    <3>3. CASE Untouched(proc[q].id)
      BY <1>3, <1>8, <2>5, <3>1, <3>3 DEF Fed, Eats, At, Untouched
    <3>4. CASE Served(proc[q].id)
      BY <1>7, <2>5, <3>1, <3>4 DEF Eats, At, Served
    <3>5. QED
      BY <2>4, <3>2, <3>3, <3>4
  <2>6. \A i, j : Beside(i, j)' <=> Beside(i, j)
    BY <2>1 DEF Beside, LEFT, RIGHT
  <2>7. ASSUME NEW q \in Procs, NEW r \in Procs, q # r, Eats(q)', Eats(r)'
        PROVE  ~Beside(proc[q].id, proc[r].id)
    <3>1. CASE Eats(q) /\ Eats(r)
      BY <1>3, <2>7, <3>1 DEF Apart
    <3>2. CASE ~Eats(q)
      BY <2>5, <2>7, <3>2 DEF Beside
    <3>3. CASE ~Eats(r)
      <4>1. ~Beside(proc[r].id, proc[q].id)
        BY <2>5, <2>7, <3>3 DEF Beside
      <4>2. QED
        BY <1>1, <2>5, <2>7, <4>1, BesideSymmetric
    <3>4. QED
      BY <3>1, <3>2, <3>3
  <2>8. Fed'
    BY <2>5 DEF Fed
  <2>9. Apart'
    BY <2>5, <2>6, <2>7 DEF Apart
  <2>10. QED
    BY <2>8, <2>9
<1>14. ASSUME NEW p \in Procs, PostThink(p) \/ WaitThink(p) \/ Check(p)
       PROVE  Fed' /\ Apart'
  <2>1. /\ UNCHANGED <<count, state>>
        /\ \A q \in Procs \ {p} : proc'[q] = proc[q]
        /\ proc'[p].pc \notin {"wait_hungry", "put_fork"}
    <3>1. CASE PostThink(p)
      BY <1>1, <3>1, GotoEffect DEF PostThink, Pcs
    <3>2. CASE WaitThink(p)
      BY <1>1, <3>2, GotoEffect DEF WaitThink, Pcs
    <3>3. CASE Check(p) /\ state[proc[p].id] # "LEAVING"
      BY <1>1, <3>3, GotoEffect DEF Check, Pcs, shared
    <3>4. CASE Check(p) /\ state[proc[p].id] = "LEAVING"
      BY <1>1, <3>4 DEF Check, PhyloTypes, NoProc, Proc, shared
    <3>5. QED
      BY <1>14, <3>1, <3>2, <3>3, <3>4
  <2>2. \A q \in Procs : Eats(q)' => Eats(q) /\ proc'[q] = proc[q]
    BY <2>1 DEF Eats, At
  <2>3. \A i, j : Beside(i, j)' <=> Beside(i, j)
    BY <2>1 DEF Beside, LEFT, RIGHT
  <2>4. QED
    BY <1>3, <2>1, <2>2, <2>3 DEF Fed, Apart
<1>15. ASSUME AddPhylo PROVE Fed' /\ Apart'
  <2>1. PICK p \in Procs : /\ proc[p] = NoProc
                           /\ proc' = [proc EXCEPT ![p] = Proc(count, "take_fork")]
    BY <1>15 DEF AddPhylo
  <2>2. /\ proc'[p].pc = "take_fork"
        /\ \A q \in Procs \ {p} : proc'[q] = proc[q]
    BY <1>1, <2>1 DEF Proc, PhyloTypes
  <2>3. /\ state' = [state EXCEPT ![count] = "THINKING"] /\ count' = count + 1
    BY <1>15 DEF AddPhylo
  <2>4. ASSUME NEW q \in Procs, Eats(q)'
        PROVE  Eats(q) /\ proc'[q] = proc[q] /\ state'[proc[q].id] = "EATING"
    <3>1. q # p /\ proc'[q] = proc[q]
      BY <2>2, <2>4 DEF Eats, At
    <3>2. proc[q].pc \in {"wait_hungry", "put_fork"}
      BY <2>4, <3>1 DEF Eats, At
    <3>3. proc[q].id # count /\ state'[proc[q].id] = state[proc[q].id]
      BY <1>5, <1>6, <1>7, <1>9, <2>3, <3>2
    <3>4. Eats(q)
      BY <2>4, <3>1, <3>3 DEF Eats, At
    <3>5. QED
      BY <1>3, <3>1, <3>3, <3>4 DEF Fed
  <2>5. Fed'
    BY <2>4 DEF Fed
  <2>6. ASSUME NEW q \in Procs, NEW r \in Procs, q # r, Eats(q)', Eats(r)'
        PROVE  ~Beside(proc[q].id, proc[r].id)'
    <3>1. Eats(q) /\ Eats(r) /\ proc'[q] = proc[q] /\ proc'[r] = proc[r]
      BY <2>4, <2>6
    <3> DEFINE i == proc[q].id
               j == proc[r].id
    <3>2. i \in 0..(count - 1) /\ j \in 0..(count - 1) /\ ~Beside(i, j)
      BY <1>3, <1>8, <2>6, <3>1 DEF Apart
    <3>3. \A k, m \in 0..(count - 1) : Beside(k, m)' => Beside(k, m)
      BY <1>1, <2>3, BesideAfterAdd
    <3>4. QED
      BY <3>1, <3>2, <3>3
  <2>7. Apart'
    BY <2>6 DEF Apart
  <2>8. QED
    BY <2>5, <2>7
<1>16. ASSUME AskRemove \/ RemoveWait \/ RemovePost \/ ShowTable \/ UNCHANGED vars
       PROVE  Fed' /\ Apart'
  <2>1. UNCHANGED <<count, state, proc>>
    BY <1>16 DEF AskRemove, RemoveWait, RemovePost, ShowTable, vars, shared
  <2>2. QED
    BY <1>3, <2>1 DEF Fed, Apart, Eats, At, Beside, LEFT, RIGHT
<1>17. ~RemovePhylo
  BY DEF RemovePhylo, Note
<1>18. Fed' /\ Apart'
  BY <1>11, <1>12, <1>13, <1>14, <1>15, <1>16, <1>17
     DEF Next, Phylo, Removing, PhyloProc
<1>19. QED
  BY <1>18 DEF EatInv, Fed, Apart

-----------------------------------------------------------------------------
\* phylo.c, removePhylo: for every size of the table and every order of steps,
\* a philosopher asked to leave holds no fork, waits for none and can only
\* end, until another is added in its place before it has looked.
THEOREM RemovedPhilosopherIsOut == Spec => []RemovedIsOut
<1>1. Spec => []LeaveInv
  BY LeaveInit, LeaveStep, PTL DEF Spec
<1>2. LeaveInv => RemovedIsOut
  BY DEF LeaveInv
<1>3. QED
  BY <1>1, <1>2, PTL

\* phylo.c, take_fork, put_fork and test: the right to eat is neither lost nor
\* given twice, through any number of additions and removals.
THEOREM PermissionNeverLost == Spec => []PermissionIsKept
<1>1. Spec => [](LeaveInv /\ TokenInv)
  BY LeaveInit, LeaveStep, TokenInit, TokenStep, PTL DEF Spec
<1>2. TokenInv => PermissionIsKept
  BY DEF TokenInv
<1>3. QED
  BY <1>1, <1>2, PTL

\* Until one is removed and while no unwritten entry has been taken for a
\* hungry one, no two neighbours eat, for every size the table grows to.
THEOREM NeighboursNeverEat == Spec => []NeighboursDontEat
<1>1. Spec => [](LeaveInv /\ TokenInv /\ EatInv)
  BY LeaveInit, LeaveStep, TokenInit, TokenStep, EatInit, EatStep, PTL DEF Spec
<1>2. EatInv => NeighboursDontEat
  BY DEF EatInv, NeighboursDontEat, Eats, Beside
<1>3. QED
  BY <1>1, <1>2, PTL
=============================================================================
