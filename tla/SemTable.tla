------------------------------ MODULE SemTable ------------------------------
(***************************************************************************)
(* The table of named semaphores of Kernel/semaphore.c: sem_open,          *)
(* sem_close and the lookup by name that sem_wait and sem_post start with. *)
(* Each is a system call with interrupts off, hence one step.  A slot is   *)
(* in use when its sem_id is odd; open_count is kept signed, as the test   *)
(* `(int)c < 1' reads it.                                                  *)
(***************************************************************************)
EXTENDS Integers, FiniteSets, FiniteSetsExt

CONSTANTS
    Procs,          \* the processes that use semaphores
    Names,          \* the names user programs give to semaphores
    MaxSems,        \* MAX_SEMS
    MaxOpens,       \* bound: opens a process has pending on one name
    MaxCount        \* bound: open_count stops growing here (only slot 0 does)

\* The semaphores init_scheduler opens, in the order of their slots.
KernelNames == {"PROCESSES_MUTEX", "SCHEDULER_MUTEX", "PROC_MUTEX"}

ASSUME TableAssumption ==
    /\ IsFiniteSet(Procs)
    /\ MaxSems \in Nat /\ MaxSems > 3
    /\ MaxOpens \in Nat \ {0}
    /\ MaxCount \in Nat /\ MaxCount > 3
    /\ Names \cap KernelNames = {}

VARIABLES
    sems,           \* semaphores[]: in use or not, name and open_count
    opens           \* history: opens minus closes of a name by a process

tableVars == <<sems, opens>>

Slots == 0..(MaxSems - 1)
NoName == ""        \* what sem_close copies into the name

Sem(name, count) == [used |-> TRUE, name |-> name, openCount |-> count]
Inc(count) == IF count < MaxCount THEN count + 1 ELSE count
FreeSem == [used |-> FALSE, name |-> NoName, openCount |-> 0]

\* get_sem_by_name and get_new_sem: the slots their loops stop at, if any.
Holding(name) == {i \in Slots : sems[i].used /\ sems[i].name = name}
Unused == {i \in Slots : ~sems[i].used}

(***************************************************************************)
(* The slot whose open_count sem_open increments after sem_init took slot  *)
(* i: sem_init returns SUCCESS_SIGNAL, which is 0, and not i.              *)
(***************************************************************************)
CountedSlot(i) == 0

\* The table after init_scheduler: three slots taken, all three opens
\* counted in slot 0.
Init ==
    /\ sems = [i \in Slots |->
                 CASE i = 0 -> Sem("PROCESSES_MUTEX", 3)
                   [] i = 1 -> Sem("SCHEDULER_MUTEX", 0)
                   [] i = 2 -> Sem("PROC_MUTEX", 0)
                   [] OTHER -> FreeSem]
    /\ opens = [p \in Procs |-> [n \in Names |-> 0]]

\* Mutant of SemOpen: a slot is initialised without looking for the name.
SemOpenNoLookup(p, name) ==
    /\ opens[p][name] < MaxOpens
    /\ Unused # {}
    /\ opens' = [opens EXCEPT ![p][name] = @ + 1]
    /\ LET i == Min(Unused)
           taken == [sems EXCEPT ![i] = Sem(name, 0)]
       IN  sems' = [taken EXCEPT ![CountedSlot(i)].openCount = Inc(@)]

\* A full table makes sem_open return ERROR and change nothing.
SemOpen(p, name) ==
    /\ opens[p][name] < MaxOpens
    /\ Holding(name) \cup Unused # {}
    /\ opens' = [opens EXCEPT ![p][name] = @ + 1]
    /\ \/ /\ Holding(name) # {}
          /\ sems' = [sems EXCEPT ![Min(Holding(name))].openCount = Inc(@)]
       \/ /\ Holding(name) = {}
          /\ LET i == Min(Unused)
                 taken == [sems EXCEPT ![i] = Sem(name, 0)]
             IN  sems' = [taken EXCEPT ![CountedSlot(i)].openCount = Inc(@)]

\* Mutant of Closed: freed at exactly zero.
ClosedAtZero(s) ==
    LET c == s.openCount - 1
    IN  IF c = 0 THEN [FreeSem EXCEPT !.openCount = c]
                 ELSE [s EXCEPT !.openCount = c]

\* The slot after --(sem->open_count).
Closed(s) ==
    LET c == s.openCount - 1
    IN  IF c < 1 THEN [FreeSem EXCEPT !.openCount = c]
                 ELSE [s EXCEPT !.openCount = c]

\* Closing a name that is not in the table returns ERROR.
SemClose(p, name) ==
    /\ opens[p][name] > 0
    /\ opens' = [opens EXCEPT ![p][name] = @ - 1]
    /\ IF Holding(name) = {}
       THEN UNCHANGED sems
       ELSE sems' = [sems EXCEPT ![Min(Holding(name))] = Closed(@)]

Next == \E p \in Procs, name \in Names : SemOpen(p, name) \/ SemClose(p, name)

Spec == Init /\ [][Next]_tableVars

-----------------------------------------------------------------------------
\* Two slots in use never carry the same name: otherwise a waiter and a
\* poster of one name could end up on different semaphores.
NamesUnique == \A name \in Names \cup KernelNames : Cardinality(Holding(name)) <= 1

\* A semaphore nobody has open any more does not keep its slot: closing pairs
\* with opening for every slot but the first, so the table does not fill up.
NoLeakedSlot ==
    \A name \in Names :
        (\A p \in Procs : opens[p][name] = 0) => Holding(name) = {}

\* semaphore.c:108: "If it was closed by everyone, 'free' the sem": a process
\* that opened a semaphore and has not closed it still finds it by its name.
OpenSemIsUsable ==
    \A p \in Procs, name \in Names : opens[p][name] > 0 => Holding(name) # {}
=============================================================================
