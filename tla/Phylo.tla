------------------------------- MODULE Phylo -------------------------------
(***************************************************************************)
(* The dining philosophers, Userland/uCodeModule/phylo.c, with the keys    *)
(* that add and remove philosophers while they eat.  Semaphores are values *)
(* that a wait takes and a post gives back in one step, which is what      *)
(* Semaphore establishes for them; a stretch between sem_wait(MUTEX) and   *)
(* sem_post(MUTEX) is one step.  What the main process prints is left out. *)
(*                                                                         *)
(* Of the CPU the model keeps one thing: sem_post and sem_wait call        *)
(* ready_process on the pids they pop, stale ones of their own caller      *)
(* included.  A process that is READY in the CPU is not preempted          *)
(* (Scheduler, RoundRobinSem): until it yields or ends, no other one runs, *)
(* not even while it spins in sem_wait.                                    *)
(***************************************************************************)
EXTENDS Integers, FiniteSets

CONSTANTS
    MIN, INITIAL, MAX,
    MaxProcs        \* bound: processes that exist at once

ASSUME PhyloAssumption ==
    /\ MIN \in Nat /\ INITIAL \in Nat /\ MAX \in Nat /\ MaxProcs \in Nat
    /\ 1 < MIN /\ MIN <= INITIAL /\ INITIAL <= MAX /\ MAX <= MaxProcs

Ids == 0..(MAX - 1)
Procs == 1..MaxProcs
State == {"THINKING", "HUNGRY", "EATING", "LEAVING"}

VARIABLES
    count, state,   \* shared_data
    hungry_lock,    \* the value of each hungry_lock semaphore
    think_unlock,   \* the value of each think_unlock semaphore
    proc,           \* the phylo_proc processes: what each does next, its id
    main,           \* what the process of phylo does next
    alone,          \* who is READY in the CPU and keeps it
    met             \* history: the situations the code has been in

shared == <<count, state, hungry_lock, think_unlock>>
vars == <<shared, proc, main, alone, met>>

Nobody == 0
Main == -1

HasCPU(p) == alone \in {Nobody, p}

\* What an own sem_post or sem_wait may come to, and what a yield does.
MayKeep(p) == alone' \in {alone, p}
Yields == alone' = Nobody

Proc(id, pc) == [id |-> id, pc |-> pc]
NoProc == Proc(0, "none")

\* state[] is not initialised: its first entries are whatever the stack holds
\* until their philosopher writes them.  MUTEX is posted once all INITIAL
\* processes exist, so that none has passed it before.
Init ==
    /\ count = INITIAL
    /\ \E garbage \in [0..(INITIAL - 1) -> State] :
         state = [i \in Ids |-> IF i < INITIAL THEN garbage[i] ELSE "THINKING"]
    /\ hungry_lock = [i \in Ids |-> 0]
    /\ think_unlock = [i \in Ids |-> 0]
    /\ proc = [p \in Procs |->
                 IF p <= INITIAL THEN Proc(p - 1, "take_fork") ELSE NoProc]
    /\ main = "loop" /\ alone = Nobody
    /\ met = {}

-----------------------------------------------------------------------------
LEFT(id) == (id + count - 1) % count
RIGHT(id) == (id + 1) % count

Forks == [state |-> state, hungry |-> hungry_lock]

\* Mutant of Test: the left fork is not looked at.
TestRight(f, id) ==
    IF f.state[id] = "HUNGRY" /\ f.state[RIGHT(id)] # "EATING"
    THEN [f EXCEPT !.state[id] = "EATING", !.hungry[id] = @ + 1]
    ELSE f

\* Mutant of Test: the fork is given without the post.
TestSilent(f, id) ==
    IF /\ f.state[id] = "HUNGRY"
       /\ f.state[LEFT(id)] # "EATING" /\ f.state[RIGHT(id)] # "EATING"
    THEN [f EXCEPT !.state[id] = "EATING"]
    ELSE f

\* test: a hungry philosopher between two that do not eat gets to eat.
Test(f, id) ==
    IF /\ f.state[id] = "HUNGRY"
       /\ f.state[LEFT(id)] # "EATING" /\ f.state[RIGHT(id)] # "EATING"
    THEN [f EXCEPT !.state[id] = "EATING", !.hungry[id] = @ + 1]
    ELSE f

SetForks(f) == state' = f.state /\ hungry_lock' = f.hungry

Goto(p, pc) == proc' = [proc EXCEPT ![p].pc = pc]
At(p, pc) == proc[p].pc = pc

\* Forks given to nobody: state[id] was never written by philosopher id.
Phantom ==
    \E i \in Ids : /\ hungry_lock'[i] > hungry_lock[i]
                   /\ \A p \in Procs : proc'[p] # Proc(i, "wait_hungry")

Note(happened, what) == met' = IF happened THEN met \cup {what} ELSE met

TakeFork(p) ==
    LET id == proc[p].id
    IN  /\ At(p, "take_fork")
        /\ SetForks(Test([Forks EXCEPT !.state[id] = "HUNGRY"], id))
        /\ Goto(p, "wait_hungry")
        /\ MayKeep(p)
        /\ UNCHANGED <<count, think_unlock, main, met>>

WaitHungry(p) ==
    /\ At(p, "wait_hungry")
    /\ hungry_lock[proc[p].id] > 0
    /\ hungry_lock' = [hungry_lock EXCEPT ![proc[p].id] = @ - 1]
    /\ Goto(p, "put_fork")
    /\ Yields
    /\ UNCHANGED <<count, state, think_unlock, main, met>>

\* Mutant of PutFork: only the left neighbour is served.
PutForkLeft(p) ==
    LET id == proc[p].id
    IN  /\ At(p, "put_fork")
        /\ SetForks(Test([Forks EXCEPT !.state[id] = "THINKING"], LEFT(id)))
        /\ Goto(p, "post_think")
        /\ Note(Phantom, "phantom")
        /\ MayKeep(p)
        /\ UNCHANGED <<count, think_unlock, main>>

PutFork(p) ==
    LET id == proc[p].id
        down == [Forks EXCEPT !.state[id] = "THINKING"]
    IN  /\ At(p, "put_fork")
        /\ SetForks(Test(Test(down, LEFT(id)), RIGHT(id)))
        /\ Goto(p, "post_think")
        /\ Note(Phantom, "phantom")
        /\ MayKeep(p)
        /\ UNCHANGED <<count, think_unlock, main>>

PostThink(p) ==
    /\ At(p, "post_think")
    /\ think_unlock' = [think_unlock EXCEPT ![proc[p].id] = @ + 1]
    /\ Goto(p, "wait_think")
    /\ Yields
    /\ UNCHANGED <<count, state, hungry_lock, main, met>>

WaitThink(p) ==
    /\ At(p, "wait_think")
    /\ think_unlock[proc[p].id] > 0
    /\ think_unlock' = [think_unlock EXCEPT ![proc[p].id] = @ - 1]
    /\ Goto(p, "check")
    /\ MayKeep(p)
    /\ UNCHANGED <<count, state, hungry_lock, main, met>>

Check(p) ==
    /\ At(p, "check")
    /\ IF state[proc[p].id] = "LEAVING"
       THEN proc' = [proc EXCEPT ![p] = NoProc] /\ Yields
       ELSE Goto(p, "take_fork") /\ MayKeep(p)
    /\ UNCHANGED <<shared, main, met>>

PhyloProc(p) ==
    /\ HasCPU(p)
    /\ \/ TakeFork(p) \/ WaitHungry(p) \/ PutFork(p)
       \/ PostThink(p) \/ WaitThink(p) \/ Check(p)

-----------------------------------------------------------------------------
\* 'a': a new philosopher sits down between the last one and number 0.
AddPhylo ==
    /\ main = "loop"
    /\ count < MAX
    /\ \E p \in Procs :
         /\ proc[p] = NoProc /\ \A q \in 1..(p - 1) : proc[q] # NoProc
         /\ proc' = [proc EXCEPT ![p] = Proc(count, "take_fork")]
    /\ state' = [state EXCEPT ![count] = "THINKING"]
    /\ count' = count + 1
    /\ Note(\E q \in Procs : proc[q] # NoProc /\ proc[q].id = count, "shared_id")
    /\ MayKeep(Main)
    /\ UNCHANGED <<hungry_lock, think_unlock, main>>

\* 'r': the last philosopher is asked to leave, in three steps.  The wait for
\* its think_unlock is where it must be neither eating nor hungry.
AskRemove ==
    /\ main = "loop"
    /\ count > MIN
    /\ main' = "wait_think"
    /\ UNCHANGED <<shared, proc, alone, met>>

\* Mutant of RemoveWait: removePhylo does not wait for think_unlock.
RemoveAtOnce ==
    /\ main = "wait_think"
    /\ main' = "remove"
    /\ MayKeep(Main)
    /\ UNCHANGED <<shared, proc, met>>

RemoveWait ==
    /\ main = "wait_think"
    /\ think_unlock[count - 1] > 0
    /\ think_unlock' = [think_unlock EXCEPT ![count - 1] = @ - 1]
    /\ main' = "remove"
    /\ MayKeep(Main)
    /\ UNCHANGED <<count, state, hungry_lock, proc, met>>

RemovePhylo ==
    /\ main = "remove"
    /\ state' = [state EXCEPT ![count - 1] = "LEAVING"]
    /\ count' = count - 1
    /\ main' = "post_think"
    /\ Note(TRUE, "removed")
    /\ MayKeep(Main)
    /\ UNCHANGED <<hungry_lock, think_unlock, proc>>

\* count has gone down: the local id of removePhylo is what count is now.
RemovePost ==
    /\ main = "post_think"
    /\ think_unlock' = [think_unlock EXCEPT ![count] = @ + 1]
    /\ main' = "loop"
    /\ MayKeep(Main)
    /\ UNCHANGED <<count, state, hungry_lock, proc, met>>

\* The end of every turn of the loop: the table is printed under the MUTEX,
\* and the main process yields.
ShowTable ==
    /\ main = "loop"
    /\ alone' \in {Nobody, Main}
    /\ UNCHANGED <<shared, proc, main, met>>

Removing == RemoveWait \/ RemovePhylo \/ RemovePost

Phylo == HasCPU(Main) /\ (AddPhylo \/ AskRemove \/ Removing \/ ShowTable)

Next == Phylo \/ \E p \in Procs : PhyloProc(p)

\* While nobody keeps the CPU the others get their turns again and again, and
\* one that can go on does, as RoundRobinSem establishes for spinning waiters.
\* Who keeps the CPU need not do anything.  Keys may come or not.
Spec ==
    /\ Init /\ [][Next]_vars
    /\ SF_vars(alone = Nobody /\ Removing)
    /\ SF_vars(alone = Nobody /\ \E p \in Procs : PhyloProc(p))

-----------------------------------------------------------------------------
\* Two philosophers that share a fork never eat at the same time, while any
\* number of them is added.  The code breaks this in two ways: an entry of
\* state[] that was never written reads HUNGRY, or the last philosopher leaves
\* and the two beside it, both eating, become neighbours.  (A third one is
\* outside this model: phylo run again after Ctrl-C finds the semaphores of the
\* first run open, and posts a MUTEX that is 1 already.)
NeighboursDontEat ==
    met = {} =>
        \A p, q \in Procs :
            At(p, "put_fork") /\ At(q, "put_fork") /\ p # q
                => proc[q].id \notin {LEFT(proc[p].id), RIGHT(proc[p].id)}

\* The right to eat is neither lost nor given twice: a philosopher that waits
\* is HUNGRY with no token or EATING with exactly one, whoever set it, through
\* additions and removals.
PermissionIsKept ==
    met \subseteq {"removed"} =>
        \A p \in Procs : At(p, "wait_hungry") =>
            LET id == proc[p].id
            IN  \/ state[id] = "HUNGRY" /\ hungry_lock[id] = 0
                \/ state[id] = "EATING" /\ hungry_lock[id] = 1

\* A philosopher asked to leave is out: it holds no fork, waits for none and
\* can only end.  Adding one before the old one looked breaks it: "shared_id".
RemovedIsOut ==
    "shared_id" \notin met =>
        \A p \in Procs : proc[p] # NoProc /\ proc[p].id >= count =>
            /\ proc[p].pc \in {"wait_think", "check"}
            /\ state[proc[p].id] = "LEAVING"

\* The table does not die by its own rules: whatever keys are typed, whatever
\* state[] held and even with two processes of one id, somebody eats again,
\* unless one of the processes keeps the CPU for ever.  That can happen: one
\* that is READY by its own sem_post spins in its next sem_wait, and nobody
\* else runs to post for it.
SomebodyEatsUnlessMonopoly ==
    []<>(\E p \in Procs : At(p, "put_fork")) \/ <>[](alone # Nobody)
=============================================================================
