------------------------------ MODULE Scheduler ------------------------------
(***************************************************************************)
(* Processes and the scheduler: Kernel/scheduler.c and Kernel/process.c.   *)
(*                                                                         *)
(* The processes are the nodes of a circular linked list.  destroy_node    *)
(* does not unlink its node: it copies the successor's process into it and *)
(* frees the successor's node, so every pointer to a node (currentNode,    *)
(* first, foreground, background) may be left dangling.  The model keeps   *)
(* the nodes and the pointers.                                             *)
(*                                                                         *)
(* Every system call and interrupt handler below runs with interrupts off  *)
(* and is one step; the operators on kernel states k follow the order of   *)
(* its assignments.  disable_count and force_yield are zero between steps. *)
(* The mutexes PROC_MUTEX and PIDC_MUTEX are never contended, since their  *)
(* critical sections run with interrupts off.                              *)
(***************************************************************************)
EXTENDS Integers, Sequences, FiniteSets, FiniteSetsExt, Functions

CONSTANTS
    MaxPid,         \* bound: pids go up to here, so that many are created
    MaxQuantum,     \* MAX_QUANTUM
    Priorities,     \* the priorities programs give to processes
    Uses            \* what programs and the user do beyond the common calls:
                    \* any of "kill", "ctrl-c", "block"

ASSUME SchedAssumption ==
    /\ MaxPid \in Nat \ {0}
    /\ MaxQuantum \in Nat
    /\ Priorities \subseteq Nat /\ Priorities # {}
    /\ Uses \subseteq {"kill", "ctrl-c", "block"}

Idle == 0           \* the pid of IDLE
Shell == 1          \* the pid of the first shell
Pids == 0..MaxPid
NodeIds == 1..(MaxPid + 1)
NoNode == 0         \* NULL

VARIABLE kernel     \* node, proc, current, first, foreground, background,
                    \* counter and pidc: the globals of the two files

Node(p, next, q) == [proc |-> p, next |-> next, quantums |-> q]
Process(ppid, state, prio, children) ==
    [ppid |-> ppid, state |-> state, priority |-> prio, children |-> children,
     waits |-> FALSE]   \* history: BLOCKED by its own wait_pid

\* After init_scheduler has made IDLE and main has started the shell in the
\* foreground: IDLE still has the CPU.  (main ends with a yield while counter
\* is 1 or more; the force_yield it leaves behind makes IDLE's first tick a
\* switch, which its quantums, already MAX_QUANTUM, do as well.)
Init ==
    kernel =
      [node |-> [n \in {1, 2} |-> IF n = 1 THEN Node(Idle, 2, MaxQuantum)
                                  ELSE Node(Shell, 1, 0)],
       proc |-> [p \in {Idle, Shell} |->
                   IF p = Idle THEN Process(Idle, "RUNNING", MaxQuantum, 1)
                   ELSE Process(Idle, "NEW", 0, 0)],
       current |-> 1, first |-> 1, foreground |-> 2, background |-> NoNode,
       counter |-> 2, pidc |-> 2]

-----------------------------------------------------------------------------
\* The nodes met from n on, following next.
Hops(k, n) ==
    LET hop[i \in 0..Cardinality(DOMAIN k.node)] ==
            IF i = 0 THEN n ELSE k.node[hop[i - 1]].next
    IN  hop

PidAt(k, n) == k.node[n].proc
StateAt(k, n) == k.proc[PidAt(k, n)].state
CurrentPid(k) == PidAt(k, k.current)

\* A process that sleeps in wait_pid does so until something sets its state.
InState(process, s) ==
    [process EXCEPT !.state = s, !.waits = @ /\ s = "BLOCKED"]
SetState(k, p, s) == [k EXCEPT !.proc[p] = InState(@, s)]

\* The node of pid p, from first on; NULL when no node has it.
FindNode(k, p) ==
    LET found == {n \in Range(Hops(k, k.first)) : PidAt(k, n) = p}
    IN  IF found = {} THEN NoNode ELSE CHOOSE n \in found : TRUE

\* The first node from n on that is READY or NEW.  Without one the code
\* recurses for ever: the current node is then NULL here.
FindNextReady(k, n) ==
    LET hop == Hops(k, n)
        ready == {i \in DOMAIN hop : StateAt(k, hop[i]) \in {"READY", "NEW"}}
    IN  IF ready = {} THEN NoNode ELSE hop[Min(ready)]

ReadyProcess(k, p) ==
    IF FindNode(k, p) = NoNode THEN k ELSE SetState(k, p, "READY")

\* Mutant of ChildGone: the parent is not woken.
ChildGoneSilent(k, p) == [k EXCEPT !.proc[p].children = @ - 1]

\* The parent p loses a child, and is woken when it was the last.
ChildGone(k, p) ==
    LET left == k.proc[p].children - 1
        k1 == [k EXCEPT !.proc[p].children = left]
    IN  IF left = 0 THEN ReadyProcess(k1, p) ELSE k1

\* Mutant of TakeOver: first is not moved along with IDLE's process.
TakeOverKeepFirst(k, n) ==
    LET x == k.node[n].next
    IN  [k EXCEPT
           !.counter = @ - 1,
           !.proc = Restrict(@, DOMAIN @ \ {PidAt(k, n)}),
           !.node = [m \in DOMAIN @ \ {x} |->
                       IF m = n THEN [@[x] EXCEPT !.quantums = k.node[n].quantums]
                       ELSE @[m]]]

\* The process of node n is freed, n takes the process and the link of its
\* successor x, and x is freed.
TakeOver(k, n) ==
    LET x == k.node[n].next
    IN  [k EXCEPT
           !.counter = @ - 1,
           !.proc = Restrict(@, DOMAIN @ \ {PidAt(k, n)}),
           !.node = [m \in DOMAIN @ \ {x} |->
                       IF m = n THEN [@[x] EXCEPT !.quantums = k.node[n].quantums]
                       ELSE @[m]],
           !.first = IF PidAt(k, x) = Idle THEN n ELSE @]

\* Mutant of DestroyNode: the parent is not told.
DestroyNodeOnly(k, n) == TakeOver(k, n)

\* destroy_node: the parent it updates is that of the CURRENT process; if
\* that is gone, nothing is destroyed.
DestroyNode(k, n) ==
    LET parent == FindNode(k, k.proc[CurrentPid(k)].ppid)
    IN  IF parent = NoNode THEN k
        ELSE TakeOver(ChildGone(k, PidAt(k, parent)), n)

-----------------------------------------------------------------------------
\* Mutant of Dispatch: the process switched in is not marked RUNNING.
DispatchNoMark(k, n) ==
    LET m == FindNextReady(k, n)
    IN  IF m = NoNode THEN [k EXCEPT !.current = NoNode]
        ELSE [k EXCEPT !.current = m,
                       !.node[m].quantums = k.proc[PidAt(k, m)].priority]

\* The CPU goes to the next ready process from node n on.
Dispatch(k, n) ==
    LET m == FindNextReady(k, n)
    IN  IF m = NoNode THEN [k EXCEPT !.current = NoNode]
        ELSE [SetState(k, PidAt(k, m), "RUNNING") EXCEPT
                !.current = m,
                !.node[m].quantums = k.proc[PidAt(k, m)].priority]

ReadyForeground(k) ==
    IF StateAt(k, k.foreground) = "BLOCKED"
    THEN SetState(k, PidAt(k, k.foreground), "READY") ELSE k

\* Mutant of ReturnForeground: the process behind is not made ready.
ReturnForegroundAsleep(k) ==
    [k EXCEPT !.foreground = k.background, !.background = NoNode]

\* kill_foreground_proc up to its call of kill_process (background # NULL).
ReturnForeground(k) ==
    ReadyForeground([k EXCEPT !.foreground = k.background,
                              !.background = NoNode])

\* The KILLED branch of scheduler().  For the foreground process it goes
\* through kill_foreground_proc, kill_process and a nested int 20h, whose
\* own KILLED branch destroys the node; without a background process the
\* node is not destroyed at all.
Reap(k) ==
    LET inFront == CurrentPid(k) = PidAt(k, k.foreground)
        gone == IF inFront /\ k.background = NoNode THEN k
                ELSE IF inFront THEN DestroyNode(ReturnForeground(k), k.current)
                ELSE DestroyNode(k, k.current)
    IN  Dispatch(gone, gone.current)

\* Mutant of Count: a tick is not counted.
CountNothing(k) == k

\* A RUNNING process has used one more quantum.
Count(k) ==
    IF StateAt(k, k.current) = "RUNNING"
    THEN [k EXCEPT !.node[k.current].quantums = @ + 1] ELSE k

\* scheduler(): called by every tick and by _force_scheduler.
Schedule(k, yield) ==
    LET k1 == Count(k)
        state == StateAt(k, k.current)
        next == k.node[k.current].next
    IN  CASE k.counter = 1 -> k
          [] k.counter # 1 /\ state = "KILLED" -> Reap(k)
          [] k.counter # 1 /\ state = "BLOCKED" -> Dispatch(k1, next)
          [] OTHER ->
                IF k1.node[k.current].quantums > MaxQuantum \/ yield
                THEN Dispatch(SetState(k1, CurrentPid(k), "READY"), next)
                ELSE k1

\* kill_process
KillProcess(k, p) ==
    IF p = CurrentPid(k) THEN Schedule(SetState(k, p, "KILLED"), FALSE)
    ELSE IF FindNode(k, p) = NoNode THEN k
    ELSE DestroyNode(SetState(k, p, "KILLED"), FindNode(k, p))

-----------------------------------------------------------------------------
(***************************************************************************)
(* What programs do.  IDLE only sleeps.  A process whose program runs in   *)
(* the foreground (the shell) only calls wait_pid until it is back in the  *)
(* foreground; block, nice and kill are applied to children.               *)
(***************************************************************************)
Me == CurrentPid(kernel)
IsUser == kernel.current # NoNode /\ Me # Idle
IsFree ==
    /\ IsUser
    /\ kernel.background # NoNode => Me # PidAt(kernel, kernel.background)
Children(p) == {q \in DOMAIN kernel.proc \ {Idle} : kernel.proc[q].ppid = p}

Tick ==
    /\ kernel.current # NoNode
    /\ kernel' = Schedule(kernel, FALSE)

\* The function f with one more entry.
With(f, x, v) == [y \in DOMAIN f \cup {x} |-> IF y = x THEN v ELSE f[y]]

\* Mutant of AddNode: the new node is linked after first.
AddNodeAfterFirst(k, n, p, prio) ==
    With([k.node EXCEPT ![k.first].next = n],
         n, Node(p, k.node[k.first].next, prio))

\* add_node: a new node n after the current one.
AddNode(k, n, p, prio) ==
    With([k.node EXCEPT ![k.current].next = n],
         n, Node(p, k.node[k.current].next, prio))

\* add_process: the priority is limited to MAX_QUANTUM.
Exec(prio, isForeground) ==
    LET p == kernel.pidc
        n == Min(NodeIds \ DOMAIN kernel.node)
        limited == IF prio > MaxQuantum THEN MaxQuantum ELSE prio
    IN  /\ IsFree
        /\ p <= MaxPid
        /\ isForeground => kernel.background = NoNode
                           /\ Me = PidAt(kernel, kernel.foreground)
        /\ kernel' =
             [kernel EXCEPT
                !.pidc = @ + 1,
                !.counter = @ + 1,
                !.proc = With([kernel.proc EXCEPT ![Me].children = @ + 1],
                              p, Process(Me, "NEW", limited, 0)),
                !.node = AddNode(kernel, n, p, limited),
                !.foreground = IF isForeground THEN n ELSE @,
                !.background = IF isForeground /\ @ = NoNode
                               THEN kernel.foreground ELSE @]

\* The program returns into killCurrentProcess, its children living or not.
Exit ==
    /\ IsFree /\ Me # Shell
    /\ kernel' = KillProcess(kernel, Me)

Yield == IsFree /\ kernel' = Schedule(kernel, TRUE)

\* wait_pid: returns at once without children.
WaitPid ==
    /\ IsUser
    /\ kernel.proc[Me].children # 0
    /\ kernel' = Schedule([SetState(kernel, Me, "BLOCKED") EXCEPT
                              !.proc[Me].waits = TRUE], FALSE)

Block(p) ==
    /\ IsFree /\ p \in Children(Me) /\ "block" \in Uses
    /\ kernel' = Schedule(SetState(kernel, p, "BLOCKED"), FALSE)

\* ready_process, whoever calls it: unblock with any pid, sem_post and sem_wait
\* with the stale pids they pop, and every pipe_write with the pid of its own
\* caller.  The process that has the CPU may then be READY: its ticks are not
\* counted and it keeps the CPU until it blocks, yields or ends.
Ready(p) == IsFree /\ kernel' = ReadyProcess(kernel, p)

\* change_priority: not limited.
Nice(p, prio) ==
    /\ IsFree /\ p \in Children(Me) /\ "block" \in Uses
    /\ kernel' = [kernel EXCEPT !.proc[p].priority = prio]

Kill(p) ==
    /\ IsFree /\ p \in Children(Me) /\ "kill" \in Uses
    /\ kernel' = KillProcess(kernel, p)

(***************************************************************************)
(* Ctrl-C, in the keyboard interrupt.  When the foreground process has the *)
(* CPU, the handler does not come back from kill_process.  The use "ctrl-c"*)
(* lets it come while any other process has the CPU.                       *)
(***************************************************************************)
CtrlC ==
    /\ kernel.current # NoNode
    /\ kernel.background # NoNode =>
          Me = PidAt(kernel, kernel.foreground) \/ "ctrl-c" \in Uses
    /\ kernel' =
         IF kernel.background = NoNode THEN ReadyForeground(kernel)
         ELSE LET p == PidAt(kernel, kernel.foreground)
                  k == KillProcess(ReturnForeground(kernel), p)
              IN  IF p = Me THEN k ELSE ReadyForeground(k)

Next ==
    \/ Tick \/ Exit \/ Yield \/ WaitPid \/ CtrlC
    \/ \E prio \in Priorities, fg \in BOOLEAN : Exec(prio, fg)
    \/ \E p \in Pids : Block(p) \/ Ready(p) \/ Kill(p)
    \/ \E p \in Pids, prio \in Priorities : Nice(p, prio)

\* The timer keeps ticking; nothing is assumed of programs.
Spec == Init /\ [][Next]_kernel /\ WF_kernel(Tick)

-----------------------------------------------------------------------------
\* The list is one ring through all nodes, with each process in exactly one
\* of them and IDLE in first, and no pointer to a node dangles, although
\* destroy_node moves processes between nodes and frees the node of another
\* process.  IDLE is in the ring and find_next_ready always found a process.
RingIsSound ==
    /\ kernel.first \in DOMAIN kernel.node
    /\ Range(Hops(kernel, kernel.first)) = DOMAIN kernel.node
    /\ {PidAt(kernel, n) : n \in DOMAIN kernel.node} = DOMAIN kernel.proc
    /\ Cardinality(DOMAIN kernel.proc) = kernel.counter
    /\ Cardinality(DOMAIN kernel.node) = kernel.counter
    /\ PidAt(kernel, kernel.first) = Idle
    /\ {kernel.current, kernel.foreground} \subseteq DOMAIN kernel.node
    /\ kernel.background \in DOMAIN kernel.node \cup {NoNode}

\* A process that may not run (blocked, ended, not switched in) never keeps the
\* CPU, and none but the process that has it is left RUNNING, where
\* find_next_ready would pass it over for ever.  The process that has the CPU
\* need not be RUNNING: see Ready.
OnlyOneRuns ==
    /\ kernel.current \in DOMAIN kernel.node
    /\ StateAt(kernel, kernel.current) \in {"RUNNING", "READY"}
    /\ \A p \in DOMAIN kernel.proc :
          kernel.proc[p].state = "RUNNING" => p = CurrentPid(kernel)

\* A process counts exactly its living children, so the last one to exit is
\* the one that wakes it.
ChildrenAreCounted ==
    \A p \in DOMAIN kernel.proc :
        kernel.proc[p].children = Cardinality(Children(p))

\* No process stays BLOCKED by its own wait_pid when its children are all gone:
\* only the parent's count can wake it, and it is the parent of the process
\* that has the CPU that destroy_node counts on and wakes.
NoLostWakeup ==
    \A p \in DOMAIN kernel.proc :
        kernel.proc[p].state = "BLOCKED" /\ kernel.proc[p].waits
            => Children(p) # {}

\* When the foreground process ends, the foreground goes back to the process
\* that started it, and that one does not stay asleep in wait_pid, even if it
\* has other children.  (It may call wait_pid again, or only then: it sleeps
\* for those children, see Pipeline.)
ForegroundReturns ==
    [][kernel.background # NoNode /\ kernel'.foreground # kernel.foreground
         => /\ kernel'.foreground = kernel.background
            /\ kernel'.background = NoNode
            /\ StateAt(kernel', kernel'.foreground) # "BLOCKED"]_kernel

\* The process that has the CPU is READY: no tick takes it away.
Monopoly ==
    /\ kernel.current # NoNode /\ StateAt(kernel, kernel.current) = "READY"
    /\ kernel.node[kernel.current].quantums <= MaxQuantum

\* Round robin: a process that could run gets the CPU, or stops being able to,
\* unless the CPU is monopolised by a process that was made READY in it and
\* never blocks, yields or ends.
Runnable(p) ==
    /\ p \in DOMAIN kernel.proc
    /\ kernel.proc[p].state \in {"READY", "NEW"}

NoStarvation == \A p \in Pids : Runnable(p) ~> (~Runnable(p) \/ []Monopoly)

\* The ring implements the run queue.
Queue(k) ==
    [i \in 1..k.counter |-> PidAt(k, Hops(k, k.current)[i - 1])]

Abstract == INSTANCE RunQueue WITH InitQueue <- <<Idle, Shell>>,
                                   queue <- Queue(kernel)

ImplementsRunQueue == Abstract!Spec
=============================================================================
