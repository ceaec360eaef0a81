--------------------------- MODULE RoundRobinSem ---------------------------
(***************************************************************************)
(* Semaphore together with the scheduler of Kernel/scheduler.c: which      *)
(* process gets the CPU follows from the process states and the quantums,  *)
(* and ready_process, called by sem_post and by the second test of         *)
(* sem_wait, writes the process state.  The processes of this model are    *)
(* never blocked or killed, so each is READY or RUNNING.                   *)
(***************************************************************************)
EXTENDS Semaphore

CONSTANTS
    NextProc,       \* node->next: the successor of each process in the ring
    Priority,       \* the quantums a process is given when it is switched in
    MaxQuantum      \* MAX_QUANTUM

ASSUME RRAssumption ==
    /\ NextProc \in [Procs -> Procs]
    /\ \A p \in Procs : NextProc[p] # p
    /\ MaxQuantum \in Nat
    /\ Priority \in 0..MaxQuantum

VARIABLES
    state,          \* proc->state
    quantums        \* node->quantums

rrVars == <<vars, state, quantums>>

RRInit ==
    /\ Init
    /\ state = [p \in Procs |-> IF p = current THEN "RUNNING" ELSE "READY"]
    /\ quantums = [p \in Procs |-> Priority]

\* ready_process: unconditional.
ReadyProcess(q) == state' = [state EXCEPT ![q] = "READY"]

\* Mutant of Counted: ticks are not counted.
CountedNever(p) == quantums[p]

\* The quantums of the current process after a tick: counted only while its
\* state is RUNNING.
Counted(p) == quantums[p] + (IF state[p] = "RUNNING" THEN 1 ELSE 0)

\* The process switched in is RUNNING and gets its quantums.
SwitchTo(p, q) ==
    /\ state' = [state EXCEPT ![p] = "READY", ![q] = "RUNNING"]
    /\ quantums' = [quantums EXCEPT ![p] = Counted(p), ![q] = Priority]

\* scheduler(): p had the CPU, q gets it.
Scheduler(p, q) ==
    \/ /\ Counted(p) > MaxQuantum
       /\ q = NextProc[p]
       /\ SwitchTo(p, q)
    \/ /\ Counted(p) <= MaxQuantum
       /\ q = p
       /\ quantums' = [quantums EXCEPT ![p] = Counted(p)]
       /\ UNCHANGED state

RRTick ==
    /\ intFlag[current]
    /\ \E q \in Procs :
          /\ Scheduler(current, q)
          /\ Tick(current, q) \/ (q = current /\ UNCHANGED vars)

RRForce ==
    \E q \in Procs : ForceScheduler(current, q) /\ Scheduler(current, q)

\* sys_yield from user mode: force_current_yield.
RRYield ==
    /\ pc[current] = "user"
    /\ SwitchTo(current, NextProc[current])
    /\ Tick(current, NextProc[current])

RREnqueue ==
    /\ Enqueue(current)
    /\ IF RecheckHolds THEN ReadyProcess(current) ELSE UNCHANGED state
    /\ UNCHANGED quantums

RRPost ==
    /\ Post(current)
    /\ IF Pops THEN ReadyProcess(PoppedPid) ELSE UNCHANGED state
    /\ UNCHANGED quantums

RRStep ==
    /\ \/ WaitCall(current) \/ Xchg(current) \/ Check(current)
       \/ Release(current) \/ Load(current) \/ Store(current)
       \/ Unlock(current)
    /\ UNCHANGED <<state, quantums>>

RRNext == RRTick \/ RRForce \/ RRYield \/ RREnqueue \/ RRPost \/ RRStep

(***************************************************************************)
(* The timer never stops, and a tick that comes while IF = 0 stays latched *)
(* in the interrupt controller until IF = 1: strong fairness of RRTick.    *)
(* Between two ticks the CPU executes instructions of the process that has *)
(* it, so a process that has the CPU again and again gets on with its      *)
(* kernel code.  User code may loop without ever calling the kernel, so    *)
(* waits and yields carry no fairness; a process inside its critical       *)
(* section goes on to post.                                                *)
(***************************************************************************)
KernelStep == pc[current] # "user" /\ (RREnqueue \/ RRStep \/ RRForce)

RRSpec ==
    /\ RRInit
    /\ [][RRNext]_rrVars
    /\ SF_rrVars(RRTick)
    /\ \A p \in Procs : SF_rrVars(current = p /\ KernelStep)
    /\ \A p \in Procs : SF_rrVars(current = p /\ RRPost)

-----------------------------------------------------------------------------
\* The process that has the CPU keeps it from now on.
Monopoly == \E p \in Procs : current = p /\ state[p] = "READY"

\* Every process gets the CPU again and again, unless the process that has it
\* was set READY while running (by its own post, or by the second test of its
\* own wait): then its ticks are not counted and it may keep the CPU forever.
RoundRobinUnlessMonopoly ==
    \A p \in Procs : []<>(current = p) \/ <>[]Monopoly

\* A waiting process does not wait forever while the semaphore is free:
\* some process gets in, or the CPU is monopolised.
ProgressUnlessMonopoly ==
    (\E p \in Procs : pc[p] \notin {"user", "unlock"})
        ~> ((\E p \in Procs : holds[p] > 0) \/ []Monopoly)
=============================================================================
