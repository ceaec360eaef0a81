----------------------------- MODULE Semaphore -----------------------------
(***************************************************************************)
(* One named semaphore of Kernel/semaphore.c, shared by processes on the   *)
(* kernel's single CPU.                                                    *)
(*                                                                         *)
(* A system call enters through an interrupt gate, so it runs with IF = 0  *)
(* and cannot be preempted.  _force_scheduler ends with `sti': from the    *)
(* first contended pass of sem_wait on, the rest of the call runs with     *)
(* IF = 1 and a timer tick may switch process between any two              *)
(* instructions.  The stretches between scheduler_disable and              *)
(* scheduler_enable run with IF = 1 but no tick switches process in them,  *)
(* so each of them is one step.                                            *)
(*                                                                         *)
(* Which process the scheduler picks is left open here; RoundRobinSem      *)
(* adds the real choice.                                                   *)
(***************************************************************************)
EXTENDS Integers

CONSTANTS
    Procs,          \* the pids of the processes that use the semaphore
    InitValue,      \* the value given to sem_open by the first opener
    Producers,      \* the processes that post without having waited first
    MaxProc,        \* MAX_PROC: the length of blocked_processes
    MaxLast,        \* bound: how many entries are ever appended
    MaxValue,       \* bound: producers stop posting at this value
    NoPid           \* NO_PID, the initial content of blocked_processes

ASSUME SemAssumption ==
    /\ Procs # {}
    /\ InitValue \in Nat
    /\ Producers \subseteq Procs
    /\ MaxProc \in Nat \ {0}
    /\ MaxLast \in Nat
    /\ MaxValue \in Nat
    /\ NoPid \notin Procs

VARIABLES
    lock,           \* sem->lock
    value,          \* sem->value
    blocked,        \* sem->blocked_processes
    blockedFirst,   \* sem->blocked_first
    blockedLast,    \* sem->blocked_last
    current,        \* the process that has the CPU
    pc,             \* where each process is
    intFlag,        \* the interrupt flag each process runs with
    loaded,         \* the register that holds sem->value in `sem->value--'
    holds           \* history: waits minus posts of each process

semVars == <<lock, value, blocked, blockedFirst, blockedLast>>
vars == <<semVars, current, pc, intFlag, loaded, holds>>

(***************************************************************************)
(* "user"    outside the kernel, IF = 1                                    *)
(* "xchg"    about to exchange the lock in the loop condition (line 51)    *)
(* "check"   has the lock, about to read value                             *)
(* "release" found value = 0, about to drop the lock                       *)
(* "enqueue" the condition failed, about to disable the scheduler          *)
(* "force"   about to call _force_scheduler                                *)
(* "load", "store", "unlock"  the instructions of lines 73 and 74          *)
(***************************************************************************)
Labels == {"user", "xchg", "check", "release", "enqueue", "force",
           "load", "store", "unlock"}

\* Where a process has taken the lock and not yet given it back.
LockLabels == {"check", "release", "load", "store", "unlock"}

TypeOK ==
    /\ lock \in {0, 1}
    /\ value \in Nat
    /\ blocked \in [0..(MaxProc - 1) -> Procs \cup {NoPid}]
    /\ blockedFirst \in Nat
    /\ blockedLast \in Nat
    /\ current \in Procs
    /\ pc \in [Procs -> Labels]
    /\ intFlag \in [Procs -> BOOLEAN]
    /\ loaded \in [Procs -> Nat]
    /\ holds \in [Procs -> Int]

\* sem_init: a fresh slot; no process is inside the kernel.
Init ==
    /\ lock = 0
    /\ value = InitValue
    /\ blocked = [i \in 0..(MaxProc - 1) |-> NoPid]
    /\ blockedFirst = 0
    /\ blockedLast = 0
    /\ current \in Procs
    /\ pc = [p \in Procs |-> "user"]
    /\ intFlag = [p \in Procs |-> TRUE]
    /\ loaded = [p \in Procs |-> 0]
    /\ holds = [p \in Procs |-> 0]

Goto(p, l) == pc' = [pc EXCEPT ![p] = l]

\* `int 80h' through an interrupt gate: the call starts with IF = 0.
WaitCall(p) ==
    /\ pc[p] = "user"
    /\ holds[p] <= 0
    /\ blockedLast < MaxLast
    /\ Goto(p, "xchg")
    /\ intFlag' = [intFlag EXCEPT ![p] = FALSE]
    /\ UNCHANGED <<semVars, current, loaded, holds>>

\* Mutant of Xchg: the lock is tested but not taken.
XchgNoTake(p) ==
    /\ pc[p] = "xchg"
    /\ lock = 1 => blockedLast < MaxLast
    /\ Goto(p, IF lock = 0 THEN "check" ELSE "enqueue")
    /\ UNCHANGED <<semVars, current, intFlag, loaded, holds>>

\* !_xchg(&sem->lock, 1)
Xchg(p) ==
    /\ pc[p] = "xchg"
    /\ lock = 1 => blockedLast < MaxLast
    /\ lock' = 1
    /\ Goto(p, IF lock = 0 THEN "check" ELSE "enqueue")
    /\ UNCHANGED <<value, blocked, blockedFirst, blockedLast,
                   current, intFlag, loaded, holds>>

\* Mutant of Check: >= 0, always true of an unsigned value.
CheckOffByOne(p) ==
    /\ pc[p] = "check"
    /\ Goto(p, "load")
    /\ UNCHANGED <<semVars, current, intFlag, loaded, holds>>

\* sem->value > 0
Check(p) ==
    /\ pc[p] = "check"
    /\ value = 0 => blockedLast < MaxLast
    /\ Goto(p, IF value > 0 THEN "load" ELSE "release")
    /\ UNCHANGED <<semVars, current, intFlag, loaded, holds>>

\* || (sem->lock = 0)
Release(p) ==
    /\ pc[p] = "release"
    /\ lock' = 0
    /\ Goto(p, "enqueue")
    /\ UNCHANGED <<value, blocked, blockedFirst, blockedLast,
                   current, intFlag, loaded, holds>>

Appended(p) == [blocked EXCEPT ![blockedLast % MaxProc] = p]

\* Mutant of RecheckHolds: the second test ignores the lock.
RecheckNoLock == value > 0

(***************************************************************************)
(* From scheduler_disable to scheduler_enable: the process appends its pid *)
(* and tries the condition again.  On success the entry is taken back by   *)
(* decrementing blocked_last (the difference is at least the one just      *)
(* added) and ready_process is called for the process itself; its effect   *)
(* on the process state is added by RoundRobinSem.                         *)
(***************************************************************************)
RecheckHolds == lock = 0 /\ value > 0

Enqueue(p) ==
    /\ pc[p] = "enqueue"
    /\ blocked' = Appended(p)
    /\ \/ /\ RecheckHolds
          /\ lock' = 1
          /\ UNCHANGED blockedLast
          /\ Goto(p, "load")
       \/ /\ ~RecheckHolds
          /\ blockedLast' = blockedLast + 1
          /\ UNCHANGED lock
          /\ Goto(p, "force")
    /\ UNCHANGED <<value, blockedFirst, current, intFlag, loaded, holds>>

\* _force_scheduler: int 20h, and on the way back sti.
ForceScheduler(p, q) ==
    /\ pc[p] = "force"
    /\ current' = q
    /\ Goto(p, "xchg")
    /\ intFlag' = [intFlag EXCEPT ![p] = TRUE]
    /\ UNCHANGED <<semVars, loaded, holds>>

\* sem->value-- is a load and a store.
Load(p) ==
    /\ pc[p] = "load"
    /\ loaded' = [loaded EXCEPT ![p] = value]
    /\ Goto(p, "store")
    /\ UNCHANGED <<semVars, current, intFlag, holds>>

Store(p) ==
    /\ pc[p] = "store"
    /\ value' = loaded[p] - 1
    /\ holds' = [holds EXCEPT ![p] = @ + 1]
    /\ loaded' = [loaded EXCEPT ![p] = 0]     \* the register is dead
    /\ Goto(p, "unlock")
    /\ UNCHANGED <<lock, blocked, blockedFirst, blockedLast,
                   current, intFlag>>

\* Mutant of Unlock: the call returns with the lock still taken.
UnlockForgets(p) ==
    /\ pc[p] = "unlock"
    /\ Goto(p, "user")
    /\ intFlag' = [intFlag EXCEPT ![p] = TRUE]
    /\ UNCHANGED <<semVars, current, loaded, holds>>

\* sem->lock = 0 and the return to user mode.
Unlock(p) ==
    /\ pc[p] = "unlock"
    /\ lock' = 0
    /\ Goto(p, "user")
    /\ intFlag' = [intFlag EXCEPT ![p] = TRUE]
    /\ UNCHANGED <<value, blocked, blockedFirst, blockedLast,
                   current, loaded, holds>>

\* update_sem_processes: the pid it hands to ready_process.
Pops == blockedLast > blockedFirst
PoppedPid == blocked[blockedFirst % MaxProc]

\* Mutant of Post: the token is handed to the popped process, not counted.
PostHandsOver(p) ==
    /\ pc[p] = "user"
    /\ \/ holds[p] > 0
       \/ p \in Producers /\ value < MaxValue
    /\ value' = IF Pops THEN value ELSE value + 1
    /\ blockedFirst' = IF Pops THEN blockedFirst + 1 ELSE blockedFirst
    /\ holds' = [holds EXCEPT ![p] = @ - 1]
    /\ UNCHANGED <<lock, blocked, blockedLast, current, pc, intFlag, loaded>>

\* sem_post never blocks and never re-enables interrupts: one step.
Post(p) ==
    /\ pc[p] = "user"
    /\ \/ holds[p] > 0
       \/ p \in Producers /\ value < MaxValue
    /\ value' = value + 1
    /\ blockedFirst' = IF Pops THEN blockedFirst + 1 ELSE blockedFirst
    /\ holds' = [holds EXCEPT ![p] = @ - 1]
    /\ UNCHANGED <<lock, blocked, blockedLast, current, pc, intFlag, loaded>>

\* A timer tick that switches process.
Tick(p, q) ==
    /\ intFlag[p]
    /\ p # q
    /\ current' = q
    /\ UNCHANGED <<semVars, pc, intFlag, loaded, holds>>

Step(p) ==
    \/ WaitCall(p) \/ Xchg(p) \/ Check(p) \/ Release(p) \/ Enqueue(p)
    \/ Load(p) \/ Store(p) \/ Unlock(p) \/ Post(p)

Next ==
    \/ Step(current)
    \/ \E q \in Procs : ForceScheduler(current, q) \/ Tick(current, q)

Spec == Init /\ [][Next]_vars

-----------------------------------------------------------------------------
\* semaphore.c:40-41: "only one semaphore satisfies it, because only one sem
\* has the lock": the lock word is set exactly while one process is between
\* taking and dropping it, and never by two, however ticks fall in between.
LockExclusive ==
    /\ \A p, q \in Procs :
          pc[p] \in LockLabels /\ pc[q] \in LockLabels => p = q
    /\ lock = 1 <=> \E p \in Procs : pc[p] \in LockLabels

\* A semaphore opened with 1 and used as a mutex (wait, then post) admits one
\* process at a time, although sem_post does not take the lock and the
\* decrement of line 73 is not atomic.
MutualExclusion ==
    \A p, q \in Procs : holds[p] > 0 /\ holds[q] > 0 => p = q

\* In the same use no token is lost or invented: the value is 1 exactly when
\* nobody holds the mutex.  A post overwritten by the store of line 73 would
\* leave the value at 0 with no holder, and every later sem_wait spinning.
TokenKept ==
    /\ value \in {0, 1}
    /\ value = 1 <=> \A p \in Procs : holds[p] = 0
=============================================================================
