------------------------------ MODULE RunQueue ------------------------------
(***************************************************************************)
(* What the ring of Kernel/scheduler.c stands for: the queue of processes  *)
(* in the order in which they get the CPU, the one that has it first.  A   *)
(* new process comes second, a switch rotates the queue, and a process     *)
(* leaves only from the front.                                             *)
(***************************************************************************)
EXTENDS Integers, Sequences

CONSTANTS
    InitQueue,      \* the processes there are to begin with
    Pids            \* every pid

VARIABLE queue

Rotate(q, i) == SubSeq(q, i + 1, Len(q)) \o SubSeq(q, 1, i)

Init == queue = InitQueue

Insert(p) ==
    /\ \A i \in 1..Len(queue) : queue[i] # p
    /\ queue' = <<Head(queue), p>> \o Tail(queue)

Switch == \E i \in 1..(Len(queue) - 1) : queue' = Rotate(queue, i)

Leave ==
    /\ Len(queue) > 1
    /\ \E i \in 0..(Len(queue) - 2) : queue' = Rotate(Tail(queue), i)

Next == (\E p \in Pids : Insert(p)) \/ Switch \/ Leave

Spec == Init /\ [][Next]_queue
=============================================================================
