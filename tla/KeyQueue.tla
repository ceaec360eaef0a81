------------------------------ MODULE KeyQueue ------------------------------
(***************************************************************************)
(* What the keyboard buffer stands for: a queue of at most Capacity keys.  *)
(* Keys leave in the order in which they came, each of them once; one that *)
(* comes while the queue is full is dropped, which changes nothing.        *)
(***************************************************************************)
EXTENDS Integers, Sequences

CONSTANTS Keys, Capacity

VARIABLE queue

Init == queue = [k \in 1..0 |-> 0]

Put(c) ==
    /\ Len(queue) < Capacity
    /\ queue' = [k \in 1..(Len(queue) + 1) |->
                    IF k = Len(queue) + 1 THEN c ELSE queue[k]]

Take(n) ==
    /\ n <= Len(queue)
    /\ queue' = [k \in 1..(Len(queue) - n) |-> queue[k + n]]

Next == (\E c \in Keys : Put(c)) \/ (\E n \in 1..Capacity : Take(n))

Spec == Init /\ [][Next]_queue
=============================================================================
