------------------------------ MODULE MCMemory ------------------------------
(***************************************************************************)
(* Bounded instances of the two memory managers for TLC.  A kernel has one *)
(* of them: the flag BUDDY decides when it is built.                       *)
(***************************************************************************)
EXTENDS Heap, Buddy

VARIABLE build      \* which of the two memory managers the kernel has

vars == <<heapVars, buddyVars, build>>

MCInit == Init /\ BuddyInit /\ build \in {"first fit", "buddy"}

MCNext ==
    \/ build = "first fit" /\ Next /\ UNCHANGED <<buddyVars, build>>
    \/ build = "buddy" /\ BuddyNext /\ UNCHANGED <<heapVars, build>>

MCSpec == MCInit /\ [][MCNext]_vars

\* Every word-aligned offset: starts of payloads, headers, insides of blocks.
MCPointers == {a \in 0..HeapSize : a % Word = 0}
=============================================================================
