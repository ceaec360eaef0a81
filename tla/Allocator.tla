----------------------------- MODULE Allocator -----------------------------
(***************************************************************************)
(* What malloc and free of Kernel/include/memoryManager.h promise their    *)
(* callers, whichever memory manager is built in: a block that is granted  *)
(* lies in the heap, is large enough, overlaps no other live block and     *)
(* stays where it is until it is freed; freeing anything else changes      *)
(* nothing.  When a request may fail is left open.                         *)
(***************************************************************************)
EXTENDS Integers, Functions

CONSTANTS
    Addresses,      \* the addresses of the heap
    Requests        \* the sizes callers ask for

VARIABLE
    live            \* payload address -> [asked, size] of each live block

Extent(a, b) == a..(a + b.size - 1)

Init == live = [a \in {} |-> 0]

Grant(n, a, b) ==
    /\ a \notin DOMAIN live
    /\ b.asked = n /\ b.size >= n
    /\ Extent(a, b) \subseteq Addresses
    /\ \A c \in DOMAIN live : Extent(a, b) \cap Extent(c, live[c]) = {}
    /\ live' = [c \in DOMAIN live \cup {a} |-> IF c = a THEN b ELSE live[c]]

Free(a) == a \in DOMAIN live /\ live' = Restrict(live, DOMAIN live \ {a})

Next ==
    \/ \E a \in DOMAIN live' \ DOMAIN live :
          \E n \in Requests : Grant(n, a, live'[a])
    \/ \E a \in DOMAIN live : Free(a)

Spec == Init /\ [][Next]_live
=============================================================================
