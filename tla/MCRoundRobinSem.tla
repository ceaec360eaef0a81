-------------------------- MODULE MCRoundRobinSem --------------------------
(***************************************************************************)
(* Bounded instances of RoundRobinSem for TLC.                             *)
(***************************************************************************)
EXTENDS RoundRobinSem

MCProcs == 1..2
MCNextProc == [p \in MCProcs |-> 3 - p]
=============================================================================
