---------------------------- MODULE MCSemaphore ----------------------------
(***************************************************************************)
(* Bounded instances of Semaphore for TLC.                                 *)
(***************************************************************************)
EXTENDS Semaphore, FiniteSetsExt

\* A counting semaphore is never granted more often than it was opened and
\* posted for: waits that returned cannot exceed InitValue plus the posts.
\* (They can be fewer: a post between the load and the store of line 73 is
\* lost, which is why this is an inequality.)
NeverOverGranted ==
    value + MapThenSumSet(LAMBDA p : holds[p], Procs) <= InitValue

=============================================================================
