-------------------------------- MODULE Pipe --------------------------------
(***************************************************************************)
(* One pipe of Kernel/pipe.c: a ring of PIPE_SIZE bytes, two counters that *)
(* only grow, a mark (-1) behind the last byte written, and the pids that  *)
(* ever read from it.  A call runs with interrupts off and never meets its *)
(* semaphore taken: one step.  A byte is its number in the stream, 1, 2,   *)
(* ...; 0 is the end of a string.                                          *)
(***************************************************************************)
EXTENDS Integers, Sequences

CONSTANT PIPE_SIZE

ASSUME PipeAssumption == PIPE_SIZE \in Nat /\ PIPE_SIZE > 1

Mark == -1
Ring == 0..(PIPE_SIZE - 1)

Closed == [created |-> FALSE, data |-> [i \in Ring |-> 0], nread |-> 0,
           nwrite |-> 0, rProcesses |-> {}]

\* pipe_open: a pipe that is open is shared; a new one holds zeroes and no
\* mark, and the list of its readers is what it was.
Opened(pipe) ==
    IF pipe.created THEN pipe
    ELSE [Closed EXCEPT !.created = TRUE, !.rProcesses = pipe.rProcesses]

\* Mutant of PipeClosed: the readers stay listed.
PipeClosedLists(pipe) == [Closed EXCEPT !.rProcesses = pipe.rProcesses]

PipeClosed(pipe) == Closed

\* How many of n bytes pipe_write puts in.  The full test of its loop compares
\* nread with nwrite + 1: it never stops a writer that is ahead, only one that
\* was overtaken.
Written(pipe, n) ==
    IF pipe.nread > pipe.nwrite /\ pipe.nread - pipe.nwrite - 1 < n
    THEN pipe.nread - pipe.nwrite - 1 ELSE n

\* pipe_write of n < PIPE_SIZE bytes; n = 0 is what the end-of-file write of
\* free_proc comes to, whose string is the zero byte at address 4.  What it does
\* to its caller is ReadiesItsCaller.
PipeWrite(pipe, n) ==
    LET w == Written(pipe, n)
        Ahead(i) == (i - pipe.nwrite) % PIPE_SIZE
    IN  IF ~pipe.created THEN pipe
        ELSE [pipe EXCEPT
                !.nwrite = @ + w,
                !.data = [i \in Ring |->
                            CASE Ahead(i) < w -> pipe.nwrite + Ahead(i) + 1
                              [] Ahead(i) = w -> Mark
                              [] OTHER -> @[i]]]

\* release_process_pipe, in pipe_write, finds the caller among the writers and
\* calls ready_process on it: it leaves the call READY, with the CPU.
ReadiesItsCaller(pipe) == pipe.created

Byte(pipe, i) == pipe.data[(pipe.nread + i) % PIPE_SIZE]

\* The loop of pipe_read stops at the mark and at the last byte unread.
Stops(pipe, i) == Byte(pipe, i) = Mark \/ pipe.nread + i + 1 = pipe.nwrite

\* The bytes its loop takes when asked for two, as all readers ask.
Looped(pipe) ==
    IF Stops(pipe, 0) THEN 0 ELSE IF Stops(pipe, 1) THEN 1 ELSE 2

\* The bytes pipe_read stores: the last one unread is stored after the loop,
\* and may be the third.
Taken(pipe) ==
    LET n == Looped(pipe)
        last == IF pipe.nread + n + 1 = pipe.nwrite THEN 1 ELSE 0
    IN  [i \in 1..(n + last) |-> Byte(pipe, i - 1)]

\* Mutant of AfterRead: the last byte is not counted as read.
AfterReadAgain(pipe) == [pipe EXCEPT !.nread = @ + Looped(pipe)]

\* The pipe after it: a mark that was come to is replaced by a zero.
AfterRead(pipe) ==
    LET nread == pipe.nread + Len(Taken(pipe))
    IN  [pipe EXCEPT !.nread = nread,
                     !.data[nread % PIPE_SIZE] = IF @ = Mark THEN 0 ELSE @]

\* block_process_pipe on the readers: every reader is listed and none is ever
\* taken off, so whoever comes second is blocked.
Blocks(pipe, pid) == pipe.rProcesses \ {pid} # {}
Listed(pipe, pid) == [pipe EXCEPT !.rProcesses = @ \cup {pid}]
=============================================================================
