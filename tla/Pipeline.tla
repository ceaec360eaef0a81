------------------------------ MODULE Pipeline ------------------------------
(***************************************************************************)
(* Commands joined by a pipe: pipedBuffer and the "&" of readBuffer in     *)
(* Userland/uCodeModule/shell.c, the processes they start (a writer on the *)
(* left; cat, wc or filter on the right, which read in the same loop), and *)
(* wait_pid and the end of a process in Kernel/process.c and scheduler.c,  *)
(* over Pipe.  Memory does not run out here.                               *)
(*                                                                         *)
(* pipe_write calls ready_process on its own caller.  A process that is    *)
(* READY in the CPU is not preempted (Scheduler): after its first write a  *)
(* writer has the CPU to itself until it ends.                             *)
(***************************************************************************)
EXTENDS Pipe

CONSTANTS
    MaxBytes,       \* bound: bytes written to a pipe while it is open
    MaxReads,       \* bound: bytes read from a pipe while it is open
    MaxBehind,      \* bound: the same two for "&"
    MaxChildren,    \* bound: the children the shell is counted to have
    Jobs            \* the pids of the processes started

ASSUME PipelineAssumption ==
    /\ {MaxBytes, MaxReads, MaxBehind, MaxChildren} \subseteq Nat
    /\ Jobs \subseteq Nat \ {0, 1}

Names == {"pipes", "&"}
NoName == "none"
Slots == {0, 1}     \* two names never take more of pipes[]
SHELL == 1
Nobody == 0

VARIABLES
    pipe,           \* pipes[]
    name,           \* the name of each
    job,            \* the processes
    shell,          \* what the shell does next, its variables and children
    alone,          \* who is READY in the CPU and keeps it
    handed,         \* history: the bytes readers were given of "pipes" ...
    spoiled         \* ... until it was overrun or read past its end

vars == <<pipe, name, job, shell, alone, handed, spoiled>>

\* fd is the slot of the pipe it writes or reads, c the buffer of the reading
\* loop.
Job(does, fd) == [does |-> does, fd |-> fd, c |-> <<0, 0>>]
NoJob == Job("none", 0)
At(pc) == shell.at = pc
Goto(pc) == shell' = [shell EXCEPT !.at = pc]
Return(pc) == shell' = [shell EXCEPT !.at = pc, !.fd = 0, !.left = 0, !.right = 0]
HasCPU(p) == alone \in {Nobody, p}

Init ==
    /\ pipe = [s \in Slots |-> Closed]
    /\ name = [s \in Slots |-> NoName]
    /\ job = [p \in Jobs |-> NoJob]
    /\ shell = [at |-> "prompt", fd |-> 0, left |-> 0, right |-> 0, children |-> 0]
    /\ alone = Nobody
    /\ handed = <<>> /\ spoiled = FALSE

Unused(p) == job[p] = NoJob /\ \A q \in Jobs : q < p => job[q] # NoJob

\* The shell starts process p, which does what is named on slot s.
Starts(p, does, s) ==
    /\ Unused(p) /\ shell.children < MaxChildren
    /\ job' = [job EXCEPT ![p] = Job(does, s)]

-----------------------------------------------------------------------------
\* pipe_open: the slot of that name, or the first one free.
Open(n, s) ==
    /\ IF \E t \in Slots : name[t] = n THEN name[s] = n
       ELSE ~pipe[s].created /\ \A t \in Slots : t < s => pipe[t].created
    /\ pipe' = [pipe EXCEPT ![s] = Opened(@)]
    /\ name' = [name EXCEPT ![s] = n]

\* pipedBuffer up to the left command.
OpenPipe ==
    /\ At("prompt")
    /\ \E s \in Slots : /\ Open("pipes", s)
                        /\ shell' = [shell EXCEPT !.at = "left", !.fd = s]
    /\ UNCHANGED <<job, alone, handed, spoiled>>

\* readBuffer starts the left command behind, writing to the pipe, and the
\* shell yields.
LeftStarts ==
    /\ At("left")
    /\ \E p \in Jobs :
         /\ Starts(p, "write", shell.fd)
         /\ shell' = [shell EXCEPT !.at = "right", !.left = p, !.children = @ + 1]
    /\ alone' = Nobody
    /\ UNCHANGED <<pipe, name, handed, spoiled>>

\* A command of the shell itself prints on the screen and returns 1.
LeftIsBuiltIn ==
    /\ At("left")
    /\ shell' = [shell EXCEPT !.at = "right", !.left = SHELL]
    /\ alone' = Nobody
    /\ UNCHANGED <<pipe, name, job, handed, spoiled>>

\* COMMAND_NOT_FOUND: back to the prompt with the pipe left open.
LeftNotFound ==
    /\ At("left")
    /\ Return("prompt")
    /\ UNCHANGED <<pipe, name, job, alone, handed, spoiled>>

\* The right command reads the pipe in front, and the shell is to wait.
RightStarts ==
    /\ At("right")
    /\ \E p \in Jobs :
         /\ Starts(p, "read", shell.fd)
         /\ shell' = [shell EXCEPT !.at = "wait", !.right = p, !.children = @ + 1]
    /\ UNCHANGED <<pipe, name, alone, handed, spoiled>>

RightIsBuiltIn ==
    /\ At("right")
    /\ Goto("close")
    /\ UNCHANGED <<pipe, name, job, alone, handed, spoiled>>

\* The left command is killed and the pipe left open: what its end writes goes
\* to the screen, for the shell has the CPU, and it is the parent of the shell
\* that has a child less.  If the left command was built in, the shell itself
\* (pid 1) is killed; a killed shell that its last child makes READY again is
\* not followed further.
RightNotFound ==
    /\ At("right")
    /\ job' = IF shell.left \in Jobs THEN [job EXCEPT ![shell.left] = NoJob]
              ELSE job
    /\ IF shell.left = SHELL THEN Return("killed") /\ alone' = Nobody
       ELSE Return("prompt") /\ UNCHANGED alone
    /\ UNCHANGED <<pipe, name, handed, spoiled>>

\* wait_pid: the shell goes to sleep if it has a child left, whichever it is.
WaitPid ==
    /\ At("wait")
    /\ IF shell.children # 0 THEN Goto("asleep") /\ alone' = Nobody
       ELSE Goto("close") /\ UNCHANGED alone
    /\ UNCHANGED <<pipe, name, job, handed, spoiled>>

\* pipe_close.
ClosePipe ==
    /\ At("close")
    /\ pipe' = [pipe EXCEPT ![shell.fd] = PipeClosed(@)]
    /\ name' = [name EXCEPT ![shell.fd] = NoName]
    /\ Return("prompt")
    /\ handed' = <<>> /\ spoiled' = FALSE
    /\ UNCHANGED <<job, alone>>

\* A reader started with & reads from a pipe of that name, never closed.
StartBehind ==
    /\ At("prompt")
    /\ \E s \in Slots, p \in Jobs : Open("&", s) /\ Starts(p, "read", s)
    /\ shell' = [shell EXCEPT !.children = @ + 1]
    /\ UNCHANGED <<alone, handed, spoiled>>

\* The command unblock, which takes any pid, the shell's own too.
Unblock ==
    /\ At("prompt")
    /\ \/ \E p \in Jobs : /\ job[p].does = "blocked"
                          /\ job' = [job EXCEPT ![p].does = "resumed"]
                          /\ UNCHANGED alone
       \/ alone' = SHELL /\ UNCHANGED job
    /\ UNCHANGED <<pipe, name, shell, handed, spoiled>>

Prompt == OpenPipe \/ StartBehind \/ Unblock

Shell ==
    \/ LeftStarts \/ LeftIsBuiltIn \/ LeftNotFound
    \/ RightStarts \/ RightIsBuiltIn \/ RightNotFound \/ WaitPid \/ ClosePipe

-----------------------------------------------------------------------------
\* Mutant of Bereft: the end of the process in front does not wake the shell.
BereftOfAll(p) ==
    [shell EXCEPT
        !.at = IF @ = "asleep" /\ shell.children = 1 THEN "close" ELSE @,
        !.children = @ - 1]

\* The shell after the end of its child p.  One that sleeps is woken when p is
\* the process in front (ready_foreground_proc) or its last child.
Bereft(p) ==
    [shell EXCEPT
        !.at = IF @ = "asleep" /\ (p = shell.right \/ shell.children = 1)
               THEN "close" ELSE @,
        !.children = @ - 1]

\* The end of a process that writes to the pipe puts the mark back.
Exit(p) ==
    /\ job[p].does = "write"
    /\ job' = [job EXCEPT ![p] = NoJob]
    /\ pipe' = [pipe EXCEPT ![job[p].fd] = PipeWrite(@, 0)]
    /\ shell' = Bereft(p)
    /\ alone' = Nobody
    /\ UNCHANGED <<name, handed, spoiled>>

Overrun(q) == q.nwrite - q.nread >= PIPE_SIZE \/ q.nread > q.nwrite
Spoils(s, q) == name[s] = "pipes" /\ Overrun(q)

AtMost(s, bound) == IF name[s] = "&" THEN MaxBehind ELSE bound

\* sys_write of n bytes.  It goes by the number of the slot: to nobody while
\* that is free, to whoever opened it since.
Write(p, n) ==
    LET s == job[p].fd
        q == PipeWrite(pipe[s], n)
    IN  /\ job[p].does = "write" /\ q.nwrite <= AtMost(s, MaxBytes)
        /\ pipe' = [pipe EXCEPT ![s] = q]
        /\ alone' = IF ReadiesItsCaller(pipe[s]) THEN p ELSE alone
        /\ spoiled' = (spoiled \/ Spoils(s, q))
        /\ UNCHANGED <<name, job, shell, handed>>

\* cat, wc and filter go on while one of the two bytes is not zero.
Loop(c) == c[1] # 0 \/ c[2] # 0

\* What the loop looks at: the second byte is old if only one was stored.
Buffer(c, got) ==
    LET stored == Append(got, 0)
    IN  <<stored[1], IF Len(stored) > 1 THEN stored[2] ELSE c[2]>>

Again(j, c) == [j EXCEPT !.does = "read", !.c = c]

\* One turn of the reading loop; one that was blocked in the call is not
\* listed.  A closed pipe leaves the buffer as it was.
Read(p) ==
    LET s == job[p].fd
        open == pipe[s].created
        q == IF job[p].does = "read" THEN Listed(pipe[s], p) ELSE pipe[s]
        after == IF open THEN AfterRead(q) ELSE pipe[s]
        got == IF open THEN Taken(q) ELSE <<>>
        c == IF open THEN Buffer(job[p].c, got) ELSE job[p].c
    IN  /\ \/ job[p].does = "read" /\ ~Blocks(pipe[s], p)
           \/ job[p].does = "resumed"
        /\ pipe[s].nread <= AtMost(s, MaxReads)
        /\ pipe' = [pipe EXCEPT ![s] = after]
        /\ IF Loop(c)
           THEN job' = [job EXCEPT ![p] = Again(@, c)] /\ UNCHANGED shell
           ELSE job' = [job EXCEPT ![p] = NoJob] /\ shell' = Bereft(p)
        /\ spoiled' = (spoiled \/ Spoils(s, after))
        /\ handed' = IF name[s] = "pipes" /\ ~spoiled' THEN handed \o got ELSE handed
        /\ UNCHANGED <<name, alone>>

\* A reader that finds another one listed is blocked inside the call.
ReadBlocks(p) ==
    /\ job[p].does = "read" /\ Blocks(pipe[job[p].fd], p)
    /\ job' = [job EXCEPT ![p].does = "blocked"]
    /\ UNCHANGED <<pipe, name, shell, alone, handed, spoiled>>

Reads(p) == Read(p) \/ ReadBlocks(p)
Writes(p) == Exit(p) \/ \E n \in 1..3 : Write(p, n)

Next ==
    \/ HasCPU(SHELL) /\ (Prompt \/ Shell)
    \/ \E p \in Jobs : HasCPU(p) /\ (Reads(p) \/ Writes(p))

\* While nobody keeps the CPU the shell and the readers get their turns again
\* and again.  A writer need not go on, nor end, nor the user type.
Spec ==
    /\ Init /\ [][Next]_vars
    /\ SF_vars(alone = Nobody /\ Shell)
    /\ \A p \in Jobs : SF_vars(alone = Nobody /\ Reads(p))

-----------------------------------------------------------------------------
\* The pipe hands out the bytes in the order written, none twice and none
\* left out, around the ring, whatever the calls of the two sides are and
\* whoever writes to its slot, as long as no more than PIPE_SIZE - 1 are
\* unread and no reader comes to an empty pipe whose mark is gone.
HandedInOrder ==
    ~spoiled => \A s \in Slots : name[s] = "pipes" =>
                    handed = [i \in 1..pipe[s].nread |-> i]

\* A command on the right of a pipe is never blocked by block_process_pipe,
\* however many pipelines came before it, went wrong or still run and
\* whichever slots they had: only a second reader of "&" is.
RightReaderRuns ==
    \A p \in Jobs : job[p].does = "blocked" => name[job[p].fd] = "&"

\* The command in front has ended before the shell goes to sleep for it, with
\* other children alive: only the end of the last of them will wake the shell.
TooLate == At("wait") /\ job[shell.right] = NoJob /\ shell.children # 0

\* The reader comes to an end and the prompt comes back, although nothing
\* tells a reader that its writer is done: it overtakes the writer and ends
\* at the first two zeroes together.  Unless the ring has hardly any left,
\* where it goes round and reads old bytes again; or the reader ends before the
\* shell waits, with other children alive; or a writer, READY since its first
\* write, keeps the CPU for ever, as loop does.
PromptReturns ==
    At("wait") ~> \/ At("prompt")
                  \/ pipe[shell.fd].nwrite > PIPE_SIZE - 2
                  \/ TooLate
                  \/ [](alone # Nobody)

\* cat prints what it is given ("Prints the contents of the given input",
\* shell.c): a turn of its loop prints the bytes pipe_read stored.
IsByte(b) == b # 0
CatPrintsItsInput ==
    [][\A p \in Jobs :
         (name[job[p].fd] = "pipes" /\ job'[p].does = "read" /\ Len(handed') > Len(handed))
         => SelectSeq(job'[p].c, IsByte) = SubSeq(handed', Len(handed) + 1, Len(handed'))
      ]_vars
=============================================================================
