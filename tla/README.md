# A TLA+ model of the tron kernel

The repository is a small 64-bit operating system: a preemptive single-CPU
kernel (`Kernel/`) with processes, named semaphores, pipes, two memory
managers, a keyboard and a video driver, and a user module
(`Userland/uCodeModule/`) with a shell, commands, tests and two games. The
boot loader and the tool chain are third-party.

## Inventory

| Part | State | Operations | What makes it correct |
|---|---|---|---|
| semaphores, `semaphore.c` | per semaphore `value`, `lock`, `blocked_processes` with `blocked_first`/`blocked_last`; the table `semaphores[]` | `sem_open`, `sem_close`, `sem_wait`, `sem_post` | mutual exclusion, no token lost or made up, a waiter gets on, a name means one semaphore as long as somebody has it open |
| scheduler, `scheduler.c` | the ring of nodes, `currentNode`, `first`, `foreground`, `background`, `counter`, quantums | tick, yield, block, ready, kill, nice, foreground and background | the ring stays a ring, no pointer to a freed node, nobody but the process that has the CPU is RUNNING, nobody starves |
| processes, `process.c` | parent, state, `children`, `pidc` | exec, exit, `wait_pid` | children are counted, no wakeup is lost, the dead are destroyed |
| first-fit heap, `memoryManager.c` | `free_list`, `alloc_list`, `memory_info` | `malloc`, `free` | live blocks are disjoint and large enough, free blocks coalesce, the accounting adds up |
| buddy heap, `memoryBuddy.c` | `blocks[]` with level and flag, `bucket[]`, `memory_info` | `malloc`, `free`, split, merge | the same contract, and free buddies are always merged |
| keyboard, `keyboardDriver.c` | ring buffer, modifier flags | key interrupt, read | keys come out once, in order |
| system calls, `syscallManager.c` | none of its own | `sys_read`, `sys_write`, ... | a reader gets whole input |
| pipes, `pipe.c` | byte ring, `nread`, `nwrite`, a mark, lists of processes | open, write, read, close | bytes come out once, in order, and the reader ends |
| video driver, `videoDriver.c` | `posX`, `y_char`, `fontSize`, the pixels | print, clear, change the font | what is printed and erased is where the caller thinks |
| shell, `shell.c` | the command line | edit, take apart, run, pipe, wait | the line shown is the line run; waits for exactly the foreground process |
| user library, `lib.c`, `timer.c` | none | conversions, `inputRead` | what is read is what is printed |
| philosophers, `phylo.c` | `count`, `state[]`, two semaphores each | take and put forks, add, remove | nobody eats beside an eater, somebody eats |
| tron, `tron.c` | players, board, scores | tick, turn, pause, restart | no trail is crossed, the survivor scores, games end |
| exceptions, loader, kernel library | | | straight-line code |

How they interact: every system call (`int 80h`) and every hardware interrupt
enters through an interrupt gate, so it runs with interrupts off. The timer
interrupt calls `scheduler`. `_force_scheduler` (`asm/libasm.asm`) raises the
timer interrupt by hand and then executes `sti`: a system call that switched
away goes on with interrupts *on*. `sem_wait` does that, and is the one long
stretch of kernel code in which processes interleave. `scheduler_disable`
keeps ticks from switching without turning them off. The keyboard interrupt
calls the scheduler's foreground operations on Ctrl-C, `free_proc` writes to
pipes, pipes use semaphores, and `sem_post`, `sem_wait` and `pipe_write` change process states,
even of the process that runs.

What is hard is therefore: ticks inside `sem_wait`; `sem_post` without the
lock; entries of `blocked_processes` that outlive the wait; a process that is READY
while it has the CPU and is therefore not preempted; exit, kill and
Ctrl-C, which free nodes other pointers may name; parents and children that end
in any order; readers of a pipe that overtake their writer; philosophers that
come and go while others eat; and long sequences of small legal steps (malloc and
free, edits of a line, moves of a game). `PROJECT.json` lists each hazard at its line.

## Modules

`Semaphore` is one semaphore and its processes. A process has a program
counter that names the next indivisible piece of `sem_wait`: the exchange of
the lock word, the test of the value, the release of the lock, the stretch
between `scheduler_disable` and `scheduler_enable`, the forced switch, and the
load, the store and the unlock of lines 73 and 74. `intFlag[p]` is the
interrupt flag: `FALSE` from the call until the first forced switch, so an
uncontended wait cannot be preempted and a contended one can be anywhere.
`sem_post` is one step. `holds` is history: waits returned minus posts. Which
process a switch picks is left open, so the results hold for every scheduler.

`RoundRobinSem` extends it with the scheduler's choice: process states,
quantums, and the `ready_process` calls of `sem_wait` and `sem_post`.

`SemTable` is the table of names: `sem_open`, `sem_close` and the lookup.
`opens` is history. `CountedSlot` is the slot in which `sem_open` counts the
opener of a new semaphore, which is slot 0, because `sem_init` returns 0.

`Scheduler` is the ring of processes. Its one variable is a record with the
globals of `scheduler.c` and `process.c`, and its operators take such a record
and return the one after a function ran, so that nested calls
(`scheduler` → `kill_foreground_proc` → `kill_process` → `int 20h` →
`scheduler`) are composed in the order of the code. Nodes are identities: the
model frees them and would notice a pointer to a freed one. `Uses` switches
on what only some runs need: `kill`, Ctrl-C while a background process has the
CPU, and block and nice. Children are the only targets of block, nice and
kill, and the shell does nothing but wait while its foreground child lives,
which is what the shell's commands do. `Ready` is different: `ready_process` is called
with any pid at any time, because `unblock` takes any, `sem_post` and `sem_wait` pop stale
ones, and every `pipe_write` names its own caller (`pipe.c:29`, 212). So the process that
has the CPU may be READY: its ticks are not counted and no tick takes the CPU from it
until it blocks, yields or ends. `Monopoly` is that state, here and in `RoundRobinSem`.
`waits` is history: whether a BLOCKED process is so by its own `wait_pid`.

`RunQueue` is what the ring promises: a queue of processes in the order in
which they get the CPU; a new process comes right after its parent, a switch
rotates, a process leaves from the front. `Scheduler` implements it under the
mapping that reads the ring from `currentNode` on.

`Heap` is the first-fit memory manager with its two lists as sequences of
blocks and `size_t` arithmetic modulo `Modulus`. `Buddy` is the other one: `mem`
holds level and flag of every block and the buckets, `splitBlock` and `mergeBuddy`
are operators on it. `Allocator` is the contract of `malloc` and `free` for
callers; both implement it. A kernel is built with one of them, so `MCMemory`
starts with either.

`KeyRing` is the circular key buffer, and `Keyboard` extends it with `saveKey`,
which the interrupt calls, and the readers, `sys_read` and `sys_timedRead`. A read
call's first pass is one step, because it runs with interrupts off up to the
`sti` in `readBuf` or `_hlt`; later passes are three steps (`Poll`: loop condition
and `getCount`; `Read`: `readBuf`; `Look`: the test of the last byte). Of the
caller's buffer the model keeps how much was read and whether the last byte ends a
line. `KeyQueue` is what the buffer promises; the mapping reads `size` keys from
`read` on.

`Pipe` is one pipe as operators on a record: a call runs with interrupts off and
never finds its semaphore taken, so it is one step. Bytes are numbered in the order
written; 0 is the end of a string and -1 the mark behind the last byte. The list
of waiting writers is left out, as a writer is listed and taken off in the same call;
what taking it off does to the writer is not: `release_process_pipe` makes it READY
(`ReadiesItsCaller`).
`Pipeline` composes it with `pipes[]`, of which two names never take more than two slots
(`Open` is `pipe_open` with its two searches), with the shell's `pipedBuffer` (the left
command behind, the right one in front, and the ways out when a command is unknown or
runs in the shell itself), with readers started by `&`, with the reading loop that `cat`, `wc` and
`filter` share, and with the end-of-file write of `free_proc`, which only puts the
mark back. A process keeps the number of its slot, so a writer left over from a closed
pipe writes to whoever opened the slot since. `alone` is the process that is READY in the
CPU and keeps it, as a writer does from its first write: `loop | cat` stops everything
else. `WaitPid` is `wait_pid`: the shell sleeps while it has a child, whichever it is, and
`Bereft` is what the end of a child does to it: it is woken when the process in front
ends, or the last child. A shell killed by its own `kill(1)` (an unknown command right of
a built-in) is not followed further, though its last child's end would make it READY
again. `printmem`, which waits although it runs behind, and built-ins that return 0 are
not told apart from the others.

`Phylo` is `phylo.c`. Semaphores are counters whose waits and posts are single
steps, which is what `Semaphore` shows of them, and a stretch under `MUTEX` is one
step. `state[]` starts as any garbage. `met` is history: it records the situations
in which the program breaks its promise, so that the properties say exactly where
it keeps it: a phantom (an unwritten `HUNGRY` was given forks), a shared id (a
philosopher was added before the removed one of that id had looked) and a removal.
`alone` is again the process that keeps the CPU: any wait or post may pop the stale pid
of its own caller. The model is one run of the program, from semaphores just opened.

`Terminal` is the line of the cursor on the screen: where the next character goes,
in pixels and in the widths of the code's variables, and which characters can be
seen. `Tron` is the game: one action per key class, one step per tick. `Text` has
the conversions and the parser as operators on sequences of characters. `Shell`
composes the three: one process with a prompt, a line being edited, commands, and
the game it calls. Which command a line names is left open, so every command can
follow every line.

`SemaphoreProofs` (which covers `RoundRobinSem` too), `SemTableProofs`,
`SchedulerProofs`, `MemoryProofs` (for `Heap` and `Buddy`), `KeyboardProofs`,
`PipelineProofs`, `PhyloProofs` and `ShellProofs` (for `Terminal` and `Tron` as well)
hold the theorems. `MCSemaphore`,
`MCRoundRobinSem`, `MCMemory` and `MCKeyboard` give TLC its instances. Definitions
whose comment begins "Mutant of" are faulty variants used to see that a property
notices the fault; no specification uses them.

## Runs

| Run | Instance | Shows |
|---|---|---|
| `SemCounting` | 3 processes, one of them a producer, value 2 | lock exclusive, never more grants than tokens |
| `SemRoundRobin` | 2 processes, value 1, small quantum, 4 appends to a blocked ring of 2 | mutual exclusion, token kept; round robin and progress unless the CPU is monopolised |
| `SemTable` | 2 processes, 3 names, 5 slots of which the kernel has 3 | unique names, no leaked slot |
| `Memory` | first fit: 17 words, requests 0, 1, 4, 7, 30; buddy: 8 units, six requests | tiling, coalescing, accounting, the allocator contract, for both |
| `Keyboard` | ring of 2 keys, a reader of lines (count 3), a reader of characters with a timeout (count 2), eleven scan codes | the buffer is a queue, indices agree, readers stay in their room, a full buffer drains |
| `SchedExit` | 5 processes, block, nice, `ready_process` on any pid, orphans | ring, only one RUNNING, child counts, wakeups, foreground, run queue |
| `SchedKill` | 4 processes, kill, block, `ready_process` on any pid, orphans | no starvation unless the CPU is monopolised |
| `Phylo` | 2 to 4 philosophers, at most 4 processes | neighbours do not eat, permissions are kept, the removed are out; somebody eats unless the CPU is monopolised |
| `Shell` | lines of 5 characters, 3 font sizes, 2 words of 3 letters, a board of 7 by 4 | the line shown and taken apart, decimal and octal numbers read and printed back; trails, scores and the end of games |
| `Pipeline` | ring of 5 bytes, 6 written, 2 processes beside the shell | order of bytes, the right reader runs, the prompt returns with three exceptions the code has |

Runs that show the code departing from what the repository says of it; each is
explained under `findings` in `PROJECT.json`:

| Run | Violated | In short |
|---|---|---|
| `SemTableEarlyFree` | `OpenSemIsUsable` | a close frees a semaphore another process has open: with two openers the first, with the four of `test_sync` a later one |
| `PipelineCat` | `CatPrintsItsInput` | a third byte is stored where cat does not look |

Not covered by a run of their own but met on the way:

* `sem_post` pops pids that no longer wait, its own caller's included, and the
  second test of `sem_wait` calls `ready_process` for the caller. So does every
  `pipe_write`, and `unblock` with the shell's own pid. The process that has the CPU is
  then READY, its ticks are not counted and it is not preempted (`Monopoly` in `Scheduler`
  and `RoundRobinSem`, `alone` in `Phylo` and `Pipeline`). `NoStarvation`,
  `RoundRobinUnlessMonopoly`, `ProgressUnlessMonopoly`, `SomebodyEatsUnlessMonopoly` and
  `PromptReturns` state it as an exception, and TLC finds them violated without it.
* A process whose parent is gone is never destroyed (`scheduler.c:291`): it stays in
  the ring as KILLED. If it has children, or somebody unblocks it, it becomes READY again:
  a process that was killed, or had ended, gets the CPU. `SchedExit` and `SchedKill`
  include it; the properties listed for them hold, and none of them says that the dead
  stay dead.
* `wait_pid` is told no pid and sleeps as long as there is any child. When the process in
  front ends before its shell gets there, the shell sleeps until the last child in the
  background has ended, which a blocked reader or `loop` never does (`TooLate` in
  `Pipeline`).
* Ctrl-C while another process than the foreground one has the CPU updates the
  children of the wrong parent (`scheduler.c:291` again), and so does `kill`: it tells the parent of
  the caller, not the caller, whose child it was. With `"kill"` in `Uses`,
  `ChildrenAreCounted` and `NoLostWakeup` fail, and with `"ctrl-c"` also `RingIsSound`
  and `OnlyOneRuns`.
* `malloc` rounds its argument up with wrap-around (`memoryManager.c:53`): the seven
  largest sizes become 0. The buddy `malloc` indexes past its buckets for a request
  larger than the heap.
* With two processes reading from the keyboard, `sys_read` can test the byte before
  the caller's buffer (`syscallManager.c:92`). Ctrl-C on the process that has the
  CPU leaves `ctrl` set. `saveKey` adds 'A' - 'a' to every shifted key, so that shifted
  space has code 0, which `sys_read` takes for the end of a line. A scan code of 0x80 is
  pushed as -1; `readBuf` pops it and stops as if the buffer were empty.
* `pipe_write` never finds the ring full while it is ahead; `HandedInOrder` holds only
  up to `PIPE_SIZE - 1` unread bytes. A second reader of `&` is blocked until
  somebody unblocks it. An unknown command right of a built-in kills the shell. A writer
  left over from a closed pipe (`loop | cat`) writes into the pipe that takes its slot.
* In `phylo.c` two neighbours can eat at once after a removal, or when the
  uninitialised `state[]` happens to read HUNGRY. `phylo` closes no semaphore: run a
  second time after Ctrl-C, it finds those of the first run as they were left, and its
  `sem_post` makes `MUTEX` 2.
* The buddy `free` trusts a flag that stays set in a half that was merged away: a block
  freed twice can be put into a bucket twice. `BuddyImplementsAllocator` is about programs
  that free a block once.
* In tron, DOWN against LEFT one cell apart in a column is scored a draw.
  `drawScores` has two bytes for a text of three.
* Hexadecimal is printed with 'A' to 'F' (`printBase`, by `inforeg` and `printmem` itself)
  and read with 'a' to 'f' only (`shell.c:187`): `printmem 0xE` is refused, although the
  help asks for "a parameter in hexadecimal format" (`shell.c:70`). `NumberReadsBack` says
  which addresses are refused.
* The clock shows 3, 22 and 23 for the hours 3, 4 and 5.
* In the larger fonts a line breaks, and backspace does not find its way back.
* The help text of the shell (`shell.c:84`) says of the flag of `test-sync`
  "0 - sync, 1 - no sync"; `test_sync.c` uses the semaphore when the flag is not 0.

### Bounds

`MaxLast` bounds how often a process is appended to `blocked_processes`; with a
ring shorter than that (`MaxProc`) the entries wrap around and are overwritten, as
they are after 50 entries in the code. `MaxValue` stops producers. Two processes
already show every pair of critical instructions; the third makes a contended
second waiter. `SemTable` has room for two user semaphores and three names, so the
table is full and slots are reused under another name. In `Memory` the requests to `Heap`
cover a size that needs alignment, an exact fit, a remainder one word too small to
split, a failure, and 0, and `Pointers` includes addresses that are not the start
of a block; the buddy heap has four levels, so that merges chain, and requests at
and just above powers of two. A key ring of two is enough for full, empty and wrap-around at once; the readers'
counts make one of them read in batches and the other key by key. Of the scan
codes there is at least one for each branch of `saveKey` that treats flags
differently, and 0x80, whose character `pop` returns as -1.
In `Scheduler` four pids beyond IDLE allow a foreground process, a
background process and a grandchild at once; priorities above `MaxQuantum` are
included because `nice` does not limit them.

`Phylo` may have two to four philosophers, the smallest numbers in which neighbours
on both sides are one and the same and are two. In `Shell`
the terminal is as wide as prompt, line and cursor, as `MAX_TERMINAL_CHARS` makes it
on a screen of 1024; the letters are a blank, a bar and two digits, and the words
that fit are fewer and shorter than a line allows, so that lines are cut. The board
of 7 by 4 has room for the players to meet head-on, on one cell and side by side;
`MaxScore` stops after a point. In `Pipeline` the ring is shorter than what is
written, so it goes around and overruns; `MaxReads` is larger than `MaxBytes`, so that
readers overtake and go around on their own. Two processes are a writer and a reader,
either of which may be one of the pipeline before or behind; what needs more of them at
once rests on the proofs, which are for any number. `MaxChildren` bounds what the shell's
count reaches: it counts one too many for every left command that it kills itself, since
`destroy_node` then tells another parent, and the bound allows two such miscounts beside
two living children. `MaxBehind` is small because a pipe opened by `&` has no writer of
its own. The bound of `PIPE_SIZE - 2` bytes in `PromptReturns` is sharp: with one more
the reader may go on for ever.

Deadlock is not checked in the runs of `Pipeline` and `Phylo`: there the process that
keeps the CPU may have come to the bound of the model, or spin in `sem_wait` while no
other runs, which is what the code does. In all other runs a ticking timer or a user has
always a next step.

### Fairness

`Scheduler` assumes only that the timer keeps ticking (`WF` of `Tick`); its
system calls are steps with interrupts off, so ticks are always possible.
`RoundRobinSem` assumes that a tick that comes while interrupts are off is kept
by the interrupt controller and delivered when they are on (`SF` of `RRTick`), that
a process inside the kernel that has the CPU again and again executes its
instructions, and that a process inside its critical section goes on to post.
Nothing is assumed of user code that calls `sem_wait` or yields.
`Keyboard` assumes weak fairness of the steps of a process inside a read call: it is
never blocked there, and the scheduler gives it the CPU again (`NoStarvation`, with its
exception: a process READY in the CPU can keep every reader away, and `FullBufferDrains`
supposes that none does).
Nobody has to type, and nobody has to call `read`.
`Phylo` and `Pipeline` do not assume that a process gets the CPU as long as another keeps
it. While nobody does (`alone = Nobody`), which may be now and then only, the scheduler
gives everybody turns: strong fairness, in `Phylo` of a removal once the key was pressed
and of the philosophers taken together (that one of those who can go on does is what
`RoundRobinSem` shows of spinning waiters; it is not assumed of each), in `Pipeline` of the
shell between commands and of every reader. A process that keeps the CPU need
not do anything with it, a writer need neither write nor end, and no user has to type.
`Shell` assumes it of a tick of the game only: `getTimedChar` returns within its time
whether a key comes or not, and no other process keeps the CPU.

## Proofs

The theorems hold for every value of the constants that the named assumptions of the
modules allow; TLC evaluates those assumptions in the runs. Bounds that only TLC
needs (`MaxLast`, `MaxOpens`, `MaxBytes`, ...) are arbitrary. Recursive definitions are
reasoned about by `LeastNat`: a non-empty set of naturals, such as that of the
counterexamples, has a least element. A fold of the community modules is a recursive
function chosen by its defining equation; where a proof needs one (`SumsExist`,
`DrawingExists`), a smallest counterexample shows first that such a function exists.

`SemaphoreProofs`, for any set of processes, ring length and initial value:

* `TypeCorrect`: `Spec => []TypeOK`. That `value` stays natural depends on
  `Store` running only after `Check` found it positive, with nobody
  decrementing in between, so the induction goes through `LockInv`:
  the types, `LockExclusive`, and `DecrementSafe` (a process between the test
  and the store sees, or has loaded, a positive value).
* `LockIsExclusive`: `Spec => []LockExclusive`, from the same invariant.
* `MutexExcludes` and `MutexKeepsToken`, for a semaphore opened with 1 and
  without producers (`InitValue = 1`, `Producers = {}`). The invariant `MutexInv` adds
  where the token is: in `value`, on its way through the decrement (`TokenInPlace`), or
  held by exactly one process. It rules out the lost post: a process that could post
  holds the token, so nobody can be between load and store.
* `GrantsStayCovered`: `Spec => []NeverOverGranted`, for any finite set of processes,
  any initial value and any producers. `GrantInv` adds to `LockInv` that `value` and the
  grants together never exceed the initial value, and neither do the grants and a value
  that a process has loaded but not yet stored: a post in between makes the
  stored value too small, never too large. `FoldIsSum` says that the fold of `Granted` is
  a sum in which the order does not matter, so one more grant adds one (`SumChanges`).
* `SchedulerAllowed`: `RRSpec => Spec`. The scheduler of `RoundRobinSem` takes only
  steps that `Semaphore` leaves open, so `ScheduledMutexExcludes`,
  `ScheduledMutexKeepsToken` and `ScheduledGrantsStayCovered` follow for it. `OneProcessRuns`: at most the process
  with the CPU is marked RUNNING (it may not be: `Monopoly`).

`SemTableProofs`, for any finite set of processes, any names and any length of the
table above three: `NamesStayUnique` and `SlotsNeverLeak`. `TableInv` says that the
kernel's three slots never change hands (so slot 0, which counts the first opener of
every semaphore, is not closed), that a name has one slot, and that a user's slot
counts *less* than the opens of its name still pending. The last is what makes the
count harmless for leaks, and what makes `OpenSemIsUsable` fail.

`SchedulerProofs`, for any number of processes, quantum and priorities:
`RingStaysSound`, `OnlyOneIsMarked`, `ChildrenStayCounted`, `WakeupIsNotLost`,
`ForegroundGoesBack`. The inductive invariant `SchedInv` is the conjunction of

* `Shape`: an enumeration of the nodes in which each is linked to the next (`Ring`),
  a bijection between nodes and processes (`Homes`), and `Pointers`: IDLE is in
  `first`, the shell in the node behind, and the foreground process, if it is another,
  in the node behind that. `destroy_node` frees the node *behind* the one that ends
  (`TakenOver`), so this is what keeps `foreground` and `background` from dangling;
* `Family`: a parent has a smaller pid than its child, children are counted, who
  is BLOCKED by its own `wait_pid` has some, and IDLE is never blocked;
* `Marked`: nobody is RUNNING but the process with the CPU, which is RUNNING or READY.

The theorems assume `Uses \subseteq {"block"}`, which is how `SchedExit` is run: processes
end by themselves, or by Ctrl-C while they have the CPU. `kill` and other Ctrl-Cs
are left out because with them `Family` is false, as listed above; with `kill` alone
TLC finds `RingIsSound` and `OnlyOneRuns` intact on four processes, which is not proved. `Ring`
and what the operators do to it (`TakenOver`, `ExecGrows`, `Dispatched`) do not
depend on this.

* `RingIsAQueue`: `Spec => ImplementsRunQueue`, under the same hypothesis. `QueueIs`
  and `QueueRotates` read the queue off any listing of the ring (`Loop`). Every step
  keeps the links (`Linked`: a rotation or a stutter), takes the current process off
  (`Left`) or links one in behind it (`Grown`), whatever order its handler works in.

`MemoryProofs`, for the first-fit heap with any heap, word and `size_t`:

* `HeapIsTiledAlways`, `FreeListIsCoalescedAlways`, `InfoAddsUpAlways`. `HeapInv` is
  `Tiling` (both lists lie in the heap, the free one is a `Chain` in ascending order
  whose blocks do not touch, no two blocks overlap, and every byte is in one), the accounting, and
  that `asked` is known of exactly the payloads of the allocated blocks. That blocks do not
  touch is part of the induction: it is why one merge on each side is enough.
  `malloc` finds its block anywhere in the list and takes all of it or its front; `free`
  inserts and merges on neither, either or both sides.
* `HeapKeepsContract`: `Spec => ImplementsAllocator`, the refinement of `Allocator`; `Live`
  maps each payload to what was asked for and what its block has. It assumes
  `Requests \subseteq 0..(Modulus - Word)`: above that `AlignSize` wraps around and less
  than the request is granted, as listed above. The run keeps to the same requests.

and for the buddy heap with any number of levels, any unit and the requests that fit
the heap (`BuddyAssumption`, since larger ones leave the bucket array):

* `BuddiesTileAlways`, `BuddiesMergedAlways`. `Sound` (the blocks in the buckets and those granted
  tile the units at aligned indices, each block is in the bucket of its level once, the
  accounting) also holds *between* two splits or merges, so the loops of `splitBlock` and
  `mergeBuddy` are proved by keeping it. `BuddyInv` adds, between calls, that
  granted blocks have their flag set (`Flags`), and that no free block is beside its free
  buddy (`MergedIn`). While merging, the block at hand is the only exception. A block of
  the level that `mergeBuddy` looks for, at the buddy's index, is a block
  of the tiling, not the inside of a larger one: there alignment is needed.
* `BuddyKeepsContract`: `BuddySpec => BuddyImplementsAllocator`, with `Held` as the mapping.
  The level that `log2n` and its correction choose holds the request.

`KeyboardProofs`, for every `BUF_SIZE`, any set of readers and any counts:

* `RingStaysAligned` and `KeyboardTypes`. `RingInv` (types, and `write` is `size`
  places after `read`) is preserved by a push and by popping at most `size` keys.
  `NextIsRingStep` shows that every step of the keyboard is one of these;
  `ReaderInv` adds that a reader at `readBuf` has room.
* `KeyboardIsAQueue`: `Spec => ImplementsKeyQueue`, the refinement of `KeyQueue`.
  `PushPuts` and `PopsTake` compute the contents of the ring after a step; the
  alignment is what makes the pushed key land behind the last one.

`PipelineProofs`, for every `PIPE_SIZE` above one, any set of processes and any number
of bytes: `BytesComeInOrder` and `RightReaderNeverBlocks`. `PipelineInv` says that, until
the ring is overrun, every byte between the counters is at its place (`Stream`), whoever
wrote it; that a free slot is empty and one slot has the shell's pipe (`Named`); and
that nobody but the command the shell waits for reads or is listed there (`OneReader`).
For the last the shell must not wake too early, close the pipe and open it again under
its reader: `wait_pid` wakes it for the last child too, so the proof needs that the
shell never counts fewer children than are alive (`Counted`).

`PhyloProofs`, for every `MIN`, `INITIAL` and `MAX` and any processes, each from the one
before:

* `RemovedPhilosopherIsOut`, by `LeaveInv`: until ids are shared, each philosopher has
  its entry of the arrays alone, `think_unlock` is posted only to one who waits
  for it, and main holds the one it is about to remove or let go.
* `PermissionNeverLost`, by `TokenInv`, which adds that a token of `hungry_lock` is
  there only for a philosopher that waits for it: one left over would feed its owner
  unasked.
* `NeighboursNeverEat`, by `EatInv`: who eats is EATING, and no two neighbours do;
  adding a philosopher separates two and joins none (`BesideAfterAdd`).

`ShellProofs`:

* `LineStaysShown`: `Spec => []LineIsShown`, for every font, width of the line and set of
  characters without backspace and newline (`LettersAssumption`). `LineInv` says that the
  buffer is short enough and that the line is `Drawn`: the cursor stands behind its
  characters, and those that are not blanks are seen. `Printed` unfolds `PrintString`;
  `PutAdds` and `PutTakes` are what one character and one backspace do to a drawn line. The
  backspace needs that the line fits (`Position`: nothing breaks, no width wraps) and that
  something is left of the cell: the rectangle it clears reaches from x to 2x + 1,
  which covers a cell only from the second column on, and there is nothing to its right.
* `TrailsNeverMeet` and `SurvivorScores`, for every canvas, over `TronTypes` (the board is
  finite, so its growth can be counted).

Only model-checked:

* `LineIsTakenApart` and `NumberReadsBack`: what the folds and recursive functions of
  `Text` compute for every line and every number is an induction over data, which the
  provers cannot do;
* all liveness: fairness is outside the prover's reach.

## Not modelled

Register saving and stack contents, descriptor tables, glyphs, colours and drawing,
the clock chip, exceptions, start-up, the boot loader and the build tools: machine
state and I/O no property distinguishes. Memory exhaustion inside process creation.
Nested shells. `get_sem_info`, `get_sem_count`, `pipe_info` and the listing functions
only read. `printf` is modelled by the conversions it calls.

## Plan

1. Proofs: the ring and the marks also with `kill`, which needs that parents stay
   ahead of their children in the ring.
2. Splitting `killCurrentProcess` into its load and its store, nested shells, and what a
   process that ended and became READY again does, in `Scheduler`.
3. `Semaphore` and `SemTable` composed: a slot closed and reused under a waiter.
