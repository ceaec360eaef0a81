------------------------------ MODULE KeyRing ------------------------------
(***************************************************************************)
(* The circular buffer of Kernel/keyboardDriver.c.  push is called by the  *)
(* keyboard interrupt, pop by readBuf between cli and sti.                 *)
(***************************************************************************)
EXTENDS Integers, Sequences

CONSTANTS
    BufSize,        \* BUF_SIZE
    Keys            \* the characters the keyboard produces

ASSUME RingAssumption == BufSize \in Nat \ {0} /\ Keys # {}

VARIABLES
    keys,           \* buffer.keys
    read,           \* buffer.read
    write,          \* buffer.write
    size            \* buffer.size

ring == <<keys, read, write, size>>

Nul == CHOOSE c \in Keys : TRUE     \* what the array is filled with at first

RingInit ==
    /\ keys = [i \in 0..(BufSize - 1) |-> Nul]
    /\ read = 0
    /\ write = 0
    /\ size = 0

\* An index that has gone past the end starts again at 0.
Wrap(i) == IF i >= BufSize THEN i - BufSize ELSE i

\* The k-th key from read on.
KeyAt(k) == keys[Wrap(read + k - 1)]

\* Mutant of Push: the buffer may overflow.
PushUnchecked(c) ==
    /\ keys' = [keys EXCEPT ![write] = c]
    /\ write' = Wrap(write + 1)
    /\ size' = size + 1
    /\ UNCHANGED read

\* Mutant of Push: write stays where it is.
PushInPlace(c) ==
    IF size < BufSize
    THEN /\ keys' = [keys EXCEPT ![write] = c]
         /\ size' = size + 1
         /\ UNCHANGED <<read, write>>
    ELSE UNCHANGED ring

\* A key that comes when the buffer is full is dropped.
Push(c) ==
    IF size < BufSize
    THEN /\ keys' = [keys EXCEPT ![write] = c]
         /\ write' = Wrap(write + 1)
         /\ size' = size + 1
         /\ UNCHANGED read
    ELSE UNCHANGED ring

\* Mutant of PopMany: the count is not brought down.
PopManyKeepsSize(n) ==
    /\ read' = Wrap(read + n)
    /\ UNCHANGED <<keys, write, size>>

\* n calls of pop in a row; n is at most size.
PopMany(n) ==
    /\ read' = Wrap(read + n)
    /\ size' = size - n
    /\ UNCHANGED <<keys, write>>

-----------------------------------------------------------------------------
RingTypeOK ==
    /\ keys \in [0..(BufSize - 1) -> Keys]
    /\ read \in 0..(BufSize - 1)
    /\ write \in 0..(BufSize - 1)
    /\ size \in 0..BufSize

\* read, write and size are kept separately by push in the interrupt and pop
\* in the readers, and always agree: write is size places after read.
RingIsAligned == write = Wrap(read + size)

Queue == INSTANCE KeyQueue WITH
            Capacity <- BufSize,
            queue <- [k \in 1..size |-> KeyAt(k)]
=============================================================================
