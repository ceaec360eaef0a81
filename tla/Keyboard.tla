------------------------------ MODULE Keyboard ------------------------------
(***************************************************************************)
(* The keyboard: saveKey, called by the keyboard interrupt, and the calls  *)
(* that read from it, sys_read and sys_timedRead of syscallManager.c.      *)
(*                                                                         *)
(* A read call starts with interrupts off and turns them on with the sti   *)
(* of readBuf or of _hlt, so its first pass up to there is one step.       *)
(* After that key interrupts and other readers come between its steps,     *)
(* between getCount and readBuf too.                                       *)
(***************************************************************************)
EXTENDS KeyRing

CONSTANTS
    Scans,          \* the scan codes the keyboard sends
    Readers,        \* the processes that read from the keyboard
    Timed,          \* those of them that call sys_timedRead
    Count           \* the value of count each of them passes

Modifiers == {"alt", "shift", "unshift", "e0", "ctrl"}
Letters == {"a", "c", "d"}
Symbols == {"7", "backslash", "space"}

(***************************************************************************)
(* Characters.  A key that is pushed with shift is its character plus      *)
(* ('A' - 'a'), which is the upper-case letter for letters only: shifted   *)
(* newline is not a newline and shifted zero is not zero.  Shifted space    *)
(* is: ' ' + ('A' - 'a') = 0.                                              *)
(***************************************************************************)
Char(k, s) == [key |-> k, shifted |-> s]
Newline == Char("newline", FALSE)
Zero == Char("zero", FALSE)         \* of keys not in the table as well
Eot == Char("eot", FALSE)           \* 4
Minus1 == Char("minus1", FALSE)     \* getKey of 128 and above
KeyChars == [key : Letters \cup Symbols \cup
                 {"newline", "zero", "eot", "minus1", "and", "bar"},
           shifted : BOOLEAN]

ASSUME KbdAssumption ==
    /\ KeyChars \subseteq Keys
    /\ Scans \subseteq Modifiers \cup Letters \cup Symbols
                       \cup {"esc", "enter", "undefined", "release", "0x80"}
    /\ Count \in [Readers -> Nat \ {0, 1}]    \* with 1 a call returns at once
    /\ Timed \subseteq Readers

VARIABLES
    shift, ctrl,    \* the flags of the same names
    pc,             \* where each reader is
    pos,            \* i, the number of characters it has read
    ended           \* whether buf[i - 1], the last of them, ends a line

readerVars == <<pc, pos, ended>>
kbdVars == <<ring, shift, ctrl, readerVars>>

-----------------------------------------------------------------------------
\* getKey
GetKey(scan) ==
    CASE scan = "enter" -> "newline"
      [] scan = "undefined" -> "zero"
      [] scan = "0x80" -> "minus1"
      [] OTHER -> scan

PushChar(c) == Push(c) /\ UNCHANGED <<shift, ctrl>>
KeepRing == UNCHANGED ring

\* The kill of the foreground process is Scheduler's CtrlC.  When that
\* process has the CPU the interrupt does not come back to clear ctrl.
CtrlC == KeepRing /\ UNCHANGED shift /\ ctrl' \in {TRUE, FALSE}

\* saveKey, in the order of its tests.
SaveKey(scan) ==
    /\ UNCHANGED readerVars
    /\ CASE scan = "alt" -> UNCHANGED <<ring, shift, ctrl>>
         [] scan = "esc" -> PushChar(Newline)
         [] scan \in {"shift", "unshift"} ->
               shift' = (scan = "shift") /\ KeepRing /\ UNCHANGED ctrl
         [] scan \in {"e0", "ctrl"} ->
               ctrl' = (scan = "ctrl") /\ KeepRing /\ UNCHANGED shift
         [] scan = "7" /\ shift -> PushChar(Char("and", FALSE))
         [] scan = "backslash" /\ shift -> PushChar(Char("bar", FALSE))
         [] scan = "c" /\ ctrl -> CtrlC
         [] scan = "d" /\ ctrl -> Push(Eot) /\ ctrl' = FALSE /\ UNCHANGED shift
         [] scan = "space" /\ shift -> PushChar(Zero)
         [] scan = "release" -> UNCHANGED <<ring, shift, ctrl>>
         [] OTHER -> PushChar(Char(GetKey(scan), shift))

-----------------------------------------------------------------------------
(***************************************************************************)
(* readBuf(_, n) pops m keys: it stops after n, when the buffer is empty,  *)
(* or at a key that pop's caller cannot tell from an empty buffer.  That   *)
(* key is gone, but not delivered.                                         *)
(***************************************************************************)
Available(n) == IF n < size THEN n ELSE size
Stops(m) == m > 0 /\ KeyAt(m) = Minus1
Pops(n, m) ==
    /\ \A k \in 1..(m - 1) : ~Stops(k)
    /\ m = Available(n) \/ Stops(m)
Delivered(m) == IF Stops(m) THEN m - 1 ELSE m

\* Whether the last character of reader r ends a line, after d more.
Ends(r, d) == IF d = 0 THEN ended[r] ELSE KeyAt(d) \in {Newline, Zero}

\* Mutant of Room: one character too few.
RoomOffByOne(c, i) == IF c - i > 2 THEN c - i - 2 ELSE 0

\* count - *pos - 1
Room(c, i) == c - i - 1

\* readBuf(buf + i, count - i - 1), between cli and sti.
ReadBuf(r, n) ==
    /\ \E m \in 0..Available(n) :
          /\ Pops(n, m)
          /\ PopMany(m)
          /\ pos' = [pos EXCEPT ![r] = @ + Delivered(m)]
          /\ ended' = [ended EXCEPT ![r] = Ends(r, Delivered(m))]
    /\ pc' = [pc EXCEPT ![r] = "look"]
    /\ UNCHANGED <<shift, ctrl>>

\* A read call and its first pass, up to sti.
ReadCall(r) ==
    /\ pc[r] = "user"
    /\ \/ size > 0 /\ ReadBuf(r, Room(Count[r], 0))
       \/ /\ size = 0
          /\ pc' = [pc EXCEPT ![r] = "poll"]
          /\ UNCHANGED <<ring, shift, ctrl, pos, ended>>

\* The call returns; what it read is the caller's from now on.
Return(r) ==
    /\ pc' = [pc EXCEPT ![r] = "user"]
    /\ pos' = [pos EXCEPT ![r] = 0]
    /\ ended' = [ended EXCEPT ![r] = FALSE]
    /\ UNCHANGED <<ring, shift, ctrl>>

Goto(r, l) ==
    /\ pc' = [pc EXCEPT ![r] = l]
    /\ UNCHANGED <<ring, shift, ctrl, pos, ended>>

\* The loop condition and getCount, after _hlt.
Poll(r) ==
    /\ pc[r] = "poll"
    /\ \/ pos[r] >= Count[r] - 1 /\ Return(r)
       \/ pos[r] < Count[r] - 1 /\ size > 0 /\ Goto(r, "read")

\* The keys getCount saw may be gone by now: other readers take them.
Read(r) ==
    /\ pc[r] = "read"
    /\ ReadBuf(r, Room(Count[r], pos[r]))

\* buf[i - 1] ends the line, or not.  With i = 0 that byte is not the
\* reader's, and may be anything.
Look(r) ==
    /\ pc[r] = "look"
    /\ \/ /\ pos[r] = 0 \/ ended[r]
          /\ Return(r)
       \/ /\ pos[r] = 0 \/ ~ended[r]
          /\ Goto(r, "poll")

TimeOut(r) == pc[r] = "poll" /\ r \in Timed /\ Return(r)

Init ==
    /\ RingInit
    /\ shift = FALSE /\ ctrl = FALSE
    /\ pc = [r \in Readers |-> "user"]
    /\ pos = [r \in Readers |-> 0]
    /\ ended = [r \in Readers |-> FALSE]

Step(r) == Poll(r) \/ Read(r) \/ Look(r)

Next ==
    \/ \E scan \in Scans : SaveKey(scan)
    \/ \E r \in Readers : ReadCall(r) \/ Step(r) \/ TimeOut(r)

\* A process inside a read call gets the CPU again and again and gets on with
\* it.  That is Scheduler's NoStarvation with its exception: a process made
\* READY in the CPU, which no tick takes it from, keeps readers away for ever.
\* Nobody has to type or to read.
Spec == Init /\ [][Next]_kbdVars /\ \A r \in Readers : WF_kbdVars(Step(r))

-----------------------------------------------------------------------------
KbdTypeOK ==
    /\ RingTypeOK
    /\ shift \in BOOLEAN /\ ctrl \in BOOLEAN
    /\ pc \in [Readers -> {"user", "poll", "read", "look"}]
    /\ ended \in [Readers -> BOOLEAN]
    /\ DOMAIN pos = Readers
    /\ \A r \in Readers : pos[r] \in 0..(Count[r] - 1)

\* Key interrupts and any number of readers together make the buffer a
\* queue: every key that found room is taken out once, in typing order.  Taken
\* out is not delivered: 0x80, pushed as -1, is popped by readBuf and dropped.
ImplementsKeyQueue == Queue!Spec

\* A full buffer, which drops what is typed, does not stay full while some
\* process is inside a read call and the scheduler lets it run.
FullBufferDrains ==
    size = BufSize /\ (\E r \in Readers : pc[r] # "user")
        ~> size < BufSize \/ \A r \in Readers : pc[r] = "user"
=============================================================================
