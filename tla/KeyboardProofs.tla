--------------------------- MODULE KeyboardProofs ---------------------------
(***************************************************************************)
(* The keyboard buffer is a queue, for every buffer size and any number of *)
(* readers.  RingInv is inductive by itself: whatever the readers do, they *)
(* pop at most size keys.                                                  *)
(***************************************************************************)
EXTENDS Keyboard, TLAPS

RingInv == RingTypeOK /\ RingIsAligned

\* The queue the buffer stands for.
Contents == [k \in 1..size |-> KeyAt(k)]

\* Every step of the keyboard is one of these for the buffer.
RingStep ==
    \/ \E c \in Keys : Push(c)
    \/ \E m \in 0..size : PopMany(m)
    \/ UNCHANGED ring

-----------------------------------------------------------------------------
\* The keyboard interrupt pushes characters of the key set only.
LEMMA SaveKeyPushes ==
    ASSUME NEW scan \in Scans, shift \in BOOLEAN, SaveKey(scan)
    PROVE  RingStep
<1>1. CASE \/ scan \in {"alt", "shift", "unshift", "e0", "ctrl", "release"}
           \/ (scan = "c" /\ ctrl)
  BY <1>1 DEF SaveKey, RingStep, CtrlC, KeepRing
<1>2. CASE scan = "esc"
  <2>1. Newline \in Keys
    BY KbdAssumption DEF Newline, Char, KeyChars
  <2> QED BY <1>2, <2>1 DEF SaveKey, RingStep, PushChar
<1>3. CASE scan = "7" /\ shift
  <2>1. Char("and", FALSE) \in Keys
    BY KbdAssumption DEF Char, KeyChars
  <2> QED BY <1>3, <2>1 DEF SaveKey, RingStep, PushChar
<1>4. CASE scan = "backslash" /\ shift
  <2>1. Char("bar", FALSE) \in Keys
    BY KbdAssumption DEF Char, KeyChars
  <2> QED BY <1>4, <2>1 DEF SaveKey, RingStep, PushChar
<1>5. CASE scan = "d" /\ ctrl
  <2>1. Eot \in Keys
    BY KbdAssumption DEF Eot, Char, KeyChars
  <2> QED BY <1>5, <2>1 DEF SaveKey, RingStep
<1>6. CASE /\ scan \in {"a", "c", "d", "7", "backslash", "space",
                        "enter", "undefined", "0x80"}
           /\ ~(scan = "7" /\ shift) /\ ~(scan = "backslash" /\ shift)
           /\ ~(scan = "space" /\ shift)
           /\ ~(scan = "c" /\ ctrl) /\ ~(scan = "d" /\ ctrl)
  <2>1. GetKey(scan) \in Letters \cup Symbols \cup
            {"newline", "zero", "minus1"}
    BY <1>6 DEF GetKey, Letters, Symbols
  <2>2. Char(GetKey(scan), shift) \in Keys
    BY <2>1, KbdAssumption DEF Char, KeyChars
  <2> QED BY <1>6, <2>2 DEF SaveKey, RingStep, PushChar
<1>7. CASE scan = "space" /\ shift
  <2>1. Zero \in Keys
    BY KbdAssumption DEF Zero, Char, KeyChars
  <2> QED BY <1>7, <2>1 DEF SaveKey, RingStep, PushChar
<1>8. scan \in {"alt", "shift", "unshift", "e0", "ctrl", "release", "esc",
                "a", "c", "d", "7", "backslash", "space", "enter", "undefined", "0x80"}
  BY KbdAssumption DEF Modifiers, Letters, Symbols
<1> QED BY <1>1, <1>2, <1>3, <1>4, <1>5, <1>6, <1>7, <1>8, Zenon

\* A reader pops at most what there is, whatever room it has.
LEMMA ReadBufPops ==
    ASSUME NEW r \in Readers, NEW n, size \in Nat, n \in Int, ReadBuf(r, n)
    PROVE  RingStep
BY DEF ReadBuf, RingStep, Available

\* A reader has room for what it reads, and starts each call afresh.
Places ==
    /\ pc \in [Readers -> {"user", "poll", "read", "look"}]
    /\ pos \in [Readers -> Nat]
    /\ \A r \in Readers :
          /\ pos[r] <= Count[r] - 1
          /\ pc[r] = "read" => pos[r] < Count[r] - 1
          /\ pc[r] = "user" => pos[r] = 0

Flags ==
    /\ shift \in BOOLEAN /\ ctrl \in BOOLEAN
    /\ ended \in [Readers -> BOOLEAN]

ReaderInv == Places /\ Flags

\* Every call has room for a character.
LEMMA CountType ==
    ASSUME NEW r \in Readers
    PROVE  Count[r] \in Nat /\ Count[r] > 1
<1>1. Count \in [Readers -> Nat \ {0, 1}]
  BY KbdAssumption DEF KbdAssumption
<1> QED BY <1>1

LEMMA ReadersInit == Init => ReaderInv
<1> SUFFICES ASSUME Init PROVE ReaderInv OBVIOUS
<1>1. Places
  BY CountType DEF Init, Places
<1>2. Flags
  BY Zenon DEF Init, Flags
<1> QED BY <1>1, <1>2 DEF ReaderInv

LEMMA ReadBufReaders ==
    ASSUME NEW r \in Readers, ReaderInv, RingTypeOK,
           pos[r] < Count[r] - 1, ReadBuf(r, Room(Count[r], pos[r]))
    PROVE  ReaderInv'
<1>1. Room(Count[r], pos[r]) \in Nat /\ Room(Count[r], pos[r]) = Count[r] - pos[r] - 1
  BY CountType DEF ReaderInv, Places, Room
<1>2. PICK m \in 0..Available(Room(Count[r], pos[r])) :
          /\ pos' = [pos EXCEPT ![r] = @ + Delivered(m)]
          /\ ended' = [ended EXCEPT ![r] = Ends(r, Delivered(m))]
  BY DEF ReadBuf
<1>3. m \in Nat /\ m <= Count[r] - pos[r] - 1
  BY <1>1, <1>2, RingAssumption DEF Available, RingTypeOK
<1>4. Delivered(m) \in Nat /\ Delivered(m) <= m
  BY <1>3 DEF Delivered, Stops
<1>5. /\ pos' \in [Readers -> Nat]
      /\ \A q \in Readers : pos'[q] <= Count[q] - 1
      /\ \A q \in Readers : q # r => pos'[q] = pos[q]
  <2>1. pos \in [Readers -> Nat] /\ \A q \in Readers : pos[q] <= Count[q] - 1
    BY DEF ReaderInv, Places
  <2>2. pos'[r] = pos[r] + Delivered(m) /\ pos' \in [Readers -> Nat]
    BY <1>2, <1>4, <2>1
  <2>3. pos'[r] <= Count[r] - 1
    BY <1>3, <1>4, <2>1, <2>2, CountType
  <2>4. \A q \in Readers : q # r => pos'[q] = pos[q]
    BY <1>2, <2>1
  <2> QED BY <2>1, <2>2, <2>3, <2>4
<1>6. ended' \in [Readers -> BOOLEAN]
  <2>1. Ends(r, Delivered(m)) \in BOOLEAN
    <3>1. ended[r] \in BOOLEAN
      BY DEF ReaderInv, Flags
    <3>2. CASE Delivered(m) = 0
      BY <3>1, <3>2 DEF Ends
    <3>3. CASE Delivered(m) # 0
      BY <3>3 DEF Ends
    <3> QED BY <3>2, <3>3
  <2> QED BY <1>2, <2>1, Zenon DEF ReaderInv, Flags
<1>7. pc' = [pc EXCEPT ![r] = "look"] /\ UNCHANGED <<shift, ctrl>>
  BY DEF ReadBuf
<1>8. Places'
  BY <1>5, <1>7 DEF ReaderInv, Places
<1>9. Flags'
  BY <1>6, <1>7, Zenon DEF ReaderInv, Flags
<1> QED BY <1>8, <1>9 DEF ReaderInv

\* A call that returns forgets its position.
LEMMA ReturnReaders ==
    ASSUME NEW r \in Readers, ReaderInv, Return(r)
    PROVE  ReaderInv'
<1>1. Places'
  BY CountType DEF ReaderInv, Places, Return
<1>2. Flags'
  BY Zenon DEF ReaderInv, Flags, Return
<1> QED BY <1>1, <1>2 DEF ReaderInv

\* A step of the program counter alone.
LEMMA GotoReaders ==
    ASSUME NEW r \in Readers, NEW l \in {"poll", "read"}, ReaderInv,
           pc' = [pc EXCEPT ![r] = l], UNCHANGED <<shift, ctrl, pos, ended>>,
           l = "read" => pos[r] < Count[r] - 1
    PROVE  ReaderInv'
<1>1. Places'
  BY DEF ReaderInv, Places
<1>2. Flags'
  BY Zenon DEF ReaderInv, Flags
<1> QED BY <1>1, <1>2 DEF ReaderInv

LEMMA ReadersStep ==
    ASSUME ReaderInv, RingTypeOK, [Next]_kbdVars
    PROVE  ReaderInv'
<1>1. ASSUME NEW scan \in Scans, SaveKey(scan) PROVE ReaderInv'
  <2>1. shift' \in BOOLEAN /\ ctrl' \in BOOLEAN
    BY <1>1, KbdAssumption, Zenon
       DEF SaveKey, ReaderInv, Flags, CtrlC, PushChar, Modifiers, Letters, Symbols
  <2>2. UNCHANGED readerVars
    BY <1>1 DEF SaveKey
  <2> QED BY <2>1, <2>2, Zenon DEF ReaderInv, Places, Flags, readerVars
<1>2. ASSUME NEW r \in Readers, ReadCall(r) PROVE ReaderInv'
  <2>1. pos[r] = 0 /\ 0 < Count[r] - 1
    BY <1>2, CountType DEF ReadCall, ReaderInv, Places
  <2>2. CASE ReadBuf(r, Room(Count[r], 0))
    BY <2>1, <2>2, ReadBufReaders
  <2>3. CASE pc' = [pc EXCEPT ![r] = "poll"]
             /\ UNCHANGED <<ring, shift, ctrl, pos, ended>>
    BY <2>3, GotoReaders, Zenon
  <2> QED BY <1>2, <2>2, <2>3 DEF ReadCall
<1>3. ASSUME NEW r \in Readers, Poll(r) PROVE ReaderInv'
  <2>1. CASE Return(r) BY <2>1, ReturnReaders
  <2>2. CASE pos[r] < Count[r] - 1 /\ Goto(r, "read")
    BY <2>2, GotoReaders DEF Goto
  <2> QED BY <1>3, <2>1, <2>2 DEF Poll
<1>4. ASSUME NEW r \in Readers, Read(r) PROVE ReaderInv'
  BY <1>4, ReadBufReaders DEF Read, ReaderInv, Places
<1>5. ASSUME NEW r \in Readers, Look(r) PROVE ReaderInv'
  <2>1. CASE Return(r) BY <2>1, ReturnReaders
  <2>2. CASE pc[r] = "look" /\ Goto(r, "poll")
    BY <2>2, GotoReaders DEF Goto
  <2> QED BY <1>5, <2>1, <2>2 DEF Look
<1>6. ASSUME NEW r \in Readers, TimeOut(r) PROVE ReaderInv'
  BY <1>6, ReturnReaders DEF TimeOut
<1>7. CASE UNCHANGED kbdVars
  BY <1>7, Zenon DEF kbdVars, readerVars, ReaderInv, Places, Flags
<1> QED BY <1>1, <1>2, <1>3, <1>4, <1>5, <1>6, <1>7 DEF Next, Step

-----------------------------------------------------------------------------
\* Every step of the keyboard is a step of the buffer.
LEMMA NextIsRingStep ==
    ASSUME ReaderInv, RingTypeOK, [Next]_kbdVars
    PROVE  RingStep
<1>0. size \in Nat
  BY RingAssumption DEF RingTypeOK
<1>1. ASSUME NEW scan \in Scans, SaveKey(scan) PROVE RingStep
  BY <1>1, SaveKeyPushes DEF ReaderInv, Flags
<1>2. ASSUME NEW r \in Readers, ReadCall(r) PROVE RingStep
  <2>1. Room(Count[r], 0) \in Int
    BY CountType DEF Room
  <2> QED BY <1>0, <1>2, <2>1, ReadBufPops DEF ReadCall, RingStep
<1>3. ASSUME NEW r \in Readers, Read(r) PROVE RingStep
  <2>1. Room(Count[r], pos[r]) \in Int
    BY CountType DEF Room, ReaderInv, Places
  <2> QED BY <1>0, <1>3, <2>1, ReadBufPops DEF Read
<1>4. ASSUME NEW r \in Readers, Poll(r) \/ Look(r) \/ TimeOut(r)
      PROVE  RingStep
  BY <1>4 DEF Poll, Look, TimeOut, Return, Goto, RingStep
<1>5. CASE UNCHANGED kbdVars
  BY <1>5 DEF kbdVars, RingStep
<1> QED BY <1>1, <1>2, <1>3, <1>4, <1>5 DEF Next, Step

LEMMA RingStart == RingInit => RingInv
BY RingAssumption DEF RingInit, RingInv, RingTypeOK, RingIsAligned, Wrap, Nul

LEMMA RingKept ==
    ASSUME RingInv, RingStep
    PROVE  RingInv'
<1> USE RingAssumption DEF RingInv, RingTypeOK, RingIsAligned, Wrap
<1>1. ASSUME NEW c \in Keys, Push(c) PROVE RingInv'
  BY <1>1 DEF Push, ring
<1>2. ASSUME NEW m \in 0..size, PopMany(m) PROVE RingInv'
  BY <1>2 DEF PopMany
<1>3. CASE UNCHANGED ring
  BY <1>3 DEF ring
<1> QED BY <1>1, <1>2, <1>3 DEF RingStep

\* A push appends to the queue, or the queue is full and stays as it is.
LEMMA PushPuts ==
    ASSUME RingInv, NEW c \in Keys, Push(c), size < BufSize
    PROVE  Contents' = [k \in 1..(size + 1) |->
                          IF k = size + 1 THEN c ELSE KeyAt(k)]
<1> USE RingAssumption DEF RingInv, RingTypeOK, RingIsAligned, Wrap
<1>1. size' = size + 1 /\ read' = read /\ keys' = [keys EXCEPT ![write] = c]
  BY DEF Push
<1>2. ASSUME NEW k \in 1..(size + 1)
      PROVE  KeyAt(k)' = IF k = size + 1 THEN c ELSE KeyAt(k)
  BY <1>1, <1>2 DEF KeyAt
<1> QED BY <1>1, <1>2 DEF Contents

\* Pops take the queue's first keys.
LEMMA PopsTake ==
    ASSUME RingInv, NEW m \in 0..size, PopMany(m)
    PROVE  Contents' = [k \in 1..(size - m) |-> KeyAt(k + m)]
<1> USE RingAssumption DEF RingInv, RingTypeOK, RingIsAligned, Wrap
<1>1. size' = size - m /\ read' = Wrap(read + m) /\ keys' = keys
  BY DEF PopMany
<1>2. ASSUME NEW k \in 1..(size - m) PROVE KeyAt(k)' = KeyAt(k + m)
  BY <1>1, <1>2 DEF KeyAt
<1> QED BY <1>1, <1>2 DEF Contents

\* Each step of the buffer is a step of the queue, or leaves it alone.
LEMMA RingStepImplements ==
    ASSUME RingInv, RingStep
    PROVE  [Queue!Next]_Contents
<1> USE RingAssumption
<1>0. size \in Nat /\ size <= BufSize /\ Len(Contents) = size
      /\ \A k \in 1..size : Contents[k] = KeyAt(k)
  <2>1. size \in Nat /\ size <= BufSize
    BY DEF RingInv, RingTypeOK
  <2>2. ASSUME NEW k \in 1..size PROVE Contents[k] = KeyAt(k)
    BY DEF Contents
  <2>3. ASSUME NEW k \in 1..size PROVE KeyAt(k) \in Keys
    BY <2>1 DEF KeyAt, Wrap, RingInv, RingTypeOK
  <2>4. Contents \in Seq(Keys) /\ Len(Contents) = size
    BY <2>1, <2>3 DEF Contents
  <2> QED BY <2>1, <2>2, <2>4
<1>1. ASSUME NEW c \in Keys, Push(c) PROVE [Queue!Next]_Contents
  <2>1. CASE size < BufSize
    <3>1. Contents' = [k \in 1..(Len(Contents) + 1) |->
                         IF k = Len(Contents) + 1 THEN c ELSE Contents[k]]
      BY <1>0, <1>1, <2>1, PushPuts
    <3>2. Queue!Put(c)
      BY <1>0, <2>1, <3>1 DEF Queue!Put, Contents
    <3> QED BY <3>2 DEF Queue!Next
  <2>2. CASE ~(size < BufSize)
    BY <1>1, <2>2 DEF Push, ring, Contents, KeyAt
  <2> QED BY <2>1, <2>2
<1>2. ASSUME NEW m \in 0..size, PopMany(m) PROVE [Queue!Next]_Contents
  <2>1. Contents' = [k \in 1..(size - m) |-> KeyAt(k + m)]
    BY <1>2, PopsTake
  <2>2. CASE m = 0
    BY <1>0, <2>1, <2>2 DEF Contents
  <2>3. CASE m \in 1..BufSize
    <3>1. Contents' = [k \in 1..(Len(Contents) - m) |-> Contents[k + m]]
      BY <1>0, <2>1
    <3>2. Queue!Take(m)
      BY <1>0, <1>2, <3>1 DEF Queue!Take, Contents
    <3> QED BY <2>3, <3>2 DEF Queue!Next
  <2> QED BY <1>0, <2>2, <2>3
<1>3. CASE UNCHANGED ring
  BY <1>3 DEF ring, Contents, KeyAt
<1> QED BY <1>1, <1>2, <1>3 DEF RingStep

-----------------------------------------------------------------------------
KbdInv == RingInv /\ ReaderInv

LEMMA KbdInvStart == Init => KbdInv
BY RingStart, ReadersInit DEF Init, KbdInv

LEMMA KbdInvKept == KbdInv /\ [Next]_kbdVars => KbdInv'
BY NextIsRingStep, RingKept, ReadersStep DEF KbdInv, RingInv

\* Push by the interrupt and pop by the readers keep read, write and size in
\* agreement, for every BUF_SIZE, any number of readers and any counts.
THEOREM RingStaysAligned == Spec => []RingIsAligned
<1>1. KbdInv => RingIsAligned
  BY DEF KbdInv, RingInv
<1> QED BY <1>1, KbdInvStart, KbdInvKept, PTL DEF Spec

\* Every variable keeps its type; no reader writes past the end of the buffer
\* its caller gave it.
THEOREM KeyboardTypes == Spec => []KbdTypeOK
<1>1. KbdInv => KbdTypeOK
  <2> SUFFICES ASSUME KbdInv PROVE KbdTypeOK OBVIOUS
  <2>1. /\ pc \in [Readers -> {"user", "poll", "read", "look"}]
        /\ DOMAIN pos = Readers
        /\ \A r \in Readers : pos[r] \in 0..(Count[r] - 1)
    BY CountType DEF KbdInv, ReaderInv, Places
  <2> QED BY <2>1, Zenon DEF KbdInv, RingInv, ReaderInv, Flags, KbdTypeOK
<1> QED BY <1>1, KbdInvStart, KbdInvKept, PTL DEF Spec

\* The buffer, filled by the interrupt and emptied by any number of readers,
\* implements a queue: no key is overwritten, repeated or reordered.
THEOREM KeyboardIsAQueue == Spec => ImplementsKeyQueue
<1>1. Init => Queue!Init
  BY DEF Init, RingInit, Queue!Init
<1>2. KbdInv /\ [Next]_kbdVars => [Queue!Next]_Contents
  BY NextIsRingStep, RingStepImplements DEF KbdInv, RingInv
<1> QED BY <1>1, <1>2, KbdInvStart, KbdInvKept, PTL
        DEF Spec, ImplementsKeyQueue, Queue!Spec, Contents
=============================================================================
