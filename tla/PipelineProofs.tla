--------------------------- MODULE PipelineProofs ---------------------------
(***************************************************************************)
(* What Pipeline guarantees for every size of the ring and every set of    *)
(* processes.                                                              *)
(***************************************************************************)
EXTENDS Pipeline, FiniteSets, FiniteSetTheorems, SequenceTheorems, TLAPS

PipeRec == [created : BOOLEAN, data : [Ring -> Int], nread : Nat,
            nwrite : Nat, rProcesses : SUBSET Jobs]

\* The bytes between the two counters are the ones written and not yet read,
\* each at its place of the ring.
InOrder(q) ==
    /\ q.nread <= q.nwrite /\ q.nwrite - q.nread < PIPE_SIZE
    /\ \A k \in q.nread..(q.nwrite - 1) : q.data[k % PIPE_SIZE] = k + 1

-----------------------------------------------------------------------------
\* Where a number falls in the ring.
LEMMA RingIndex ==
    ASSUME NEW x \in Int
    PROVE  /\ x % PIPE_SIZE \in Ring
           /\ \E d \in Int : x = PIPE_SIZE * d + (x % PIPE_SIZE)
<1>1. x % PIPE_SIZE \in 0..(PIPE_SIZE - 1)
  BY PipeAssumption, SMT
<1>2. x \div PIPE_SIZE \in Int
  BY PipeAssumption, SMT
<1>3. x % PIPE_SIZE \in Int
  BY <1>1, PipeAssumption
<1>4. PICK d \in Int, m \in Int : d = x \div PIPE_SIZE /\ m = x % PIPE_SIZE
  BY <1>2, <1>3
<1>5. x = PIPE_SIZE * d + m
  BY <1>4, PipeAssumption, SMT
<1>6. QED
  BY <1>1, <1>4, <1>5 DEF Ring

\* The place of a number is known by its distance to a multiple of the size.
LEMMA RingPlace ==
    ASSUME NEW q \in Int, NEW r \in Ring
    PROVE  (PIPE_SIZE * q + r) % PIPE_SIZE = r
  BY PipeAssumption, SMT DEF Ring

\* How far ahead of a, around the ring, the place of b is.
LEMMA RingDistance ==
    ASSUME NEW a \in Nat, NEW b \in Nat
    PROVE  /\ b >= a /\ b - a < PIPE_SIZE =>
                ((b % PIPE_SIZE) - a) % PIPE_SIZE = b - a
           /\ b < a /\ a - b <= PIPE_SIZE =>
                ((b % PIPE_SIZE) - a) % PIPE_SIZE = PIPE_SIZE + b - a
<1> DEFINE m == b % PIPE_SIZE
<1>0. m \in Int
  BY RingIndex, PipeAssumption DEF Ring
<1>1. PICK d \in Int : b = PIPE_SIZE * d + m
  BY RingIndex
<1> HIDE DEF m
<1>2. ASSUME b >= a, b - a < PIPE_SIZE PROVE (m - a) % PIPE_SIZE = b - a
  <2>1. b - a \in Ring
    BY <1>2, PipeAssumption DEF Ring
  <2>2. -d \in Int /\ m - a = PIPE_SIZE * (-d) + (b - a)
    BY <1>0, <1>1, PipeAssumption, SMT
  <2>3. QED
    BY <2>1, <2>2, RingPlace
<1>3. ASSUME b < a, a - b <= PIPE_SIZE
      PROVE  (m - a) % PIPE_SIZE = PIPE_SIZE + b - a
  <2>1. PIPE_SIZE + b - a \in Ring
    BY <1>3, PipeAssumption DEF Ring
  <2>2. -d - 1 \in Int /\ m - a = PIPE_SIZE * (-d - 1) + (PIPE_SIZE + b - a)
    BY <1>0, <1>1, PipeAssumption, SMT
  <2>3. QED
    BY <2>1, <2>2, RingPlace
<1>4. QED
  BY <1>2, <1>3 DEF m

-----------------------------------------------------------------------------
\* The fields of a pipe after pipe_write.
LEMMA WriteFields ==
    ASSUME NEW q \in PipeRec, q.created, NEW n \in Nat
    PROVE  LET w == Written(q, n)
               Ahead(i) == (i - q.nwrite) % PIPE_SIZE
           IN  /\ w \in Nat /\ (q.nread <= q.nwrite => w = n)
               /\ PipeWrite(q, n) =
                    [created |-> TRUE,
                     data |-> [i \in Ring |->
                                 CASE Ahead(i) < w -> q.nwrite + Ahead(i) + 1
                                   [] Ahead(i) = w -> Mark
                                   [] OTHER -> q.data[i]],
                     nread |-> q.nread, nwrite |-> q.nwrite + w,
                     rProcesses |-> q.rProcesses]
<1>1. Written(q, n) \in Nat /\ (q.nread <= q.nwrite => Written(q, n) = n)
  BY DEF Written, PipeRec
<1>2. QED
  BY <1>1 DEF PipeWrite, PipeRec

\* A pipe stays a pipe, and its readers stay listed, when it is written.
LEMMA WriteType ==
    ASSUME NEW q \in PipeRec, NEW n \in Nat
    PROVE  LET t == PipeWrite(q, n)
           IN  /\ t \in PipeRec /\ t.created = q.created
               /\ t.nread = q.nread /\ t.rProcesses = q.rProcesses
               /\ ~q.created => t = q
<1>1. CASE ~q.created
  BY <1>1 DEF PipeWrite
<1>2. CASE q.created
  <2>1. \A i \in Ring : (i - q.nwrite) % PIPE_SIZE \in Int
    <3>1. \A i \in Ring : i - q.nwrite \in Int
      BY PipeAssumption DEF Ring, PipeRec
    <3>2. \A x \in Int : x % PIPE_SIZE \in Int
      BY RingIndex, PipeAssumption DEF Ring
    <3>3. QED
      BY <3>1, <3>2
  <2>2. q.data \in [Ring -> Int] /\ q.nwrite \in Nat /\ q.nread \in Nat
    BY DEF PipeRec
  <2> DEFINE w == Written(q, n)
             Ahead(i) == (i - q.nwrite) % PIPE_SIZE
             data == [i \in Ring |->
                        CASE Ahead(i) < w -> q.nwrite + Ahead(i) + 1
                          [] Ahead(i) = w -> Mark
                          [] OTHER -> q.data[i]]
  <2>3. w \in Nat
    BY <1>2, WriteFields
  <2>4. data \in [Ring -> Int]
    <3> SUFFICES ASSUME NEW i \in Ring PROVE data[i] \in Int
      OBVIOUS
    <3>1. Ahead(i) \in Int /\ q.data[i] \in Int
      BY <2>1, <2>2
    <3> HIDE DEF w, Ahead
    <3>2. QED
      BY <2>2, <2>3, <3>1 DEF Mark
  <2>5. PipeWrite(q, n) = [created |-> TRUE, data |-> data, nread |-> q.nread,
                           nwrite |-> q.nwrite + w, rProcesses |-> q.rProcesses]
    BY <1>2, WriteFields
  <2> HIDE DEF data, w
  <2>6. QED
    BY <1>2, <2>2, <2>3, <2>4, <2>5 DEF PipeRec
<1>3. QED
  BY <1>1, <1>2 DEF PipeRec

\* Writing keeps the bytes in order as long as the ring is not overrun: the
\* new ones follow, and neither they nor the mark fall on an unread one.
LEMMA WriteInOrder ==
    ASSUME NEW q \in PipeRec, InOrder(q), NEW n \in Nat,
           ~Overrun(PipeWrite(q, n))
    PROVE  InOrder(PipeWrite(q, n))
<1>1. CASE ~q.created
  BY <1>1 DEF PipeWrite
<1>2. CASE q.created
  <2> DEFINE t == PipeWrite(q, n)
             Ahead(i) == (i - q.nwrite) % PIPE_SIZE
  <2>1. /\ q.nread \in Nat /\ q.nwrite \in Nat /\ q.data \in [Ring -> Int]
        /\ q.nread <= q.nwrite /\ q.nwrite - q.nread < PIPE_SIZE
    BY DEF PipeRec, InOrder
  <2>2. /\ t.nread = q.nread /\ t.nwrite = q.nwrite + n
        /\ t.data = [i \in Ring |->
                        CASE Ahead(i) < n -> q.nwrite + Ahead(i) + 1
                          [] Ahead(i) = n -> Mark
                          [] OTHER -> q.data[i]]
    <3>1. Written(q, n) = n
      BY <1>2, WriteFields DEF InOrder
    <3>2. QED
      BY <1>2, <3>1, WriteFields
  <2>3. t.nwrite - t.nread < PIPE_SIZE
    BY <2>1, <2>2, PipeAssumption DEF Overrun
  <2>4. ASSUME NEW k \in t.nread..(t.nwrite - 1)
        PROVE  t.data[k % PIPE_SIZE] = k + 1
    <3>0. t.nread = q.nread /\ t.nwrite = q.nwrite + n
      BY <2>2
    <3>1. /\ k \in Nat /\ q.nread <= k /\ k < q.nwrite + n
          /\ k % PIPE_SIZE \in Ring
      <4> HIDE DEF t
      <4>1. k \in Nat /\ q.nread <= k /\ k < q.nwrite + n
        BY <2>1, <3>0
      <4>2. QED
        BY <4>1, RingIndex
    <3> DEFINE j == k % PIPE_SIZE
    <3>2. CASE k >= q.nwrite
      <4>0. k - q.nwrite < PIPE_SIZE
        BY <2>1, <2>2, <2>3, <3>1, PipeAssumption
      <4>1. Ahead(j) = k - q.nwrite
        BY <2>1, <3>1, <3>2, <4>0, RingDistance
      <4>2. Ahead(j) < n
        BY <2>1, <3>1, <4>1
      <4>3. t.data[j] = q.nwrite + Ahead(j) + 1
        BY <2>2, <3>1, <4>2
      <4>4. QED
        BY <2>1, <3>1, <4>1, <4>3
    <3>3. CASE k < q.nwrite
      <4>0. q.nwrite - k <= PIPE_SIZE
        BY <2>1, <3>1, PipeAssumption
      <4>1. Ahead(j) = PIPE_SIZE + k - q.nwrite
        BY <2>1, <3>1, <3>3, <4>0, RingDistance
      <4>2. Ahead(j) \in Int /\ ~(Ahead(j) < n) /\ Ahead(j) # n
        BY <2>1, <2>2, <2>3, <3>1, <4>1, PipeAssumption
      <4>3. t.data[j] = q.data[j]
        BY <2>2, <3>1, <4>2
      <4>4. QED
        BY <2>1, <3>1, <3>3, <4>3 DEF InOrder
    <3>4. QED
      BY <2>1, <3>1, <3>2, <3>3
  <2> HIDE DEF t
  <2>5. t.nread <= t.nwrite
    BY <2>1, <2>2
  <2>6. InOrder(t)
    BY <2>3, <2>4, <2>5 DEF InOrder
  <2>7. QED
    BY <2>6 DEF t
<1>3. QED
  BY <1>1, <1>2 DEF PipeRec

\* The bytes 1..n followed by the next m are the bytes 1..(n + m).
LEMMA Joined ==
    ASSUME NEW n \in Nat, NEW m \in Nat
    PROVE  [i \in 1..n |-> i] \o [i \in 1..m |-> n + i] =
              [i \in 1..(n + m) |-> i]
<1> DEFINE s == [i \in 1..n |-> i]
           t == [i \in 1..m |-> n + i]
           u == [i \in 1..(n + m) |-> i]
<1>1. s \in Seq(Nat) /\ Len(s) = n /\ \A i \in 1..n : s[i] = i
  OBVIOUS
<1>2. t \in Seq(Nat) /\ Len(t) = m /\ \A i \in 1..m : t[i] = n + i
  OBVIOUS
<1>3. u \in Seq(Nat) /\ Len(u) = n + m /\ \A i \in 1..(n + m) : u[i] = i
  OBVIOUS
<1> HIDE DEF s, t, u
<1>4. /\ s \o t \in Seq(Nat) /\ Len(s \o t) = n + m
      /\ \A i \in 1..(n + m) : (s \o t)[i] = IF i <= n THEN s[i] ELSE t[i - n]
  BY <1>1, <1>2, ConcatProperties
<1>5. \A i \in 1..(n + m) : (s \o t)[i] = u[i]
  <2> SUFFICES ASSUME NEW i \in 1..(n + m) PROVE (s \o t)[i] = i
    BY <1>3
  <2>1. CASE i <= n
    BY <1>1, <1>4, <2>1
  <2>2. CASE i > n
    BY <1>2, <1>4, <2>2
  <2>3. i <= n \/ i > n
    OBVIOUS
  <2>4. QED
    BY <2>1, <2>2, <2>3, Zenon
<1>6. s \o t = u
  BY <1>3, <1>4, <1>5, SeqEqual
<1>7. QED
  BY <1>6 DEF s, t, u

\* How many bytes pipe_read stores.
TakenLen(q) == Looped(q) + (IF q.nread + Looped(q) + 1 = q.nwrite THEN 1 ELSE 0)

\* What pipe_read stores, and the fields of the pipe after it.
LEMMA ReadFields ==
    ASSUME NEW q \in PipeRec
    PROVE  LET len == TakenLen(q)
               t == AfterRead(q)
           IN  /\ len \in Nat /\ Looped(q) \in 0..2
               /\ Taken(q) = [i \in 1..len |-> Byte(q, i - 1)]
               /\ Len(Taken(q)) = len
               /\ t \in PipeRec /\ t.nread = q.nread + len
               /\ t.created = q.created /\ t.nwrite = q.nwrite
               /\ t.rProcesses = q.rProcesses
               /\ t.data = [q.data EXCEPT ![(q.nread + len) % PIPE_SIZE] =
                              IF @ = Mark THEN 0 ELSE @]
<1> DEFINE len == TakenLen(q)
           t == AfterRead(q)
           at == (q.nread + len) % PIPE_SIZE
<1>1. Looped(q) \in 0..2
  BY DEF Looped
<1>2. len \in Nat
  BY <1>1 DEF TakenLen
<1>3. Taken(q) = [i \in 1..len |-> Byte(q, i - 1)]
  BY DEF Taken, TakenLen
<1> HIDE DEF len
<1>4. Len(Taken(q)) = len
  BY <1>2, <1>3
<1>5. q.nread \in Nat /\ q.data \in [Ring -> Int]
  BY DEF PipeRec
<1>6. at \in Ring
  BY <1>2, <1>5, RingIndex
<1>7. t = [q EXCEPT !.nread = q.nread + len,
                    !.data[at] = IF @ = Mark THEN 0 ELSE @]
  BY <1>4 DEF AfterRead
<1> HIDE DEF at, t
<1>8. /\ t.nread = q.nread + len /\ t.created = q.created
      /\ t.nwrite = q.nwrite /\ t.rProcesses = q.rProcesses
      /\ t.data = [q.data EXCEPT ![at] = IF @ = Mark THEN 0 ELSE @]
      /\ t = [created |-> q.created, data |-> t.data, nread |-> t.nread,
              nwrite |-> q.nwrite, rProcesses |-> q.rProcesses]
  BY <1>7 DEF PipeRec
<1>9. t.data \in [Ring -> Int] /\ t.nread \in Nat
  BY <1>2, <1>5, <1>6, <1>8
<1>10. t \in PipeRec
  BY <1>8, <1>9 DEF PipeRec
<1>11. QED
  BY <1>1, <1>2, <1>3, <1>4, <1>8, <1>10 DEF len, t, at

\* A read that does not run past the end hands out the next bytes of the
\* stream and leaves the others in order.
LEMMA ReadInOrder ==
    ASSUME NEW q \in PipeRec, InOrder(q), ~Overrun(AfterRead(q))
    PROVE  /\ InOrder(AfterRead(q))
           /\ Taken(q) = [i \in 1..TakenLen(q) |-> q.nread + i]
<1> DEFINE len == TakenLen(q)
           t == AfterRead(q)
<1>1. /\ q.nread \in Nat /\ q.nwrite \in Nat /\ q.data \in [Ring -> Int]
      /\ q.nread <= q.nwrite /\ q.nwrite - q.nread < PIPE_SIZE
  BY DEF PipeRec, InOrder
<1>2. /\ len \in Nat /\ Taken(q) = [i \in 1..len |-> Byte(q, i - 1)]
      /\ t.nread = q.nread + len /\ t.nwrite = q.nwrite
      /\ t.data = [q.data EXCEPT ![(q.nread + len) % PIPE_SIZE] =
                     IF @ = Mark THEN 0 ELSE @]
  BY ReadFields
<1> HIDE DEF len, t
<1>3. q.nread + len <= q.nwrite
  BY <1>1, <1>2 DEF Overrun, t
<1>4. ASSUME NEW i \in 0..(len - 1) PROVE Byte(q, i) = q.nread + i + 1
  <2>1. q.nread + i \in q.nread..(q.nwrite - 1)
    BY <1>1, <1>2, <1>3
  <2>2. QED
    BY <2>1 DEF Byte, InOrder
<1>5. Taken(q) = [i \in 1..len |-> q.nread + i]
  <2>1. \A i \in 1..len : Byte(q, i - 1) = q.nread + i
    <3> SUFFICES ASSUME NEW i \in 1..len PROVE Byte(q, i - 1) = q.nread + i
      OBVIOUS
    <3>0. len \in Nat /\ q.nread \in Nat
      BY <1>1, <1>2
    <3>1. i - 1 \in 0..(len - 1) /\ q.nread + (i - 1) + 1 = q.nread + i
      BY <3>0
    <3>2. QED
      BY <1>4, <3>1
  <2>2. QED
    BY <1>2, <2>1
<1>6. t.nread <= t.nwrite /\ t.nwrite - t.nread < PIPE_SIZE
  BY <1>1, <1>2, <1>3, PipeAssumption
<1>7. ASSUME NEW k \in t.nread..(t.nwrite - 1)
      PROVE  t.data[k % PIPE_SIZE] = k + 1
  <2>1. k \in Nat /\ k \in q.nread..(q.nwrite - 1) /\ k % PIPE_SIZE \in Ring
    <3>1. k \in Nat /\ k \in q.nread..(q.nwrite - 1)
      BY <1>1, <1>2
    <3>2. QED
      BY <3>1, RingIndex
  <2>2. q.data[k % PIPE_SIZE] = k + 1
    BY <2>1 DEF InOrder
  <2>3. k + 1 # Mark
    BY <2>1 DEF Mark
  <2>4. QED
    BY <1>1, <1>2, <2>1, <2>2, <2>3
<1>8. QED
  BY <1>5, <1>6, <1>7 DEF InOrder, len, t

-----------------------------------------------------------------------------
IsJob(j) ==
    /\ j = [does |-> j.does, fd |-> j.fd, c |-> j.c]
    /\ j.does \in {"none", "write", "read", "blocked", "resumed"}
    /\ j.fd \in Slots

IsShell(sh) ==
    /\ sh = [at |-> sh.at, fd |-> sh.fd, left |-> sh.left, right |-> sh.right,
             children |-> sh.children]
    /\ sh.fd \in Slots /\ sh.children \in Nat

Types ==
    /\ pipe \in [Slots -> PipeRec] /\ DOMAIN name = Slots
    /\ DOMAIN job = Jobs /\ \A p \in Jobs : IsJob(job[p])
    /\ IsShell(shell) /\ spoiled \in BOOLEAN

(***************************************************************************)
(* The shell counts at least the processes that live (it never forgets one *)
(* it killed), so the last of them to end is the one in front if that one  *)
(* is alive: the shell is not woken while its command still reads.         *)
(***************************************************************************)
Live == {p \in Jobs : job[p].does # "none"}
Counted == IsFiniteSet(Live) /\ Cardinality(Live) <= shell.children

\* A slot is free, or has the one pipe of its name.
Named ==
    /\ \A s \in Slots : IF name[s] = NoName THEN pipe[s] = Closed
                        ELSE pipe[s].created
    /\ \A s, t \in Slots : name[s] = "pipes" /\ name[t] = "pipes" => s = t
    /\ shell.at \in {"left", "right", "wait", "asleep", "close"}
          => name[shell.fd] = "pipes"

(***************************************************************************)
(* Only the command the shell waits for reads "pipes", and nobody else is  *)
(* listed there: the list is emptied by pipe_close before the shell starts *)
(* another one.                                                            *)
(***************************************************************************)
InFront(p) ==
    /\ job[p].does = "read" /\ job[p].fd = shell.fd
    /\ shell.at \in {"wait", "asleep"} /\ shell.right = p

Listing == IF shell.at \in {"wait", "asleep", "close"} THEN {shell.right} ELSE {}

OneReader ==
    /\ \A p \in Jobs : job[p].does \in {"read", "blocked", "resumed"} =>
          name[job[p].fd] = "&" \/ InFront(p)
    /\ \A s \in Slots : name[s] = "pipes" => pipe[s].rProcesses \subseteq Listing

\* What is in the ring, while it was neither overrun nor read past its end.
Stream ==
    ~spoiled =>
        /\ \A s \in Slots : name[s] = "pipes" => InOrder(pipe[s])
        /\ (\A s \in Slots : name[s] # "pipes") => handed = <<>>

PipelineInv ==
    Types /\ Counted /\ Named /\ OneReader /\ Stream /\ HandedInOrder

\* A closed pipe is empty.
LEMMA ClosedIsEmpty ==
    /\ Closed \in PipeRec /\ InOrder(Closed)
    /\ ~Closed.created /\ Closed.rProcesses = {}
    /\ Closed.nread = 0 /\ Closed.nwrite = 0
<1>1. [i \in Ring |-> 0] \in [Ring -> Int]
  OBVIOUS
<1>2. Closed \in PipeRec
  BY <1>1 DEF Closed, PipeRec
<1>3. InOrder(Closed)
  BY PipeAssumption DEF Closed, InOrder
<1>4. QED
  BY <1>2, <1>3 DEF Closed

\* Opening leaves the list of readers and an open pipe as they are.
LEMMA OpenedIsAPipe ==
    ASSUME NEW q \in PipeRec
    PROVE  LET t == Opened(q)
           IN  /\ t \in PipeRec /\ t.created /\ t.rProcesses = q.rProcesses
               /\ q.created => t = q
               /\ ~q.created => t.nread = 0 /\ t.nwrite = 0 /\ InOrder(t)
<1>1. CASE q.created
  BY <1>1 DEF Opened
<1>2. CASE ~q.created
  <2> DEFINE t == Opened(q)
  <2>1. t = [created |-> TRUE, data |-> [i \in Ring |-> 0], nread |-> 0,
             nwrite |-> 0, rProcesses |-> q.rProcesses]
    BY <1>2 DEF Opened, Closed
  <2>2. t \in PipeRec
    BY <2>1 DEF PipeRec
  <2>3. InOrder(t)
    BY <2>1, PipeAssumption DEF InOrder
  <2>4. QED
    BY <1>2, <2>1, <2>2, <2>3
<1>3. QED
  BY <1>1, <1>2 DEF PipeRec

\* No pipe, no process and nothing handed out.
LEMMA PipelineInit == Init => PipelineInv
<1> SUFFICES ASSUME Init PROVE PipelineInv
  OBVIOUS
<1>0. 0 \in Slots /\ \A s \in Slots : pipe[s] = Closed /\ name[s] = NoName
  BY DEF Init, Slots
<1>1. IsJob(NoJob) /\ NoJob.does = "none"
  BY DEF IsJob, NoJob, Job, Slots
<1>2. IsShell(shell) /\ shell.at = "prompt" /\ shell.children = 0
  BY <1>0 DEF Init, IsShell
<1>3. Types
  BY <1>1, <1>2, ClosedIsEmpty DEF Init, Types
<1>4. Counted
  <2>1. Live = {}
    BY <1>1 DEF Init, Live
  <2>2. QED
    BY <1>2, <2>1, FS_EmptySet DEF Counted
<1>5. Named
  BY <1>0, <1>2 DEF Named, NoName
<1>6. OneReader
  BY <1>0, <1>1 DEF Init, OneReader, NoName
<1>7. Stream /\ HandedInOrder
  BY <1>0 DEF Init, Stream, HandedInOrder, NoName
<1>8. QED
  BY <1>3, <1>4, <1>5, <1>6, <1>7 DEF PipelineInv

\* The records of processes that the shell and the kernel make.
LEMMA JobRecords ==
    /\ IsJob(NoJob) /\ NoJob.does = "none"
    /\ \A d \in {"write", "read"}, n \in Slots :
          IsJob(Job(d, n)) /\ Job(d, n).does = d /\ Job(d, n).fd = n
    /\ \A j : IsJob(j) =>
          /\ \A d \in {"blocked", "resumed"} :
                LET k == [j EXCEPT !.does = d]
                IN  IsJob(k) /\ k.does = d /\ k.fd = j.fd
<1>1. IsJob(NoJob) /\ NoJob.does = "none"
  BY DEF IsJob, NoJob, Job, Slots
<1>2. \A d \in {"write", "read"}, n \in Slots :
          IsJob(Job(d, n)) /\ Job(d, n).does = d /\ Job(d, n).fd = n
  BY DEF IsJob, Job
<1>3. ASSUME NEW j, IsJob(j), NEW d \in {"blocked", "resumed"}
      PROVE  LET k == [j EXCEPT !.does = d]
             IN  IsJob(k) /\ k.does = d /\ k.fd = j.fd
  BY <1>3 DEF IsJob
<1>4. QED
  BY <1>1, <1>2, <1>3

\* A process that goes on reading keeps its pipe.
LEMMA ReadsAgain ==
    ASSUME NEW j, IsJob(j), NEW c
    PROVE  LET k == Again(j, c)
           IN  IsJob(k) /\ k.does = "read" /\ k.fd = j.fd
<1> DEFINE h == [j EXCEPT !.does = "read"]
           k == Again(j, c)
<1>1. k = [h EXCEPT !.c = c]
  BY DEF IsJob, Again
<1>2. h = [does |-> "read", fd |-> j.fd, c |-> j.c]
  BY DEF IsJob
<1> HIDE DEF h, k
<1>3. k = [does |-> "read", fd |-> j.fd, c |-> c]
  BY <1>1, <1>2
<1>4. QED
  BY <1>3 DEF IsJob, k

\* A step that leaves "pipes" and what was handed out of it alone.
LEMMA StreamIsKept ==
    ASSUME Stream, HandedInOrder, UNCHANGED <<name, handed, spoiled>>,
           \A s \in Slots : name[s] = "pipes" => pipe'[s] = pipe[s]
    PROVE  Stream' /\ HandedInOrder'
  BY DEF Stream, HandedInOrder

-----------------------------------------------------------------------------
\* A process more: the shell counts it.
LEMMA OneMore ==
    ASSUME Types, Counted, NEW p \in Jobs, NEW j, j.does # "none",
           job' = [job EXCEPT ![p] = j], shell'.children = shell.children + 1
    PROVE  Counted'
<1>1. Live' = Live \cup {p}
  BY DEF Types, Live
<1>2. /\ IsFiniteSet(Live \cup {p})
      /\ Cardinality(Live \cup {p}) <= Cardinality(Live) + 1
      /\ Cardinality(Live) \in Nat
  <2>1. IsFiniteSet(Live)
    BY DEF Counted
  <2>2. Cardinality(Live) \in Nat
    BY <2>1, FS_CardinalityType
  <2>3. /\ IsFiniteSet(Live \cup {p})
        /\ \/ Cardinality(Live \cup {p}) = Cardinality(Live)
           \/ Cardinality(Live \cup {p}) = Cardinality(Live) + 1
    BY <2>1, FS_AddElement
  <2>4. QED
    BY <2>2, <2>3
<1>3. shell.children \in Nat /\ Cardinality(Live) <= shell.children
  BY DEF Counted, Types, IsShell
<1>4. Cardinality(Live') <= shell'.children /\ IsFiniteSet(Live')
  <2>1. Cardinality(Live') <= Cardinality(Live) + 1 /\ IsFiniteSet(Live')
    BY <1>1, <1>2
  <2>2. Cardinality(Live') \in Nat
    BY <2>1, FS_CardinalityType
  <2>3. QED
    BY <1>2, <1>3, <2>1, <2>2
<1>5. QED
  BY <1>4 DEF Counted

\* No process more or less, or one that the shell does not forget.
LEMMA NoneMore ==
    ASSUME Types, Counted, Live' \subseteq Live,
           shell'.children = shell.children
    PROVE  Counted'
<1>1. IsFiniteSet(Live)
  BY DEF Counted
<1>2. /\ IsFiniteSet(Live') /\ Cardinality(Live') <= Cardinality(Live)
      /\ Cardinality(Live) \in Nat /\ Cardinality(Live') \in Nat
  BY <1>1, FS_Subset, FS_CardinalityType
<1>3. QED
  BY <1>2 DEF Counted, Types, IsShell

\* What the end of a process does to the shell.
LEMMA BereftShell ==
    ASSUME Types, NEW p, shell.children > 0, shell' = Bereft(p)
    PROVE  /\ IsShell(shell') /\ shell'.children = shell.children - 1
           /\ shell'.fd = shell.fd /\ shell'.right = shell.right
           /\ \/ shell'.at = shell.at
              \/ /\ shell.at = "asleep" /\ shell'.at = "close"
                 /\ p = shell.right \/ shell.children = 1
<1> DEFINE at == IF shell.at = "asleep" /\ (p = shell.right \/ shell.children = 1)
                 THEN "close" ELSE shell.at
<1>1. shell' = [at |-> at, fd |-> shell.fd, left |-> shell.left,
                right |-> shell.right, children |-> shell.children - 1]
  BY DEF Types, IsShell, Bereft
<1>2. shell.children - 1 \in Nat
  BY DEF Types, IsShell
<1>3. at = shell.at \/ ( /\ shell.at = "asleep" /\ at = "close"
                         /\ p = shell.right \/ shell.children = 1)
  OBVIOUS
<1> HIDE DEF at
<1>4. QED
  BY <1>1, <1>2, <1>3 DEF Types, IsShell

\* The end of a process is counted, and wakes a shell that waits only if no
\* other process is the one it waits for.
LEMMA OneLess ==
    ASSUME Types, Counted, NEW p \in Jobs, job[p].does # "none",
           job' = [job EXCEPT ![p] = NoJob], shell' = Bereft(p)
    PROVE  /\ Counted' /\ IsShell(shell')
           /\ shell'.fd = shell.fd /\ shell'.right = shell.right
           /\ \/ shell'.at = shell.at
              \/ /\ shell.at = "asleep" /\ shell'.at = "close"
                 /\ \A q \in Jobs \ {p} : shell.right = q => job[q].does = "none"
<1>1. Live' = Live \ {p}
  BY JobRecords DEF Types, Live
<1>2. /\ IsFiniteSet(Live \ {p}) /\ Cardinality(Live \ {p}) \in Nat
      /\ Cardinality(Live \ {p}) = Cardinality(Live) - 1
      /\ Cardinality(Live) \in Nat
  <2>1. IsFiniteSet(Live) /\ p \in Live
    BY DEF Counted, Live
  <2>2. IsFiniteSet(Live \ {p}) /\ Cardinality(Live \ {p}) = Cardinality(Live) - 1
    BY <2>1, FS_RemoveElement
  <2>3. QED
    BY <2>1, <2>2, FS_CardinalityType
<1>3. shell.children > 0 /\ shell.children \in Nat
  BY <1>2 DEF Counted, Types, IsShell
<1>4. /\ IsShell(shell') /\ shell'.children = shell.children - 1
      /\ shell'.fd = shell.fd /\ shell'.right = shell.right
      /\ \/ shell'.at = shell.at
         \/ /\ shell.at = "asleep" /\ shell'.at = "close"
            /\ p = shell.right \/ shell.children = 1
  BY <1>3, BereftShell
<1>5. Counted'
  BY <1>1, <1>2, <1>3, <1>4 DEF Counted
<1>6. ASSUME shell.children = 1, NEW q \in Jobs \ {p} PROVE job[q].does = "none"
  <2>1. Cardinality(Live \ {p}) = 0
    BY <1>2, <1>6 DEF Counted
  <2>2. Live \ {p} = {}
    BY <1>2, <2>1, FS_EmptySet
  <2>3. QED
    BY <1>6, <2>2 DEF Live
<1>7. QED
  BY <1>4, <1>5, <1>6

\* The end of a process leaves the readers as OneReader has them.
LEMMA EndKeepsReaders ==
    ASSUME Types, Counted, OneReader, NEW p \in Jobs, job[p].does # "none",
           job' = [job EXCEPT ![p] = NoJob], shell' = Bereft(p),
           name' = name,
           \A s \in Slots : name[s] = "pipes" =>
              \/ pipe'[s].rProcesses \subseteq pipe[s].rProcesses
              \/ pipe'[s].rProcesses \subseteq Listing
    PROVE  OneReader'
<1>1. /\ shell'.fd = shell.fd /\ shell'.right = shell.right
      /\ \/ shell'.at = shell.at
         \/ /\ shell.at = "asleep" /\ shell'.at = "close"
            /\ \A q \in Jobs \ {p} : shell.right = q => job[q].does = "none"
  BY OneLess
<1>2. Listing' = Listing
  BY <1>1 DEF Listing
<1>3. ASSUME NEW q \in Jobs, job'[q].does \in {"read", "blocked", "resumed"}
      PROVE  name'[job'[q].fd] = "&" \/ InFront(q)'
  <2>1. q # p /\ job'[q] = job[q]
    BY <1>3, JobRecords DEF Types
  <2>2. InFront(q) => InFront(q)'
    BY <1>1, <2>1 DEF InFront
  <2>3. QED
    BY <1>3, <2>1, <2>2 DEF OneReader
<1>4. QED
  BY <1>2, <1>3 DEF OneReader

\* A slot that was opened is the one of its name, as it was or new.
LEMMA OpenStep ==
    ASSUME Types, Named, NEW n \in Names, NEW s \in Slots, Open(n, s)
    PROVE  /\ pipe' \in [Slots -> PipeRec] /\ DOMAIN name' = Slots
           /\ name'[s] = n /\ pipe'[s].created
           /\ \A t \in Slots \ {s} : pipe'[t] = pipe[t] /\ name'[t] = name[t]
           /\ \/ name[s] = n /\ pipe'[s] = pipe[s]
              \/ /\ name[s] = NoName /\ \A t \in Slots : name[t] # n
                 /\ InOrder(pipe'[s]) /\ pipe'[s].nread = 0
                 /\ pipe'[s].rProcesses = {}
<1>0. n # NoName
  BY DEF Names, NoName
<1>1. /\ Opened(pipe[s]) \in PipeRec /\ Opened(pipe[s]).created
      /\ Opened(pipe[s]).rProcesses = pipe[s].rProcesses
      /\ pipe[s].created => Opened(pipe[s]) = pipe[s]
      /\ ~pipe[s].created => /\ Opened(pipe[s]).nread = 0
                             /\ InOrder(Opened(pipe[s]))
  BY OpenedIsAPipe DEF Types
<1>2. pipe' = [pipe EXCEPT ![s] = Opened(pipe[s])] /\ name' = [name EXCEPT ![s] = n]
  BY DEF Open
<1>3. /\ pipe' \in [Slots -> PipeRec] /\ DOMAIN name' = Slots
      /\ name'[s] = n /\ pipe'[s] = Opened(pipe[s])
      /\ \A t \in Slots \ {s} : pipe'[t] = pipe[t] /\ name'[t] = name[t]
  BY <1>1, <1>2 DEF Types
<1>4. CASE name[s] = n
  BY <1>0, <1>1, <1>3, <1>4 DEF Named
<1>5. CASE name[s] # n
  <2>1. ~pipe[s].created /\ \A t \in Slots : name[t] # n
    BY <1>5 DEF Open
  <2>2. name[s] = NoName /\ pipe[s] = Closed
    BY <2>1 DEF Named
  <2>3. QED
    BY <1>1, <1>3, <2>1, <2>2, ClosedIsEmpty
<1>6. QED
  BY <1>4, <1>5

-----------------------------------------------------------------------------
\* A step that leaves the pipes, their names and the stream alone.
LEMMA PipesAreKept ==
    ASSUME Named, Stream, HandedInOrder,
           UNCHANGED <<pipe, name, handed, spoiled>>,
           \/ shell'.at \notin {"left", "right", "wait", "asleep", "close"}
           \/ /\ shell.at \in {"left", "right", "wait", "asleep", "close"}
              /\ shell'.fd = shell.fd
    PROVE  Named' /\ Stream' /\ HandedInOrder'
  BY DEF Named, Stream, HandedInOrder

\* The shell goes on, or comes back from pipedBuffer.
LEMMA ShellGoes ==
    ASSUME Types, NEW pc
    PROVE  /\ Goto(pc) => /\ IsShell(shell') /\ shell'.at = pc
                          /\ shell'.fd = shell.fd /\ shell'.right = shell.right
                          /\ shell'.children = shell.children
           /\ Return(pc) => /\ IsShell(shell') /\ shell'.at = pc
                            /\ shell'.children = shell.children
  BY DEF Types, IsShell, Goto, Return, Slots

\* No reader of "pipes" is there unless the shell waits.
LEMMA NobodyReads ==
    ASSUME OneReader, shell.at \notin {"wait", "asleep"}
    PROVE  \A p \in Jobs : job[p].does \in {"read", "blocked", "resumed"} =>
              name[job[p].fd] = "&"
  BY DEF OneReader, InFront

\* The steps of the shell: OneReader is what they could break.
LEMMA ShellStep ==
    ASSUME PipelineInv, Prompt \/ Shell
    PROVE  PipelineInv'
<1> USE DEF PipelineInv
<1>0. "pipes" \in Names /\ "&" \in Names
  BY DEF Names
<1>1. ASSUME OpenPipe PROVE PipelineInv'
  <2>1. PICK s \in Slots : Open("pipes", s)
                           /\ shell' = [shell EXCEPT !.at = "left", !.fd = s]
    BY <1>1 DEF OpenPipe
  <2>2. /\ pipe' \in [Slots -> PipeRec] /\ DOMAIN name' = Slots
        /\ name'[s] = "pipes" /\ pipe'[s].created
        /\ \A t \in Slots \ {s} : pipe'[t] = pipe[t] /\ name'[t] = name[t]
        /\ \/ name[s] = "pipes" /\ pipe'[s] = pipe[s]
           \/ /\ name[s] = NoName /\ \A t \in Slots : name[t] # "pipes"
              /\ InOrder(pipe'[s]) /\ pipe'[s].nread = 0
              /\ pipe'[s].rProcesses = {}
    BY <1>0, <2>1, OpenStep
  <2>3. /\ shell.at = "prompt" /\ UNCHANGED <<job, handed, spoiled>>
        /\ IsShell(shell') /\ shell'.at = "left" /\ shell'.fd = s
        /\ shell'.children = shell.children
    BY <1>1, <2>1 DEF OpenPipe, At, Types, IsShell
  <2>4. Types'
    BY <2>2, <2>3 DEF Types
  <2>5. Counted'
    BY <2>3, NoneMore DEF Live
  <2>6. \A t \in Slots \ {s} : name'[t] # "pipes"
    BY <2>2 DEF Named
  <2>7. Named'
    BY <2>2, <2>3, <2>6 DEF Named, NoName
  <2>8. OneReader'
    <3>1. \A p \in Jobs : job'[p].does \in {"read", "blocked", "resumed"} =>
              name'[job'[p].fd] = "&"
      BY <2>2, <2>3, NobodyReads DEF Types, IsJob, NoName
    <3>2. pipe'[s].rProcesses = {}
      BY <2>2, <2>3 DEF OneReader, Listing
    <3>3. QED
      BY <2>6, <3>1, <3>2 DEF OneReader
  <2>9. Stream' /\ HandedInOrder'
    <3> SUFFICES ASSUME ~spoiled'
                 PROVE  /\ InOrder(pipe'[s])
                        /\ handed' = [i \in 1..pipe'[s].nread |-> i]
      BY <2>2, <2>6 DEF Stream, HandedInOrder
    <3>1. CASE name[s] = "pipes" /\ pipe'[s] = pipe[s]
      BY <2>3, <3>1 DEF Stream, HandedInOrder
    <3>2. CASE /\ \A t \in Slots : name[t] # "pipes"
               /\ InOrder(pipe'[s]) /\ pipe'[s].nread = 0
      BY <2>3, <3>2 DEF Stream
    <3>3. QED
      BY <2>2, <3>1, <3>2
  <2>10. QED
    BY <2>4, <2>5, <2>7, <2>8, <2>9
<1>2. ASSUME StartBehind PROVE PipelineInv'
  <2>1. PICK s \in Slots, p \in Jobs : Open("&", s) /\ Starts(p, "read", s)
    BY <1>2 DEF StartBehind
  <2>2. /\ pipe' \in [Slots -> PipeRec] /\ DOMAIN name' = Slots
        /\ name'[s] = "&" /\ pipe'[s].created
        /\ \A t \in Slots \ {s} : pipe'[t] = pipe[t] /\ name'[t] = name[t]
        /\ name[s] # "pipes"
    BY <1>0, <2>1, OpenStep DEF NoName
  <2>3. /\ job[p] = NoJob /\ job' = [job EXCEPT ![p] = Job("read", s)]
        /\ shell.at = "prompt" /\ UNCHANGED <<handed, spoiled>>
        /\ IsShell(shell') /\ shell'.at = "prompt"
        /\ shell'.children = shell.children + 1
    <3>1. /\ job[p] = NoJob /\ job' = [job EXCEPT ![p] = Job("read", s)]
          /\ shell.at = "prompt" /\ UNCHANGED <<handed, spoiled>>
      BY <1>2, <2>1 DEF StartBehind, Starts, Unused, At
    <3>2. shell' = [at |-> shell.at, fd |-> shell.fd, left |-> shell.left,
                    right |-> shell.right, children |-> shell.children + 1]
      BY <1>2 DEF StartBehind, Types, IsShell
    <3>3. shell.children + 1 \in Nat /\ shell.fd \in Slots
      BY DEF Types, IsShell
    <3>4. QED
      BY <3>1, <3>2, <3>3 DEF IsShell
  <2>4. IsJob(Job("read", s)) /\ Job("read", s).does = "read" /\ Job("read", s).fd = s
    BY JobRecords
  <2>5. Types'
    BY <2>2, <2>3, <2>4 DEF Types
  <2>6. Counted'
    <3> DEFINE j == Job("read", s)
    <3> HIDE DEF j
    <3>1. j.does # "none" /\ job' = [job EXCEPT ![p] = j]
      BY <2>3, <2>4 DEF j
    <3>2. QED
      BY <2>3, <3>1, OneMore
  <2>7. \A t \in Slots : /\ name'[t] = "pipes" => name[t] = "pipes" /\ pipe'[t] = pipe[t]
                         /\ name[t] = "pipes" => name'[t] = "pipes"
    BY <2>2
  <2>8. Named'
    BY <2>2, <2>3, <2>7 DEF Named, NoName
  <2>9. OneReader'
    <3>1. \A q \in Jobs : job'[q].does \in {"read", "blocked", "resumed"} =>
              name'[job'[q].fd] = "&"
      <4> SUFFICES ASSUME NEW q \in Jobs,
                          job'[q].does \in {"read", "blocked", "resumed"}
                   PROVE  name'[job'[q].fd] = "&"
        OBVIOUS
      <4>1. CASE q = p
        BY <2>2, <2>3, <2>4, <4>1 DEF Types
      <4>2. CASE q # p
        <5>1. job'[q] = job[q] /\ job[q].fd \in Slots
          BY <2>3, <4>2 DEF Types, IsJob
        <5>2. name[job[q].fd] = "&"
          BY <2>3, <5>1, NobodyReads
        <5>3. QED
          BY <2>2, <5>1, <5>2
      <4>3. QED
        BY <4>1, <4>2
    <3>2. QED
      BY <2>3, <2>7, <3>1 DEF OneReader, Listing
  <2>10. Stream' /\ HandedInOrder'
    BY <2>3, <2>7 DEF Stream, HandedInOrder
  <2>11. QED
    BY <2>5, <2>6, <2>8, <2>9, <2>10
<1>3. ASSUME LeftStarts PROVE PipelineInv'
  <2> DEFINE j == Job("write", shell.fd)
  <2>0. IsJob(j) /\ j.does = "write"
    BY JobRecords DEF Types, IsShell
  <2>1. PICK p \in Jobs :
          /\ job[p] = NoJob /\ job' = [job EXCEPT ![p] = j]
          /\ shell' = [shell EXCEPT !.at = "right", !.left = p, !.children = @ + 1]
    BY <1>3 DEF LeftStarts, Starts, Unused
  <2> HIDE DEF j
  <2>2. /\ IsShell(shell') /\ shell'.at = "right" /\ shell'.fd = shell.fd
        /\ shell'.children = shell.children + 1
    <3>1. shell' = [at |-> "right", fd |-> shell.fd, left |-> p,
                    right |-> shell.right, children |-> shell.children + 1]
      BY <2>1 DEF Types, IsShell
    <3>2. shell.children + 1 \in Nat /\ shell.fd \in Slots
      BY DEF Types, IsShell
    <3>3. QED
      BY <3>1, <3>2 DEF IsShell
  <2>3. shell.at = "left" /\ UNCHANGED <<pipe, name, handed, spoiled>>
    BY <1>3 DEF LeftStarts, At
  <2>4. Types' /\ Counted'
    BY <2>0, <2>1, <2>2, <2>3, OneMore DEF Types
  <2>5. \A q \in Jobs : job'[q].does \in {"read", "blocked", "resumed"} =>
            name'[job'[q].fd] = "&"
    BY <2>0, <2>1, <2>3, NobodyReads DEF Types
  <2>6. OneReader'
    BY <2>2, <2>3, <2>5 DEF OneReader, Listing
  <2>7. QED
    BY <2>2, <2>3, <2>4, <2>6, PipesAreKept
<1>4. ASSUME LeftIsBuiltIn \/ LeftNotFound \/ RightIsBuiltIn PROVE PipelineInv'
  <2>1. /\ shell.at \in {"left", "right"} /\ IsShell(shell')
        /\ UNCHANGED <<pipe, name, job, handed, spoiled>>
        /\ shell'.children = shell.children
        /\ \/ shell'.at \in {"right", "close"} /\ shell'.fd = shell.fd
           \/ shell'.at = "prompt"
    <3>1. CASE LeftIsBuiltIn
      BY <3>1 DEF LeftIsBuiltIn, At, Types, IsShell
    <3>2. CASE LeftNotFound
      BY <3>2, ShellGoes DEF LeftNotFound, At
    <3>3. CASE RightIsBuiltIn
      BY <3>3, ShellGoes DEF RightIsBuiltIn, At
    <3>4. QED
      BY <1>4, <3>1, <3>2, <3>3
  <2>2. Types' /\ Counted'
    BY <2>1, NoneMore DEF Types, Live
  <2>3. OneReader'
    <3>1. \A q \in Jobs : job'[q].does \in {"read", "blocked", "resumed"} =>
              name'[job'[q].fd] = "&"
      BY <2>1, NobodyReads
    <3>2. Listing = {}
      BY <2>1 DEF Listing
    <3>3. QED
      BY <2>1, <3>1, <3>2 DEF OneReader
  <2>4. QED
    BY <2>1, <2>2, <2>3, PipesAreKept
<1>5. ASSUME RightStarts PROVE PipelineInv'
  <2> DEFINE j == Job("read", shell.fd)
  <2>0. IsJob(j) /\ j.does = "read" /\ j.fd = shell.fd
    BY JobRecords DEF Types, IsShell
  <2>1. PICK p \in Jobs :
          /\ job[p] = NoJob /\ job' = [job EXCEPT ![p] = j]
          /\ shell' = [shell EXCEPT !.at = "wait", !.right = p, !.children = @ + 1]
    BY <1>5 DEF RightStarts, Starts, Unused
  <2> HIDE DEF j
  <2>2. /\ IsShell(shell') /\ shell'.at = "wait" /\ shell'.fd = shell.fd
        /\ shell'.right = p /\ shell'.children = shell.children + 1
    <3>1. shell' = [at |-> "wait", fd |-> shell.fd, left |-> shell.left,
                    right |-> p, children |-> shell.children + 1]
      BY <2>1 DEF Types, IsShell
    <3>2. shell.children + 1 \in Nat /\ shell.fd \in Slots
      BY DEF Types, IsShell
    <3>3. QED
      BY <3>1, <3>2 DEF IsShell
  <2>3. shell.at = "right" /\ UNCHANGED <<pipe, name, handed, spoiled>>
    BY <1>5 DEF RightStarts, At
  <2>4. Types' /\ Counted'
    BY <2>0, <2>1, <2>2, <2>3, OneMore DEF Types
  <2>5. ASSUME NEW q \in Jobs, job'[q].does \in {"read", "blocked", "resumed"}
        PROVE  name'[job'[q].fd] = "&" \/ InFront(q)'
    <3>1. CASE q = p
      BY <2>0, <2>1, <2>2, <3>1 DEF Types, InFront
    <3>2. CASE q # p
      BY <2>1, <2>3, <2>5, <3>2, NobodyReads DEF Types
    <3>3. QED
      BY <3>1, <3>2
  <2>6. OneReader'
    <3>1. Listing = {}
      BY <2>3 DEF Listing
    <3>2. QED
      BY <2>3, <2>5, <3>1 DEF OneReader
  <2>7. QED
    BY <2>2, <2>3, <2>4, <2>6, PipesAreKept
<1>6. ASSUME RightNotFound PROVE PipelineInv'
  <2>1. /\ shell.at = "right" /\ UNCHANGED <<pipe, name, handed, spoiled>>
        /\ IsShell(shell') /\ shell'.children = shell.children
        /\ shell'.at \in {"prompt", "killed"}
    BY <1>6, ShellGoes DEF RightNotFound, At
  <2>2. DOMAIN job' = Jobs /\ \A q \in Jobs : job'[q] = job[q] \/ job'[q] = NoJob
    BY <1>6 DEF RightNotFound, Types
  <2>3. Types'
    BY <2>1, <2>2, JobRecords DEF Types
  <2>4. Counted'
    <3>1. Live' \subseteq Live
      BY <2>2, JobRecords DEF Live
    <3>2. QED
      BY <2>1, <3>1, NoneMore
  <2>5. OneReader'
    <3>1. \A q \in Jobs : job'[q].does \in {"read", "blocked", "resumed"} =>
              name'[job'[q].fd] = "&"
      BY <2>1, <2>2, JobRecords, NobodyReads
    <3>2. Listing = {}
      BY <2>1 DEF Listing
    <3>3. QED
      BY <2>1, <3>1, <3>2 DEF OneReader
  <2>6. QED
    BY <2>1, <2>3, <2>4, <2>5, PipesAreKept
<1>7. ASSUME WaitPid PROVE PipelineInv'
  <2>1. /\ shell.at = "wait" /\ shell'.at \in {"asleep", "close"}
        /\ IsShell(shell') /\ shell'.fd = shell.fd /\ shell'.right = shell.right
        /\ shell'.children = shell.children
        /\ UNCHANGED <<pipe, name, job, handed, spoiled>>
        /\ shell.children # 0 => shell'.at = "asleep"
    BY <1>7, ShellGoes DEF WaitPid, At
  <2>2. Types' /\ Counted'
    BY <2>1, NoneMore DEF Types, Live
  <2>3. ASSUME NEW q \in Jobs, InFront(q) PROVE InFront(q)'
    <3>1. q \in Live
      BY <2>3 DEF InFront, Live
    <3>2. shell.children # 0
      BY <3>1, FS_EmptySet, FS_CardinalityType DEF Counted
    <3>3. QED
      BY <2>1, <2>3, <3>2 DEF InFront
  <2>4. OneReader'
    BY <2>1, <2>3 DEF OneReader, Listing
  <2>5. QED
    BY <2>1, <2>2, <2>4, PipesAreKept
<1>8. ASSUME ClosePipe PROVE PipelineInv'
  <2>1. /\ shell.at = "close" /\ shell.fd \in Slots /\ job' = job
        /\ pipe' = [pipe EXCEPT ![shell.fd] = Closed]
        /\ name' = [name EXCEPT ![shell.fd] = NoName]
        /\ handed' = <<>> /\ spoiled' = FALSE
        /\ IsShell(shell') /\ shell'.at = "prompt"
        /\ shell'.children = shell.children
    BY <1>8, ShellGoes DEF ClosePipe, PipeClosed, At, Types, IsShell
  <2>2. Types'
    BY <2>1, ClosedIsEmpty DEF Types
  <2>3. Counted'
    BY <2>1, NoneMore DEF Live
  <2>4. \A s \in Slots : name'[s] # "pipes"
    BY <2>1 DEF Named, NoName, Types
  <2>5. Named'
    BY <2>1, <2>4 DEF Named, Types
  <2>6. \A q \in Jobs : job'[q].does \in {"read", "blocked", "resumed"} =>
            name'[job'[q].fd] = "&"
    <3> SUFFICES ASSUME NEW q \in Jobs,
                        job[q].does \in {"read", "blocked", "resumed"}
                 PROVE  name'[job[q].fd] = "&"
      BY <2>1
    <3>1. name[job[q].fd] = "&" /\ job[q].fd \in Slots
      BY <2>1, NobodyReads DEF Types, IsJob
    <3>2. name[shell.fd] = "pipes"
      BY <2>1 DEF Named
    <3>3. QED
      BY <2>1, <3>1, <3>2 DEF Types
  <2>7. OneReader'
    BY <2>4, <2>6 DEF OneReader
  <2>8. Stream' /\ HandedInOrder'
    BY <2>1, <2>4 DEF Stream, HandedInOrder
  <2>9. QED
    BY <2>2, <2>3, <2>5, <2>7, <2>8
<1>9. ASSUME Unblock PROVE PipelineInv'
  <2>1. shell.at = "prompt" /\ UNCHANGED <<pipe, name, shell, handed, spoiled>>
    BY <1>9 DEF Unblock, At
  <2>2. /\ DOMAIN job' = Jobs
        /\ \A q \in Jobs : \/ job'[q] = job[q]
                           \/ /\ job[q].does = "blocked"
                              /\ job'[q] = [job[q] EXCEPT !.does = "resumed"]
    BY <1>9 DEF Unblock, Types
  <2>3. \A q \in Jobs : \/ job'[q] = job[q]
                        \/ /\ job[q].does = "blocked" /\ IsJob(job'[q])
                           /\ job'[q].does = "resumed" /\ job'[q].fd = job[q].fd
    <3> SUFFICES ASSUME NEW q \in Jobs, job'[q] # job[q]
                 PROVE  /\ job[q].does = "blocked" /\ IsJob(job'[q])
                        /\ job'[q].does = "resumed" /\ job'[q].fd = job[q].fd
      OBVIOUS
    <3> DEFINE k == [job[q] EXCEPT !.does = "resumed"]
    <3>1. IsJob(job[q]) /\ job[q].does = "blocked" /\ job'[q] = k
      BY <2>2 DEF Types
    <3>2. IsJob(k) /\ k.does = "resumed" /\ k.fd = job[q].fd
      BY <3>1, JobRecords
    <3> HIDE DEF k
    <3>3. QED
      BY <3>1, <3>2
  <2>4. Types'
    BY <2>1, <2>2, <2>3 DEF Types
  <2>5. Live' \subseteq Live
    BY <2>3 DEF Live
  <2>6. OneReader'
    <3>1. \A q \in Jobs : job'[q].does \in {"read", "blocked", "resumed"} =>
              name'[job'[q].fd] = "&"
      BY <2>1, <2>3, NobodyReads
    <3>2. QED
      BY <2>1, <3>1 DEF OneReader, Listing
  <2>7. QED
    BY <2>1, <2>4, <2>5, <2>6, NoneMore, PipesAreKept
<1>10. QED
  BY <1>1, <1>2, <1>3, <1>4, <1>5, <1>6, <1>7, <1>8, <1>9 DEF Prompt, Shell

-----------------------------------------------------------------------------
\* A slot whose pipe is replaced by one that is open as before, and as empty
\* when it is closed, keeps its name.
LEMMA SlotIsKept ==
    ASSUME Types, Named, NEW s \in Slots, NEW t \in PipeRec,
           t.created = pipe[s].created, ~pipe[s].created => t = pipe[s],
           pipe' = [pipe EXCEPT ![s] = t], name' = name, shell'.fd = shell.fd,
           \/ shell'.at = shell.at
           \/ shell.at = "asleep" /\ shell'.at = "close"
    PROVE  /\ Named' /\ pipe' \in [Slots -> PipeRec] /\ pipe'[s] = t
           /\ \A r \in Slots \ {s} : pipe'[r] = pipe[r]
<1>1. /\ pipe' \in [Slots -> PipeRec] /\ pipe'[s] = t
      /\ \A r \in Slots \ {s} : pipe'[r] = pipe[r]
  BY DEF Types
<1>2. \A r \in Slots : IF name[r] = NoName THEN pipe'[r] = Closed
                       ELSE pipe'[r].created
  <2>1. IF name[s] = NoName THEN pipe'[s] = Closed ELSE pipe'[s].created
    BY <1>1, ClosedIsEmpty DEF Named
  <2>2. QED
    BY <1>1, <2>1 DEF Named
<1>3. QED
  BY <1>1, <1>2 DEF Named

\* The end of a process that writes.
LEMMA ExitStep ==
    ASSUME PipelineInv, NEW p \in Jobs, Exit(p)
    PROVE  PipelineInv'
<1> USE DEF PipelineInv
<1> DEFINE s == job[p].fd
           q == pipe[s]
           t == PipeWrite(q, 0)
<1>0. s \in Slots /\ q \in PipeRec /\ job[p].does = "write"
  BY DEF Types, IsJob, Exit
<1>1. /\ t \in PipeRec /\ t.created = q.created /\ t.nread = q.nread
      /\ t.rProcesses = q.rProcesses /\ (~q.created => t = q)
  BY <1>0, WriteType
<1>2. /\ pipe' = [pipe EXCEPT ![s] = t] /\ job' = [job EXCEPT ![p] = NoJob]
      /\ shell' = Bereft(p) /\ UNCHANGED <<name, handed, spoiled>>
  BY DEF Exit
<1>3. InOrder(q) => InOrder(t)
  <2> SUFFICES ASSUME InOrder(q) PROVE ~Overrun(t)
    BY <1>0, WriteInOrder
  <2>1. CASE ~q.created
    BY <1>0, <1>1, <2>1, PipeAssumption DEF InOrder, Overrun, PipeRec
  <2>2. CASE q.created
    <3>1. Written(q, 0) = 0
      BY <1>0, <2>2, WriteFields DEF InOrder
    <3>2. t.nwrite = q.nwrite + 0
      BY <1>0, <2>2, <3>1, WriteFields
    <3> HIDE DEF t, q, s
    <3>3. QED
      BY <1>0, <1>1, <3>2, PipeAssumption DEF InOrder, Overrun, PipeRec
  <2>3. QED
    BY <1>0, <2>1, <2>2 DEF PipeRec
<1> HIDE DEF t, q, s
<1>4. /\ Counted' /\ IsShell(shell') /\ shell'.fd = shell.fd
      /\ shell'.at = shell.at \/ (shell.at = "asleep" /\ shell'.at = "close")
  BY <1>0, <1>2, OneLess
<1>5. /\ Named' /\ pipe' \in [Slots -> PipeRec] /\ pipe'[s] = t
      /\ \A r \in Slots \ {s} : pipe'[r] = pipe[r]
  BY <1>0, <1>1, <1>2, <1>4, SlotIsKept DEF q
<1>6. Types'
  BY <1>2, <1>4, <1>5, JobRecords DEF Types
<1>7. OneReader'
  <2>1. \A r \in Slots : pipe'[r].rProcesses = pipe[r].rProcesses
    BY <1>1, <1>5 DEF q
  <2>2. job[p].does # "none"
    BY <1>0
  <2>3. QED
    BY <1>2, <2>1, <2>2, EndKeepsReaders
<1>8. Stream' /\ HandedInOrder'
  <2>1. \A r \in Slots : /\ pipe'[r].nread = pipe[r].nread
                         /\ InOrder(pipe[r]) => InOrder(pipe'[r])
    BY <1>1, <1>3, <1>5 DEF q
  <2>2. QED
    BY <1>2, <2>1 DEF Stream, HandedInOrder
<1>9. QED
  BY <1>4, <1>5, <1>6, <1>7, <1>8

\* A write, to whichever pipe has the slot.
LEMMA WriteStep ==
    ASSUME PipelineInv, NEW p \in Jobs, NEW m \in 1..3, Write(p, m)
    PROVE  PipelineInv'
<1> USE DEF PipelineInv
<1> DEFINE s == job[p].fd
           q == pipe[s]
           t == PipeWrite(q, m)
<1>0. s \in Slots /\ q \in PipeRec /\ m \in Nat
  BY DEF Types, IsJob
<1>1. /\ t \in PipeRec /\ t.created = q.created /\ t.nread = q.nread
      /\ t.rProcesses = q.rProcesses /\ (~q.created => t = q)
  BY <1>0, WriteType
<1>2. /\ pipe' = [pipe EXCEPT ![s] = t] /\ spoiled' = (spoiled \/ Spoils(s, t))
      /\ UNCHANGED <<name, job, shell, handed>>
  BY DEF Write
<1>3. InOrder(q) /\ ~Overrun(t) => InOrder(t)
  BY <1>0, WriteInOrder
<1> HIDE DEF t, q, s
<1>4. /\ Named' /\ pipe' \in [Slots -> PipeRec] /\ pipe'[s] = t
      /\ \A r \in Slots \ {s} : pipe'[r] = pipe[r]
  BY <1>0, <1>1, <1>2, SlotIsKept DEF q
<1>5. Types'
  <2>1. spoiled' \in BOOLEAN
    BY <1>2
  <2>2. QED
    BY <1>2, <1>4, <2>1 DEF Types
<1>6. Counted'
  BY <1>2 DEF Counted, Live
<1>7. OneReader'
  <2>1. \A r \in Slots : pipe'[r].rProcesses = pipe[r].rProcesses
    BY <1>1, <1>4 DEF q
  <2>2. QED
    BY <1>2, <2>1 DEF OneReader, InFront, Listing
<1>8. Stream' /\ HandedInOrder'
  <2> SUFFICES ASSUME ~spoiled' PROVE Stream' /\ HandedInOrder'
    BY DEF Stream, HandedInOrder
  <2>1. ~spoiled /\ (name[s] = "pipes" => ~Overrun(t))
    BY <1>2 DEF Spoils
  <2>2. \A r \in Slots : /\ pipe'[r].nread = pipe[r].nread
                         /\ name[r] = "pipes" /\ InOrder(pipe[r])
                              => InOrder(pipe'[r])
    BY <1>1, <1>3, <1>4, <2>1 DEF q
  <2>3. QED
    BY <1>2, <2>1, <2>2 DEF Stream, HandedInOrder
<1>9. QED
  BY <1>4, <1>5, <1>6, <1>7, <1>8

\* What one turn of the reading loop makes of the pipe.
LEMMA ReadPipe ==
    ASSUME NEW r \in PipeRec, NEW p \in Jobs, NEW u \in {r, Listed(r, p)}
    PROVE  LET after == IF r.created THEN AfterRead(u) ELSE r
               got == IF r.created THEN Taken(u) ELSE <<>>
           IN  /\ after \in PipeRec /\ after.created = r.created
               /\ after.rProcesses \subseteq r.rProcesses \cup {p}
               /\ ~r.created => after = r
               /\ r.created /\ InOrder(r) /\ ~Overrun(after) =>
                     /\ InOrder(after) /\ TakenLen(r) \in Nat
                     /\ after.nread = r.nread + TakenLen(r)
                     /\ got = [i \in 1..TakenLen(r) |-> r.nread + i]
<1>1. /\ u \in PipeRec /\ u.nread = r.nread /\ u.nwrite = r.nwrite
      /\ u.data = r.data /\ u.created = r.created
      /\ u.rProcesses \subseteq r.rProcesses \cup {p}
  BY DEF Listed, PipeRec
<1>2. /\ TakenLen(u) = TakenLen(r)
      /\ InOrder(r) => InOrder(u)
  BY <1>1 DEF TakenLen, Looped, Stops, Byte, InOrder
<1>3. CASE r.created
  <2>1. /\ AfterRead(u) \in PipeRec /\ AfterRead(u).created = u.created
        /\ AfterRead(u).rProcesses = u.rProcesses
        /\ AfterRead(u).nread = u.nread + TakenLen(u)
        /\ TakenLen(u) \in Nat
    BY <1>1, ReadFields
  <2>2. ASSUME InOrder(r), ~Overrun(AfterRead(u))
        PROVE  /\ InOrder(AfterRead(u))
               /\ Taken(u) = [i \in 1..TakenLen(u) |-> u.nread + i]
    BY <1>1, <1>2, <2>2, ReadInOrder
  <2>3. QED
    BY <1>1, <1>2, <1>3, <2>1, <2>2
<1>4. CASE ~r.created
  BY <1>4
<1>5. QED
  BY <1>3, <1>4 DEF PipeRec

\* A turn of the reading loop: if it is of "pipes", its reader is the one the
\* shell waits for.
LEMMA ReadStep ==
    ASSUME PipelineInv, NEW p \in Jobs, Read(p)
    PROVE  PipelineInv'
<1> USE DEF PipelineInv
<1> DEFINE s == job[p].fd
           r == pipe[s]
           u == IF job[p].does = "read" THEN Listed(r, p) ELSE r
           after == IF r.created THEN AfterRead(u) ELSE r
           got == IF r.created THEN Taken(u) ELSE <<>>
           c == IF r.created THEN Buffer(job[p].c, got) ELSE job[p].c
<1>0. s \in Slots /\ r \in PipeRec /\ u \in {r, Listed(r, p)} /\ IsJob(job[p])
  BY DEF Types, IsJob
<1>1. /\ job[p].does = "read" \/ job[p].does = "resumed"
      /\ pipe' = [pipe EXCEPT ![s] = after]
      /\ \/ job' = [job EXCEPT ![p] = Again(job[p], c)] /\ shell' = shell
         \/ job' = [job EXCEPT ![p] = NoJob] /\ shell' = Bereft(p)
      /\ spoiled' = (spoiled \/ Spoils(s, after))
      /\ handed' = IF name[s] = "pipes" /\ ~spoiled' THEN handed \o got ELSE handed
      /\ name' = name
  BY DEF Read
<1>2. /\ after \in PipeRec /\ after.created = r.created
      /\ after.rProcesses \subseteq r.rProcesses \cup {p}
      /\ ~r.created => after = r
      /\ r.created /\ InOrder(r) /\ ~Overrun(after) =>
            /\ InOrder(after) /\ TakenLen(r) \in Nat
            /\ after.nread = r.nread + TakenLen(r)
            /\ got = [i \in 1..TakenLen(r) |-> r.nread + i]
  BY <1>0, ReadPipe
<1>3. IsJob(Again(job[p], c)) /\ Again(job[p], c).does = "read"
      /\ Again(job[p], c).fd = s
  BY <1>0, ReadsAgain
<1> HIDE DEF u, after, got, c, r
<1> DEFINE k == Again(job[p], c)
<1> HIDE DEF k
<1>4. /\ Counted' /\ IsShell(shell') /\ shell'.fd = shell.fd
      /\ shell'.at = shell.at \/ (shell.at = "asleep" /\ shell'.at = "close")
  <2>1. CASE job' = [job EXCEPT ![p] = k] /\ shell' = shell
    <3>1. Live' \subseteq Live
      BY <1>1, <2>1 DEF Live, Types
    <3>2. QED
      BY <2>1, <3>1, NoneMore DEF Types
  <2>2. CASE job' = [job EXCEPT ![p] = NoJob] /\ shell' = Bereft(p)
    <3>1. job[p].does # "none"
      BY <1>1
    <3>2. QED
      BY <2>2, <3>1, OneLess
  <2>3. QED
    BY <1>1, <2>1, <2>2 DEF k
<1>5. /\ Named' /\ pipe' \in [Slots -> PipeRec] /\ pipe'[s] = after
      /\ \A t \in Slots \ {s} : pipe'[t] = pipe[t]
  BY <1>0, <1>1, <1>2, <1>4, SlotIsKept DEF r
<1>6. Types'
  <2>1. spoiled' \in BOOLEAN
    BY <1>1 DEF Types
  <2>2. DOMAIN job' = Jobs /\ \A q \in Jobs : IsJob(job'[q])
    BY <1>1, <1>3, JobRecords DEF Types
  <2>3. QED
    BY <1>1, <1>4, <1>5, <2>1, <2>2 DEF Types
<1>7. ASSUME name[s] = "pipes" PROVE InFront(p)
  BY <1>1, <1>7 DEF OneReader
<1>8. \A t \in Slots : name[t] = "pipes" =>
         \/ pipe'[t].rProcesses \subseteq pipe[t].rProcesses
         \/ pipe'[t].rProcesses \subseteq Listing
  <2> SUFFICES ASSUME name[s] = "pipes"
               PROVE  after.rProcesses \subseteq Listing
    BY <1>5
  <2>1. r.rProcesses \subseteq Listing
    BY <1>0 DEF OneReader, r
  <2>2. p \in Listing
    BY <1>7 DEF InFront, Listing
  <2>3. QED
    BY <1>2, <2>1, <2>2
<1>9. OneReader'
  <2>1. CASE job' = [job EXCEPT ![p] = k] /\ shell' = shell
    <3>1. Listing' = Listing
      BY <2>1 DEF Listing
    <3>2. ASSUME NEW q \in Jobs, job'[q].does \in {"read", "blocked", "resumed"}
          PROVE  name'[job'[q].fd] = "&" \/ InFront(q)'
      <4>1. CASE q = p
        <5>1. job'[p] = k /\ k.does = "read" /\ k.fd = s
          BY <1>3, <2>1 DEF Types, k
        <5>2. name[s] = "&" \/ InFront(p)
          BY <1>1 DEF OneReader
        <5>3. QED
          BY <1>1, <2>1, <4>1, <5>1, <5>2 DEF InFront
      <4>2. CASE q # p
        <5>1. job'[q] = job[q]
          BY <2>1, <4>2 DEF Types
        <5>2. QED
          BY <1>1, <2>1, <3>2, <5>1 DEF OneReader, InFront
      <4>3. QED
        BY <4>1, <4>2
    <3>3. QED
      BY <1>1, <1>8, <3>1, <3>2 DEF OneReader
  <2>2. CASE job' = [job EXCEPT ![p] = NoJob] /\ shell' = Bereft(p)
    <3>1. job[p].does # "none"
      BY <1>1
    <3>2. QED
      BY <1>1, <1>8, <2>2, <3>1, EndKeepsReaders
  <2>3. QED
    BY <1>1, <2>1, <2>2 DEF k
<1>10. Stream' /\ HandedInOrder'
  <2> SUFFICES ASSUME ~spoiled' PROVE Stream' /\ HandedInOrder'
    BY DEF Stream, HandedInOrder
  <2>1. ~spoiled /\ (name[s] = "pipes" => ~Overrun(after))
    BY <1>1 DEF Spoils
  <2>2. CASE name[s] = "pipes"
    <3>1. r.created /\ InOrder(r)
      BY <1>0, <2>1, <2>2 DEF Named, Stream, NoName, r
    <3>2. /\ InOrder(after) /\ TakenLen(r) \in Nat
          /\ after.nread = r.nread + TakenLen(r)
          /\ got = [i \in 1..TakenLen(r) |-> r.nread + i]
      BY <1>2, <2>1, <2>2, <3>1
    <3>3. handed = [i \in 1..r.nread |-> i] /\ handed' = handed \o got
      BY <1>0, <1>1, <2>1, <2>2 DEF HandedInOrder, r
    <3>4. r.nread \in Nat
      BY <1>0 DEF PipeRec
    <3>5. handed' = [i \in 1..after.nread |-> i]
      BY <3>2, <3>3, <3>4, Joined
    <3>6. \A t \in Slots : name'[t] = "pipes" => t = s
      BY <1>0, <1>1, <2>2 DEF Named
    <3>7. QED
      BY <1>0, <1>1, <1>5, <2>2, <3>2, <3>5, <3>6 DEF Stream, HandedInOrder
  <2>3. CASE name[s] # "pipes"
    <3>1. handed' = handed
      BY <1>1, <2>3
    <3>2. \A t \in Slots : name[t] = "pipes" => pipe'[t] = pipe[t]
      BY <1>5, <2>3
    <3>3. QED
      BY <1>1, <2>1, <3>1, <3>2 DEF Stream, HandedInOrder
  <2>4. QED
    BY <2>2, <2>3
<1>11. QED
  BY <1>4, <1>5, <1>6, <1>9, <1>10

\* A reader that must wait is not the right one.
LEMMA BlockStep ==
    ASSUME PipelineInv, NEW p \in Jobs, ReadBlocks(p)
    PROVE  PipelineInv'
<1> USE DEF PipelineInv
<1> DEFINE k == [job[p] EXCEPT !.does = "blocked"]
<1>1. /\ job' = [job EXCEPT ![p] = k] /\ job[p].does = "read"
      /\ pipe[job[p].fd].rProcesses \ {p} # {}
      /\ UNCHANGED <<pipe, name, shell, handed, spoiled>>
  BY DEF ReadBlocks, Blocks
<1>2. IsJob(k) /\ k.does = "blocked" /\ k.fd = job[p].fd /\ job[p].fd \in Slots
  BY JobRecords DEF Types, IsJob
<1> HIDE DEF k
<1>3. name[job[p].fd] = "&"
  <2> SUFFICES ASSUME InFront(p) PROVE FALSE
    BY <1>1 DEF OneReader
  <2>1. name[job[p].fd] = "pipes" /\ Listing = {p}
    BY DEF Named, InFront, Listing
  <2>2. QED
    BY <1>1, <1>2, <2>1 DEF OneReader
<1>4. Types' /\ Counted'
  <2>1. Types'
    BY <1>1, <1>2 DEF Types
  <2>2. Live' \subseteq Live
    BY <1>1, <1>2 DEF Live, Types
  <2>3. QED
    BY <1>1, <2>1, <2>2, NoneMore
<1>5. OneReader'
  <2>1. ASSUME NEW q \in Jobs, job'[q].does \in {"read", "blocked", "resumed"}
        PROVE  name'[job'[q].fd] = "&" \/ InFront(q)'
    <3>1. CASE q = p
      BY <1>1, <1>2, <1>3, <3>1 DEF Types
    <3>2. CASE q # p
      <4>1. job'[q] = job[q]
        BY <1>1, <3>2 DEF Types
      <4>2. QED
        BY <1>1, <2>1, <4>1 DEF OneReader, InFront
    <3>3. QED
      BY <3>1, <3>2
  <2>2. QED
    BY <1>1, <2>1 DEF OneReader, Listing
<1>6. Named' /\ Stream' /\ HandedInOrder'
  BY <1>1 DEF Named, Stream, HandedInOrder
<1>7. QED
  BY <1>4, <1>5, <1>6

\* Every step of the system keeps it.
LEMMA PipelineStep == PipelineInv /\ [Next]_vars => PipelineInv'
<1> SUFFICES ASSUME PipelineInv, [Next]_vars PROVE PipelineInv'
  OBVIOUS
<1>1. CASE Prompt \/ Shell
  BY <1>1, ShellStep
<1>2. CASE \E p \in Jobs : Reads(p) \/ Writes(p)
  BY <1>2, ReadStep, BlockStep, ExitStep, WriteStep DEF Reads, Writes
<1>3. CASE UNCHANGED vars
  BY <1>3 DEF vars, PipelineInv, Types, Counted, Live, Named, OneReader,
              InFront, Listing, Stream, HandedInOrder
<1>4. QED
  BY <1>1, <1>2, <1>3 DEF Next

-----------------------------------------------------------------------------
(***************************************************************************)
(* Until pipe_write overruns the ring or a reader runs past its end,       *)
(* pipe_read hands out the bytes in the order pipe_write took them, none   *)
(* twice and none left out, for every PIPE_SIZE above one.                 *)
(***************************************************************************)
THEOREM BytesComeInOrder == Spec => []HandedInOrder
<1>1. PipelineInv => HandedInOrder
  BY DEF PipelineInv
<1>2. QED
  BY <1>1, PipelineInit, PipelineStep, PTL DEF Spec

(***************************************************************************)
(* block_process_pipe never blocks the command on the right of a pipe,     *)
(* however many pipelines came before and whatever became of them: when a  *)
(* command is started there nobody is listed as a reader any more.         *)
(***************************************************************************)
THEOREM RightReaderNeverBlocks == Spec => []RightReaderRuns
<1>1. PipelineInv => RightReaderRuns
  BY DEF PipelineInv, OneReader, InFront, RightReaderRuns
<1>2. QED
  BY <1>1, PipelineInit, PipelineStep, PTL DEF Spec
=============================================================================
