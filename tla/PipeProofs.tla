----------------------------- MODULE PipeProofs -----------------------------
(***************************************************************************)
(* Module Pipe for any number of readers and writers, any size of the      *)
(* buffer and any width of the counters that is a multiple of it: the ring *)
(* buffer is a bounded queue, and nobody is inside a pipe that is freed.   *)
(***************************************************************************)
EXTENDS Pipe, SequenceTheorems, TLAPS

(* Arithmetic modulo m *)

LEMMA ModSplit ==
  ASSUME NEW m \in Int, m > 0, NEW x \in Int
  PROVE  x % m \in 0 .. m - 1 /\ \E q \in Int : x = m * q + (x % m)
<1>1. x = m * (x \div m) + (x % m)
  BY Z3
<1>2. (x \div m) \in Int /\ x % m \in 0 .. m - 1
  BY Z3
<1>3. QED
  BY <1>1, <1>2, Zenon

LEMMA ModUnique ==
  ASSUME NEW m \in Int, m > 0, NEW q \in Int, NEW r \in 0 .. m - 1
  PROVE  (m * q + r) % m = r
OBVIOUS

LEMMA ModApart ==
  ASSUME NEW m \in Int, m > 0, NEW x \in Int, NEW y \in Int, x < y, y < x + m
  PROVE  x % m # y % m
<1> SUFFICES ASSUME x % m = y % m PROVE FALSE
  OBVIOUS
<1>1. PICK a \in Int : x = m * a + (x % m)
  BY ModSplit, Zenon
<1>2. PICK b \in Int : y = m * b + (y % m)
  BY ModSplit, Zenon
<1>3. y - x = m * b - m * a
  <2>1. m * a \in Int /\ m * b \in Int /\ x % m \in Int
    BY Z3
  <2>2. QED
    BY <1>1, <1>2, <2>1
<1>4. m * b - m * a = m * (b - a)
  BY Z3
<1>5. CASE b - a <= 0
  <2>1. m * (b - a) <= 0
    BY <1>5, Z3
  <2>2. QED
    BY <1>3, <1>4, <2>1
<1>6. CASE b - a >= 1
  <2>1. m * (b - a) >= m
    BY <1>6, Z3
  <2>2. QED
    BY <1>3, <1>4, <2>1
<1>7. QED
  BY <1>5, <1>6

LEMMA ModMultiple ==
  ASSUME NEW m \in Int, m > 0, NEW x \in Int, NEW u \in Int, u % m = 0
  PROVE  (x + u) % m = x % m
<1>1. PICK a \in Int : x = m * a + (x % m)
  BY ModSplit, Zenon
<1>2. PICK b \in Int : u = m * b + (u % m)
  BY ModSplit, Zenon
<1>3. u = m * b
  <2>1. m * b \in Int
    BY Z3
  <2>2. QED
    BY <1>2, <2>1
<1>4. m * a + m * b = m * (a + b)
  BY Z3
<1>5. x + u = m * (a + b) + (x % m)
  <2>1. m * a \in Int /\ m * b \in Int /\ x % m \in Int
    BY Z3
  <2>2. QED
    BY <1>1, <1>3, <1>4, <2>1
<1>6. a + b \in Int /\ x % m \in 0 .. m - 1
  BY ModSplit
<1>7. (m * (a + b) + (x % m)) % m = x % m
  BY <1>6, ModUnique, Zenon
<1>8. QED
  BY <1>5, <1>7, Zenon

LEMMA ModSmall ==
  ASSUME NEW m \in Nat, NEW x \in Int, 0 <= x, x < m
  PROVE  x % m = x
OBVIOUS

LEMMA ModOver ==
  ASSUME NEW m \in Nat, NEW x \in Int, m <= x, x < m + m
  PROVE  x % m = x - m
OBVIOUS

-----------------------------------------------------------------------------
(* The ring buffer *)

\* The counters are never further apart than the buffer is long.
Ring ==
  /\ data \in [0 .. PIPESIZE - 1 -> Vals] /\ out \in Vals
  /\ nread \in 0 .. Uint - 1 /\ nwrite \in 0 .. Uint - 1
  /\ Used <= PIPESIZE

LEMMA Sizes ==
  /\ PIPESIZE \in Int /\ PIPESIZE > 0 /\ Uint \in Int /\ Uint > PIPESIZE
  /\ PIPESIZE \in Nat /\ Uint \in Nat /\ Uint % PIPESIZE = 0
BY PipeAssumption

\* The distance of the counters, without the division.
LEMMA Distance ==
  ASSUME NEW r \in 0 .. Uint - 1, NEW w \in 0 .. Uint - 1
  PROVE  (w - r + Uint) % Uint = IF r <= w THEN w - r ELSE w - r + Uint
<1>1. CASE r <= w
  <2> DEFINE x == w - r + Uint
  <2>1. x \in Int /\ Uint <= x /\ x < Uint + Uint /\ x - Uint = w - r
    BY <1>1, Sizes
  <2> HIDE DEF x
  <2>2. x % Uint = w - r
    BY <2>1, Sizes, ModOver, Zenon
  <2>3. (w - r + Uint) % Uint = w - r
    BY <2>2, Zenon DEF x
  <2>4. QED
    BY <1>1, <2>3, Zenon
<1>2. CASE w < r
  <2>1. (w - r + Uint) % Uint = w - r + Uint
    BY <1>2, Sizes, ModSmall
  <2>2. QED
    BY <1>2, <2>1
<1>3. QED
  BY <1>1, <1>2

LEMMA Increment ==
  ASSUME NEW r \in 0 .. Uint - 1
  PROVE  (r + 1) % Uint = IF r + 1 < Uint THEN r + 1 ELSE 0
<1>1. CASE r + 1 < Uint
  BY <1>1, Sizes, ModSmall
<1>2. CASE ~(r + 1 < Uint)
  <2>1. (r + 1) % Uint = r + 1 - Uint
    BY <1>2, Sizes, ModOver
  <2>2. QED
    BY <1>2, <2>1, Sizes
<1>3. QED
  BY <1>1, <1>2, Zenon

LEMMA UsedIs ==
  ASSUME Ring
  PROVE  /\ Used = IF nread <= nwrite THEN nwrite - nread ELSE nwrite - nread + Uint
         /\ Used \in 0 .. PIPESIZE
         /\ Empty <=> Used = 0
<1>1. Used = IF nread <= nwrite THEN nwrite - nread ELSE nwrite - nread + Uint
  BY Distance, Zenon DEF Ring, Used
<1>2. QED
  BY <1>1, Sizes DEF Ring, Empty

\* The test of pipewrite() for a full buffer is exact.
LEMMA FullIs ==
  ASSUME Ring
  PROVE  Full <=> Used = PIPESIZE
<1>0. nread \in 0 .. Uint - 1 /\ nwrite \in 0 .. Uint - 1
  BY Zenon DEF Ring
<1>1. (nread + PIPESIZE) % Uint = IF nread + PIPESIZE < Uint THEN nread + PIPESIZE
                                  ELSE nread + PIPESIZE - Uint
  <2>1. CASE nread + PIPESIZE < Uint
    BY <1>0, <2>1, Sizes, ModSmall
  <2>2. CASE ~(nread + PIPESIZE < Uint)
    BY <1>0, <2>2, Sizes, ModOver
  <2>3. QED
    BY <2>1, <2>2, Zenon
<1>2. QED
  BY <1>0, <1>1, UsedIs, Sizes DEF Full

\* nwrite is the place behind the last byte, whether or not it has wrapped.
LEMMA Behind ==
  ASSUME Ring
  PROVE  nwrite % PIPESIZE = (nread + Used) % PIPESIZE
<1>0. nread \in 0 .. Uint - 1 /\ nwrite \in 0 .. Uint - 1
  BY Zenon DEF Ring
<1>1. CASE nread <= nwrite
  BY <1>0, <1>1, UsedIs
<1>2. CASE ~(nread <= nwrite)
  <2>1. nread + Used = nwrite + Uint
    BY <1>0, <1>2, UsedIs, Sizes
  <2>2. (nwrite + Uint) % PIPESIZE = nwrite % PIPESIZE
    <3>1. nwrite \in Int
      BY <1>0
    <3>2. QED
      BY <3>1, Sizes, ModMultiple, Zenon
  <2>3. QED
    BY <2>1, <2>2, Zenon
<1>3. QED
  BY <1>1, <1>2, Zenon

\* The place of a byte, when nread has gone on by one.
LEMMA Ahead ==
  ASSUME NEW r \in 0 .. Uint - 1, NEW k \in Nat
  PROVE  (((r + 1) % Uint) + k) % PIPESIZE = (r + 1 + k) % PIPESIZE
<1>1. CASE r + 1 < Uint
  BY <1>1, Increment, Zenon
<1>2. CASE ~(r + 1 < Uint)
  <2>1. (r + 1) % Uint = 0 /\ r + 1 + k = k + Uint
    BY <1>2, Increment, Sizes
  <2>2. (k + Uint) % PIPESIZE = k % PIPESIZE
    <3>1. k \in Int
      OBVIOUS
    <3>2. QED
      BY <3>1, Sizes, ModMultiple, Zenon
  <2>3. QED
    BY <2>1, <2>2
<1>3. QED
  BY <1>1, <1>2, Zenon

\* u bytes of buffer d, from place r on, as a sequence.
QueueOf(d, r, u) == [k \in 1 .. u |-> d[(r + k - 1) % PIPESIZE]]

LEMMA QueueSeq ==
  ASSUME NEW d \in [0 .. PIPESIZE - 1 -> Vals], NEW r \in Nat, NEW u \in Nat
  PROVE  /\ QueueOf(d, r, u) \in Seq(Vals) /\ Len(QueueOf(d, r, u)) = u
         /\ \A k \in 1 .. u : QueueOf(d, r, u)[k] = d[(r + k - 1) % PIPESIZE]
<1>1. ASSUME NEW k \in 1 .. u PROVE (r + k - 1) % PIPESIZE \in 0 .. PIPESIZE - 1
  <2>1. r + k - 1 \in Int
    OBVIOUS
  <2>2. QED
    BY <2>1, Sizes, ModSplit, Zenon
<1>2. \A k \in 1 .. u : d[(r + k - 1) % PIPESIZE] \in Vals
  BY <1>1, Zenon
<1>3. QueueOf(d, r, u) \in [1 .. u -> Vals]
  BY <1>2, Zenon DEF QueueOf
<1>4. QueueOf(d, r, u) \in Seq(Vals) /\ Len(QueueOf(d, r, u)) = u
  BY <1>3
<1>5. QED
  BY <1>4, Zenon DEF QueueOf

LEMMA QueueIs ==
  ASSUME Ring
  PROVE  /\ Queue \in Seq(Vals) /\ Len(Queue) = Used
         /\ \A k \in 1 .. Used : Queue[k] = data[(nread + k - 1) % PIPESIZE]
<1>1. data \in [0 .. PIPESIZE - 1 -> Vals] /\ nread \in Nat /\ Used \in Nat
  BY UsedIs DEF Ring
<1>2. Queue = QueueOf(data, nread, Used)
  BY Zenon DEF Queue, QueueOf
<1>3. QED
  BY <1>1, <1>2, QueueSeq, Zenon

\* A byte written is appended.
LEMMA WriteStep ==
  ASSUME Ring, NEW p \in Procs, NEW ch \in Vals, WriteByte(p, ch)
  PROVE  Ring' /\ Abstract!Put(ch)
<1>0. /\ nread \in 0 .. Uint - 1 /\ nwrite \in 0 .. Uint - 1 /\ data \in [0 .. PIPESIZE - 1 -> Vals]
      /\ nread' = nread /\ nwrite' = (nwrite + 1) % Uint /\ out' = out /\ out \in Vals
      /\ data' = [data EXCEPT ![nwrite % PIPESIZE] = ch]
  BY Zenon DEF Ring, WriteByte
<1>1. Used \in 0 .. PIPESIZE - 1
  BY UsedIs, FullIs, Sizes DEF WriteByte
<1>2. nwrite' \in 0 .. Uint - 1
  BY <1>0, Increment, Sizes
<1>3. Used' = Used + 1
  <2>1. Used' = IF nread <= nwrite' THEN nwrite' - nread ELSE nwrite' - nread + Uint
    BY <1>0, <1>2, Distance, Zenon DEF Used
  <2>2. QED
    BY <1>0, <1>1, <2>1, UsedIs, Increment, Sizes
<1>4. nwrite % PIPESIZE \in 0 .. PIPESIZE - 1
  <2>1. nwrite \in Int
    BY <1>0
  <2>2. QED
    BY <2>1, Sizes, ModSplit, Zenon
<1>5. Ring'
  <2>1. data' \in [0 .. PIPESIZE - 1 -> Vals]
    BY <1>0, <1>4, Zenon
  <2>2. QED
    BY <1>0, <1>1, <1>2, <1>3, <2>1, Sizes DEF Ring
<1>6. /\ Queue' \in Seq(Vals) /\ Len(Queue') = Used + 1
      /\ \A k \in 1 .. Used + 1 : Queue'[k] = data'[(nread + k - 1) % PIPESIZE]
  <2>1. Queue' = QueueOf(data', nread, Used + 1)
    BY <1>0, <1>3 DEF Queue, QueueOf
  <2>2. data' \in [0 .. PIPESIZE - 1 -> Vals] /\ nread \in Nat /\ Used + 1 \in Nat
    BY <1>0, <1>1, <1>5 DEF Ring
  <2>3. QED
    BY <2>1, <2>2, QueueSeq, Zenon
<1>7. ASSUME NEW k \in 1 .. Used PROVE Queue'[k] = Queue[k]
  <2>1. (nread + k - 1) % PIPESIZE # (nread + Used) % PIPESIZE
    <3>1. /\ nread + k - 1 \in Int /\ nread + Used \in Int
          /\ nread + k - 1 < nread + Used /\ nread + Used < nread + k - 1 + PIPESIZE
      BY <1>0, <1>1, Sizes
    <3>2. QED
      BY <3>1, Sizes, ModApart, Zenon
  <2>2. (nread + k - 1) % PIPESIZE \in 0 .. PIPESIZE - 1
    <3>1. nread + k - 1 \in Int
      BY <1>0, <1>1
    <3>2. QED
      BY <3>1, Sizes, ModSplit, Zenon
  <2>3. data'[(nread + k - 1) % PIPESIZE] = data[(nread + k - 1) % PIPESIZE]
    BY <1>0, <2>1, <2>2, Behind, Zenon
  <2>4. k \in 1 .. Used + 1
    BY <1>1
  <2>5. QED
    BY <1>6, <2>3, <2>4, QueueIs, Zenon
<1>8. Queue'[Used + 1] = ch
  <2>1. Used + 1 \in 1 .. Used + 1 /\ nread + (Used + 1) - 1 = nread + Used
    BY <1>0, <1>1
  <2>2. data'[(nread + Used) % PIPESIZE] = ch
    BY <1>0, <1>4, Behind, Zenon
  <2>3. QED
    BY <1>6, <2>1, <2>2, Zenon
<1>9. Queue' = Append(Queue, ch)
  <2>1. Queue \in Seq(Vals) /\ Len(Queue) = Used
    BY QueueIs, Zenon
  <2>2. /\ Append(Queue, ch) \in Seq(Vals) /\ Len(Append(Queue, ch)) = Used + 1
        /\ \A k \in 1 .. Used : Append(Queue, ch)[k] = Queue[k]
        /\ Append(Queue, ch)[Used + 1] = ch
    BY <1>1, <2>1
  <2>3. ASSUME NEW k \in 1 .. Used + 1 PROVE Queue'[k] = Append(Queue, ch)[k]
    <3>1. k \in 1 .. Used \/ k = Used + 1
      BY <1>1
    <3>2. QED
      BY <1>7, <1>8, <2>2, <3>1, Zenon
  <2>4. QED
    BY <1>6, <2>2, <2>3, SeqEqual, Zenon
<1>10. Len(Queue) < PIPESIZE
  BY <1>1, QueueIs, Sizes
<1>11. QED
  BY <1>0, <1>5, <1>9, <1>10, Zenon DEF Abstract!Put

\* A byte read is taken from the front.
LEMMA ReadStep ==
  ASSUME Ring, NEW p \in Procs, ReadByte(p)
  PROVE  Ring' /\ Abstract!Get
<1>0. /\ nread \in 0 .. Uint - 1 /\ nwrite \in 0 .. Uint - 1 /\ data \in [0 .. PIPESIZE - 1 -> Vals]
      /\ nwrite' = nwrite /\ nread' = (nread + 1) % Uint /\ data' = data
      /\ out' = data[nread % PIPESIZE]
  BY Zenon DEF Ring, ReadByte
<1>1. Used \in 1 .. PIPESIZE
  BY UsedIs, Sizes DEF ReadByte
<1>2. nread' \in 0 .. Uint - 1
  BY <1>0, Increment, Sizes
<1>3. Used' = Used - 1
  <2>1. Used' = IF nread' <= nwrite THEN nwrite - nread' ELSE nwrite - nread' + Uint
    BY <1>0, <1>2, Distance, Zenon DEF Used
  <2>2. QED
    BY <1>0, <1>1, <2>1, UsedIs, Increment, Sizes
<1>4. nread % PIPESIZE \in 0 .. PIPESIZE - 1
  <2>1. nread \in Int
    BY <1>0
  <2>2. QED
    BY <2>1, Sizes, ModSplit, Zenon
<1>5. Ring'
  <2>1. out' \in Vals
    BY <1>0, <1>4, Zenon
  <2>2. QED
    BY <1>0, <1>1, <1>2, <1>3, <2>1, Sizes DEF Ring
<1>6. Queue \in Seq(Vals) /\ Len(Queue) = Used /\ Queue # <<>> /\ Queue[1] = data[nread % PIPESIZE]
  <2>1. 1 \in 1 .. Used /\ nread + 1 - 1 = nread
    BY <1>0, <1>1
  <2>2. QED
    BY <1>1, <2>1, QueueIs
<1>7. /\ Queue' \in Seq(Vals) /\ Len(Queue') = Used - 1
      /\ \A k \in 1 .. Used - 1 : Queue'[k] = data[(nread' + k - 1) % PIPESIZE]
  <2>1. Queue' = QueueOf(data, nread', Used - 1)
    BY <1>0, <1>3, Zenon DEF Queue, QueueOf
  <2>2. nread' \in Nat /\ Used - 1 \in Nat
    BY <1>1, <1>2
  <2>3. QED
    BY <1>0, <2>1, <2>2, QueueSeq, Zenon
<1>8. Tail(Queue) \in Seq(Vals) /\ Len(Tail(Queue)) = Used - 1
      /\ \A k \in 1 .. Used - 1 : Tail(Queue)[k] = Queue[k + 1]
  BY <1>1, <1>6
<1>9. ASSUME NEW k \in 1 .. Used - 1 PROVE Queue'[k] = Tail(Queue)[k]
  <2>1. k + 1 \in 1 .. Used /\ k - 1 \in Nat
    BY <1>1
  <2>2. (nread' + (k - 1)) % PIPESIZE = (nread + 1 + (k - 1)) % PIPESIZE
    BY <1>0, <2>1, Ahead, Zenon
  <2>3. nread' + (k - 1) = nread' + k - 1 /\ nread + 1 + (k - 1) = nread + (k + 1) - 1
    BY <1>0, <1>2, <2>1
  <2>4. Queue[k + 1] = data[(nread + (k + 1) - 1) % PIPESIZE]
    BY <2>1, QueueIs, Zenon
  <2>5. QED
    BY <1>7, <1>8, <2>2, <2>3, <2>4, Zenon
<1>10. Queue' = Tail(Queue)
  BY <1>7, <1>8, <1>9, SeqEqual, Zenon
<1>11. Head(Queue) = Queue[1]
  BY <1>6
<1>12. QED
  BY <1>0, <1>5, <1>6, <1>10, <1>11, Zenon DEF Abstract!Get

\* The other steps leave the buffer alone.
LEMMA RingStep ==
  ASSUME Ring, [Next]_vars
  PROVE  Ring' /\ [Abstract!Next]_<<Queue, out>>
<1>1. ASSUME NEW p \in Procs, NEW ch \in Vals, WriteByte(p, ch)
      PROVE  Ring' /\ [Abstract!Next]_<<Queue, out>>
  BY <1>1, WriteStep, Zenon DEF Abstract!Next
<1>2. ASSUME NEW p \in Procs, ReadByte(p)
      PROVE  Ring' /\ [Abstract!Next]_<<Queue, out>>
  BY <1>2, ReadStep, Zenon DEF Abstract!Next
<1>3. CASE UNCHANGED <<data, nread, nwrite, out>>
  <2>1. Used' = Used
    BY <1>3, Zenon DEF Used
  <2>2. Queue' = Queue
    BY <1>3, <2>1, Zenon DEF Queue
  <2>3. QED
    BY <1>3, <2>1, <2>2, Zenon DEF Ring
<1>4. ASSUME NEW p \in Procs,
             \/ \E n \in 1 .. MaxCount : Call(p, n)
             \/ Close(p) \/ Kill(p) \/ Acquire(p) \/ pipeclose(p)
             \/ WriteFail(p) \/ WriteFull(p) \/ WriteEnd(p, TRUE) \/ WriteEnd(p, FALSE)
             \/ Await(p) \/ ReadEnd(p, TRUE) \/ ReadEnd(p, FALSE)
      PROVE  UNCHANGED <<data, nread, nwrite, out>>
  BY <1>4, Zenon DEF Call, Close, Kill, Acquire, pipeclose, WriteFail, WriteFull, WriteEnd, Await, ReadEnd, pipe
<1>5. CASE UNCHANGED vars
  BY <1>3, <1>5, Zenon DEF vars, pipe
<1>6. QED
  BY <1>1, <1>2, <1>3, <1>4, <1>5, Zenon DEF Next, Kernel

\* The ring buffer of pipewrite() and piperead() implements a bounded queue,
\* for every size of the buffer, number of processes and value of the counters,
\* before and after they wrap: nothing is lost, repeated, reordered or overwritten.
THEOREM RingIsFifo == Spec => IsFifo
<1>1. Init => Ring /\ Abstract!Init
  <2> SUFFICES ASSUME Init PROVE Ring /\ Abstract!Init
    OBVIOUS
  <2>1. Used = 0
    BY Sizes, Distance DEF Init, Used
  <2>2. InitVal \in Vals /\ out = InitVal
    BY PipeAssumption, Zenon DEF Init
  <2>3. Queue = <<>>
    BY <2>1 DEF Queue
  <2>4. Ring
    BY <2>1, <2>2, Sizes DEF Init, Ring
  <2>5. QED
    BY <2>2, <2>3, <2>4, Zenon DEF Abstract!Init
<1>2. Ring /\ [Next]_vars => Ring' /\ [Abstract!Next]_<<Queue, out>>
  BY RingStep, Zenon
<1>3. Abstract!vars = <<Queue, out>>
  BY Zenon DEF Abstract!vars
<1>4. QED
  BY <1>1, <1>2, <1>3, PTL DEF Spec, IsFifo, Abstract!Spec, Abstract!vars

-----------------------------------------------------------------------------
(* The life of the pipe *)

Locked == {"write", "await", "read"}
Open == {"user", "acquire", "sleep_nread", "sleep_nwrite"} \cup Locked
Closed == {"close", "gone"}

SameEnd(p, q) == p \in Readers <=> q \in Readers

\* Only one process closes an end, when all the others have, and an end is
\* marked closed when all are out.  This is what makes it safe to free the pipe.
Life ==
  /\ pc \in [Procs -> Open \cup Closed]
  /\ lock \in Procs \cup {NoProc}
  /\ lock # NoProc => pc[lock] \in Locked
  /\ \A p \in Procs : p \in ends <=> pc[p] \in Open
  /\ \A p, q \in Procs : pc[p] = "close" /\ SameEnd(p, q) /\ p # q => pc[q] = "gone"
  /\ ~readopen => \A p \in Procs \cap Readers : pc[p] = "gone"
  /\ ~writeopen => \A p \in Procs \cap Writers : pc[p] = "gone"
  /\ freed => ~readopen /\ ~writeopen
  /\ ends \subseteq Procs

LEMMA Labels == Open \cap Closed = {} /\ Locked \subseteq Open /\ "gone" # "close"
BY Zenon DEF Open, Closed, Locked

\* A step inside a call neither opens nor closes an end.
LEMMA InsideStep ==
  ASSUME Life, UNCHANGED <<ends, readopen, writeopen, freed>>,
         pc' \in [Procs -> Open \cup Closed],
         \A q \in Procs : pc'[q] = pc[q] \/ (pc[q] \in Open /\ pc'[q] \in Open),
         lock' \in Procs \cup {NoProc}, lock' # NoProc => pc'[lock'] \in Locked
  PROVE  Life'
<1>1. \A q \in Procs : (pc'[q] \in Open <=> pc[q] \in Open)
                       /\ (pc'[q] = "close" <=> pc[q] = "close") /\ (pc[q] = "gone" => pc'[q] = "gone")
  BY Labels, Zenon DEF Closed
<1>2. \A p \in Procs : p \in ends' <=> pc'[p] \in Open
  BY <1>1, Zenon DEF Life
<1>3. \A p, q \in Procs : pc'[p] = "close" /\ SameEnd(p, q) /\ p # q => pc'[q] = "gone"
  BY <1>1, Zenon DEF Life
<1>4. /\ ~readopen' => \A p \in Procs \cap Readers : pc'[p] = "gone"
      /\ ~writeopen' => \A p \in Procs \cap Writers : pc'[p] = "gone"
      /\ freed' => ~readopen' /\ ~writeopen'
      /\ ends' \subseteq Procs
  BY <1>1, Zenon DEF Life
<1>5. QED
  BY <1>2, <1>3, <1>4, Zenon DEF Life, SameEnd

\* p goes from one place inside a call to another and nobody else moves.
LEMMA GotoStep ==
  ASSUME Life, UNCHANGED <<ends, readopen, writeopen, freed>>,
         NEW p \in Procs, NEW label \in Open, pc[p] \in Open, Goto(p, label),
         \/ lock' = NoProc
         \/ lock' = p /\ label \in Locked
         \/ lock' = lock /\ (pc[p] \notin Locked \/ label \in Locked)
  PROVE  Life'
<1>1. pc' = [pc EXCEPT ![p] = label] /\ pc \in [Procs -> Open \cup Closed]
  BY Zenon DEF Goto, Life
<1>2. pc'[p] = label /\ \A q \in Procs : q # p => pc'[q] = pc[q]
  BY <1>1, Zenon
<1>3. pc' \in [Procs -> Open \cup Closed]
  BY <1>1, Zenon
<1>4. lock' \in Procs \cup {NoProc} /\ (lock' # NoProc => pc'[lock'] \in Locked)
  BY <1>2, Zenon DEF Life
<1>5. QED
  BY <1>2, <1>3, <1>4, InsideStep, Zenon

\* p releases the lock, wakes the sleepers on c and goes on at label.
LEMMA WakeupStep ==
  ASSUME Life, UNCHANGED <<ends, readopen, writeopen, freed>>,
         NEW p \in Procs, NEW c \in Open, NEW label \in Open, pc[p] \in Open,
         WakeupGoto(c, p, label), lock' = NoProc
  PROVE  Life'
<1>1. \A q \in Procs : pc'[q] = IF q = p THEN label ELSE IF pc[q] = c THEN "acquire" ELSE pc[q]
  BY Zenon DEF WakeupGoto
<1>2. "acquire" \in Open /\ pc \in [Procs -> Open \cup Closed]
  BY Zenon DEF Life, Open
<1>3. pc' \in [Procs -> Open \cup Closed]
  BY <1>1, <1>2, Zenon DEF WakeupGoto
<1>4. \A q \in Procs : pc'[q] = pc[q] \/ (pc[q] \in Open /\ pc'[q] \in Open)
  BY <1>1, <1>2, Zenon
<1>5. QED
  BY <1>3, <1>4, InsideStep, Zenon

LEMMA CloseStep ==
  ASSUME Life, NEW p \in Procs, Close(p)
  PROVE  Life'
<1> DEFINE label == IF ends \cap (IF p \in Readers THEN Readers ELSE Writers) = {p}
                    THEN "close" ELSE "gone"
<1>1. /\ pc[p] = "user" /\ p \in ends /\ ends' = ends \ {p}
      /\ UNCHANGED <<lock, freed, readopen, writeopen>>
      /\ pc' = [pc EXCEPT ![p] = label] /\ pc \in [Procs -> Open \cup Closed]
  BY Zenon DEF Close, Goto, Life, pipe
<1>2. label \in Closed /\ (label = "close" => ends \cap (IF p \in Readers THEN Readers ELSE Writers) = {p})
  BY Zenon DEF Closed
<1> HIDE DEF label
<1>3. pc'[p] = label /\ \A q \in Procs : q # p => pc'[q] = pc[q]
  BY <1>1, Zenon
<1>4. pc' \in [Procs -> Open \cup Closed]
  BY <1>1, <1>2, Zenon
<1>5. "user" \notin Closed /\ "user" \notin Locked /\ "user" # "close" /\ "user" # "gone"
  BY Zenon DEF Closed, Locked
<1>6. lock' \in Procs \cup {NoProc} /\ (lock' # NoProc => pc'[lock'] \in Locked)
  BY <1>1, <1>3, <1>5, Zenon DEF Life
<1>7. \A q \in Procs : q \in ends' <=> pc'[q] \in Open
  BY <1>1, <1>2, <1>3, Labels, Zenon DEF Life
<1>8. ASSUME NEW a \in Procs, NEW b \in Procs, pc'[a] = "close", SameEnd(a, b), a # b
      PROVE  pc'[b] = "gone"
  <2>1. CASE a = p
    <3>1. b \in (IF p \in Readers THEN Readers ELSE Writers)
      BY <1>8, <2>1, Zenon DEF SameEnd, Procs
    <3>2. b \notin ends
      BY <1>2, <1>3, <1>8, <2>1, <3>1, Zenon
    <3>3. pc[b] \in Closed
      BY <3>2, Zenon DEF Life
    <3>4. pc[b] # "close"
      BY <1>1, <1>5, <1>8, <2>1, Zenon DEF Life, SameEnd
    <3>5. QED
      BY <1>3, <1>8, <2>1, <3>3, <3>4, Zenon DEF Closed
  <2>2. CASE a # p
    <3>1. pc[a] = "close"
      BY <1>3, <1>8, <2>2, Zenon
    <3>2. pc[b] = "gone"
      BY <1>8, <3>1, Zenon DEF Life
    <3>3. QED
      BY <1>1, <1>3, <1>5, <3>2, Zenon
  <2>3. QED
    BY <2>1, <2>2, Zenon
<1>9. /\ ~readopen' => \A q \in Procs \cap Readers : pc'[q] = "gone"
      /\ ~writeopen' => \A q \in Procs \cap Writers : pc'[q] = "gone"
      /\ freed' => ~readopen' /\ ~writeopen'
      /\ ends' \subseteq Procs
  BY <1>1, <1>3, <1>5, Zenon DEF Life
<1>10. QED
  BY <1>4, <1>6, <1>7, <1>8, <1>9, Zenon DEF Life, SameEnd

LEMMA PipecloseStep ==
  ASSUME Life, NEW p \in Procs, pipeclose(p)
  PROVE  Life'
<1> DEFINE c == IF p \in Writers THEN "sleep_nread" ELSE "sleep_nwrite"
<1>1. /\ pc[p] = "close" /\ lock = NoProc /\ UNCHANGED <<lock, ends>>
      /\ readopen' = (readopen /\ p \notin Readers)
      /\ writeopen' = (writeopen /\ p \notin Writers)
      /\ freed' => ~readopen' /\ ~writeopen'
  BY Zenon DEF pipeclose
<1>2. \A q \in Procs : pc'[q] = IF q = p THEN "gone" ELSE IF pc[q] = c THEN "acquire" ELSE pc[q]
  BY Zenon DEF pipeclose, WakeupGoto
<1>3. c \in Open /\ "acquire" \in Open /\ "gone" \in Closed /\ pc \in [Procs -> Open \cup Closed]
  BY Zenon DEF Open, Closed, Life
<1> HIDE DEF c
<1>4. pc' \in [Procs -> Open \cup Closed]
  BY <1>2, <1>3, Zenon DEF pipeclose, WakeupGoto
<1>5. pc'[p] = "gone" /\ \A q \in Procs : q # p => pc'[q] = pc[q] \/ (pc[q] \in Open /\ pc'[q] \in Open)
  BY <1>2, <1>3, Zenon
<1>6. \A q \in Procs : (pc'[q] \in Open <=> pc[q] \in Open)
                       /\ (pc'[q] = "close" => pc[q] = "close") /\ (pc[q] = "gone" => pc'[q] = "gone")
  BY <1>1, <1>5, Labels, Zenon DEF Closed
<1>7. \A q \in Procs : q \in ends' <=> pc'[q] \in Open
  BY <1>1, <1>6, Zenon DEF Life
<1>8. \A a, b \in Procs : pc'[a] = "close" /\ SameEnd(a, b) /\ a # b => pc'[b] = "gone"
  BY <1>6, Zenon DEF Life
<1>9. \A q \in Procs : SameEnd(p, q) => pc'[q] = "gone"
  BY <1>1, <1>5, <1>6, Zenon DEF Life
<1>10. Readers \cap Writers = {}
  BY PipeAssumption, Zenon
<1>11. ~readopen' => \A q \in Procs \cap Readers : pc'[q] = "gone"
  BY <1>1, <1>6, <1>9, Zenon DEF Life, SameEnd
<1>12. ~writeopen' => \A q \in Procs \cap Writers : pc'[q] = "gone"
  BY <1>1, <1>6, <1>9, <1>10, Zenon DEF Life, SameEnd
<1>13. ends' \subseteq Procs /\ lock' \in Procs \cup {NoProc} /\ lock' = NoProc
  BY <1>1, Zenon DEF Life
<1>14. QED
  BY <1>1, <1>4, <1>7, <1>8, <1>11, <1>12, <1>13, Zenon DEF Life, SameEnd

LEMMA KillStep ==
  ASSUME Life, NEW p \in Procs, Kill(p)
  PROVE  Life'
<1> DEFINE label == IF pc[p] \in {"sleep_nread", "sleep_nwrite"} THEN "acquire" ELSE pc[p]
<1>1. /\ UNCHANGED <<lock, ends, readopen, writeopen, freed>>
      /\ pc' = [pc EXCEPT ![p] = label] /\ pc \in [Procs -> Open \cup Closed]
  BY Zenon DEF Kill, Life, pipe
<1>2. label = pc[p] \/ (pc[p] \in Open \ Locked /\ label \in Open)
  BY Zenon DEF Open, Locked
<1> HIDE DEF label
<1>3. pc'[p] = label /\ \A q \in Procs : q # p => pc'[q] = pc[q]
  BY <1>1, Zenon
<1>4. pc' \in [Procs -> Open \cup Closed]
  BY <1>1, <1>2, Zenon
<1>5. lock' \in Procs \cup {NoProc} /\ (lock' # NoProc => pc'[lock'] \in Locked)
  BY <1>1, <1>2, <1>3, Zenon DEF Life
<1>6. QED
  BY <1>1, <1>2, <1>3, <1>4, <1>5, InsideStep, Zenon

LEMMA LifeStep ==
  ASSUME Life, [Next]_vars
  PROVE  Life'
<1>0. /\ {"user", "acquire", "sleep_nread", "sleep_nwrite", "write", "await", "read"} \subseteq Open
      /\ {"write", "await", "read"} \subseteq Locked
      /\ "user" \notin Locked /\ "acquire" \notin Locked
  BY Zenon DEF Open, Locked
<1>1. ASSUME NEW p \in Procs, NEW n \in 1 .. MaxCount, Call(p, n) PROVE Life'
  BY <1>0, <1>1, GotoStep, Zenon DEF Call, pipe
<1>2. ASSUME NEW p \in Procs, Acquire(p) PROVE Life'
  <2>1. (IF p \in Readers THEN "await" ELSE "write") \in Locked \cap Open
    BY <1>0, Zenon
  <2>2. QED
    BY <1>0, <1>2, <2>1, GotoStep, Zenon DEF Acquire, pipe
<1>3. ASSUME NEW p \in Procs, WriteFail(p) PROVE Life'
  BY <1>0, <1>3, GotoStep, Zenon DEF WriteFail, pipe
<1>4. ASSUME NEW p \in Procs, WriteFull(p) PROVE Life'
  BY <1>0, <1>4, WakeupStep, Zenon DEF WriteFull, pipe
<1>5. ASSUME NEW p \in Procs, NEW f \in BOOLEAN, WriteEnd(p, f) PROVE Life'
  BY <1>0, <1>5, WakeupStep, Zenon DEF WriteEnd, pipe
<1>6. ASSUME NEW p \in Procs, Await(p) PROVE Life'
  <2>1. PICK label \in {"read", "user", "sleep_nread"} :
          /\ Goto(p, label)
          /\ lock' = NoProc \/ (lock' = lock /\ label = "read")
    BY <1>6, Zenon DEF Await
  <2>2. label \in Open /\ (label = "read" => label \in Locked)
    BY <1>0, Zenon
  <2>3. QED
    BY <1>0, <1>6, <2>1, <2>2, GotoStep, Zenon DEF Await, pipe
<1>7. ASSUME NEW p \in Procs, NEW f \in BOOLEAN, ReadEnd(p, f) PROVE Life'
  BY <1>0, <1>7, WakeupStep, Zenon DEF ReadEnd, pipe
<1>8. CASE UNCHANGED <<lock, freed, ends, pc, readopen, writeopen>>
  BY <1>8, Zenon DEF Life, SameEnd
<1>9. ASSUME NEW p \in Procs, NEW ch \in Vals, WriteByte(p, ch) PROVE Life'
  BY <1>8, <1>9, Zenon DEF WriteByte
<1>10. ASSUME NEW p \in Procs, ReadByte(p) PROVE Life'
  BY <1>8, <1>10, Zenon DEF ReadByte
<1>11. ASSUME NEW p \in Procs, Close(p) \/ pipeclose(p) \/ Kill(p) PROVE Life'
  BY <1>11, CloseStep, PipecloseStep, KillStep, Zenon
<1>12. CASE UNCHANGED vars
  BY <1>8, <1>12, Zenon DEF vars, pipe
<1>13. QED
  BY <1>1, <1>2, <1>3, <1>4, <1>5, <1>6, <1>7, <1>9, <1>10, <1>11, <1>12, Zenon DEF Next, Kernel

\* pipeclose() frees the pipe when nobody is inside it or can come back to it,
\* for any number of processes that share its ends.
THEOREM FreedWhenUnused == Spec => []NotUsedAfterFree
<1>1. Init => Life
  <2> SUFFICES ASSUME Init PROVE Life
    OBVIOUS
  <2>1. "user" \in Open /\ "user" # "close"
    BY Zenon DEF Open
  <2>2. QED
    BY <2>1, Zenon DEF Init, Life
<1>2. Life /\ [Next]_vars => Life'
  BY LifeStep, Zenon
<1>3. Life => NotUsedAfterFree
  <2> SUFFICES ASSUME Life, freed PROVE ends = {} /\ lock = NoProc /\ \A p \in Procs : pc[p] = "gone"
    BY Zenon DEF NotUsedAfterFree
  <2>1. \A p \in Procs : pc[p] = "gone"
    BY Zenon DEF Life, Procs
  <2>2. "gone" \notin Open /\ "gone" \notin Locked
    BY Zenon DEF Open, Locked
  <2>3. QED
    BY <2>1, <2>2, Zenon DEF Life
<1>4. QED
  BY <1>1, <1>2, <1>3, PTL DEF Spec
=============================================================================
