---------------------------- MODULE DeviceProofs ----------------------------
(***************************************************************************)
(* The console, the clock and the buffer cache, modules Console, Ticks and *)
(* Bio, for any number of processes, any sizes of the buffers and any      *)
(* width of the counters: what is typed is read in order and a writer is   *)
(* woken; nobody who waits for ticks goes on too early or is left asleep,  *)
(* wherever the counter wraps; whoever has a buffer of a block has it      *)
(* alone and sees the last contents of the block.                          *)
(***************************************************************************)
EXTENDS Console, Ticks, Bio, SequenceTheorems, FiniteSetTheorems, TLAPS

-----------------------------------------------------------------------------
(* Arithmetic modulo m *)

LEMMA ModSplit ==
  ASSUME NEW m \in Int, m > 0, NEW x \in Int
  PROVE  x % m \in 0 .. m - 1 /\ \E q \in Int : x = m * q + (x % m)
<1>1. x = m * (x \div m) + (x % m)
  BY Z3
<1>2. (x \div m) \in Int /\ x % m \in 0 .. m - 1
  BY Z3
<1>3. QED
  BY <1>1, <1>2, Zenon

LEMMA ModUnique ==
  ASSUME NEW m \in Int, m > 0, NEW q \in Int, NEW y \in 0 .. m - 1
  PROVE  (m * q + y) % m = y
OBVIOUS

\* Less than m apart, two numbers differ modulo m.
LEMMA ModApart ==
  ASSUME NEW m \in Int, m > 0, NEW x \in Int, NEW y \in Int, x < y, y < x + m
  PROVE  x % m # y % m
<1> SUFFICES ASSUME x % m = y % m PROVE FALSE
  OBVIOUS
<1>1. PICK a \in Int : x = m * a + (x % m)
  BY ModSplit, Zenon
<1>2. PICK b \in Int : y = m * b + (y % m)
  BY ModSplit, Zenon
<1>3. y - x = m * b - m * a
  <2>1. m * a \in Int /\ m * b \in Int /\ x % m \in Int
    BY Z3
  <2>2. QED
    BY <1>1, <1>2, <2>1
<1>4. m * b - m * a = m * (b - a)
  BY Z3
<1>5. CASE b - a <= 0
  <2>1. m * (b - a) <= 0
    BY <1>5, Z3
  <2>2. QED
    BY <1>3, <1>4, <2>1
<1>6. CASE b - a >= 1
  <2>1. m * (b - a) >= m
    BY <1>6, Z3
  <2>2. QED
    BY <1>3, <1>4, <2>1
<1>7. QED
  BY <1>5, <1>6

LEMMA ModMultiple ==
  ASSUME NEW m \in Int, m > 0, NEW x \in Int, NEW u \in Int, u % m = 0
  PROVE  (x + u) % m = x % m
<1>1. PICK a \in Int : x = m * a + (x % m)
  BY ModSplit, Zenon
<1>2. PICK b \in Int : u = m * b + (u % m)
  BY ModSplit, Zenon
<1>3. u = m * b
  <2>1. m * b \in Int
    BY Z3
  <2>2. QED
    BY <1>2, <2>1
<1>4. m * a + m * b = m * (a + b)
  BY Z3
<1>5. x + u = m * (a + b) + (x % m)
  <2>1. m * a \in Int /\ m * b \in Int /\ x % m \in Int
    BY Z3
  <2>2. QED
    BY <1>1, <1>3, <1>4, <2>1
<1>6. a + b \in Int /\ x % m \in 0 .. m - 1
  BY ModSplit
<1>7. (m * (a + b) + (x % m)) % m = x % m
  BY <1>6, ModUnique, Zenon
<1>8. QED
  BY <1>5, <1>7, Zenon

LEMMA ModSmall ==
  ASSUME NEW m \in Nat, NEW x \in Int, 0 <= x, x < m
  PROVE  x % m = x
OBVIOUS

LEMMA ModOver ==
  ASSUME NEW m \in Nat, NEW x \in Int, m <= x, x < m + m
  PROVE  x % m = x - m
OBVIOUS

-----------------------------------------------------------------------------
(* The ring buffer *)
-----------------------------------------------------------------------------
(* The indices of the input buffer *)

Indices == 0 .. CharWrap - 1
Cells == 0 .. INPUT_BUF_SIZE - 1

LEMMA Sizes ==
  /\ INPUT_BUF_SIZE \in Int /\ INPUT_BUF_SIZE > 0 /\ INPUT_BUF_SIZE < CharWrap
  /\ CharWrap \in Int /\ CharWrap > 0 /\ CharWrap % INPUT_BUF_SIZE = 0
BY ConsoleAssumption

LEMMA PlusType ==
  ASSUME NEW i \in Int, NEW a \in Int
  PROVE  Plus(i, a) \in Indices /\ Slot(i) \in Cells
<1>1. i + a \in Int
  OBVIOUS
<1>2. (i + a) % CharWrap \in 0 .. CharWrap - 1 /\ i % INPUT_BUF_SIZE \in 0 .. INPUT_BUF_SIZE - 1
  BY <1>1, Sizes, ModSplit, Zenon
<1>3. QED
  BY <1>2, Zenon DEF Plus, Slot, Indices, Cells

\* A remainder and a number with the same remainder.
LEMMA PlusIs ==
  ASSUME NEW i \in Int, NEW a \in Int
  PROVE  \E q \in Int : i + a = CharWrap * q + Plus(i, a)
<1>1. i + a \in Int
  OBVIOUS
<1>2. \E q \in Int : i + a = CharWrap * q + ((i + a) % CharWrap)
  BY <1>1, Sizes, ModSplit, Zenon
<1>3. QED
  BY <1>2, Zenon DEF Plus

LEMMA ModShift ==
  ASSUME NEW m \in Int, m > 0, NEW x \in Int, NEW q \in Int
  PROVE  (m * q + x) % m = x % m
<1>1. PICK a \in Int : x = m * a + (x % m)
  BY ModSplit, Zenon
<1>2. m * q \in Int /\ m * a \in Int /\ x % m \in 0 .. m - 1
  BY ModSplit, Z3
<1>3. m * q + m * a = m * (q + a)
  BY Z3
<1>4. m * q + x = m * (q + a) + (x % m)
  BY <1>1, <1>2, <1>3
<1>5. q + a \in Int
  OBVIOUS
<1>6. (m * (q + a) + (x % m)) % m = x % m
  BY <1>2, <1>5, ModUnique, Zenon
<1>7. QED
  BY <1>4, <1>6, Zenon

\* Two moves are one.
LEMMA PlusPlus ==
  ASSUME NEW i \in Int, NEW a \in Int, NEW b \in Int
  PROVE  Plus(Plus(i, a), b) = Plus(i, a + b)
<1>1. PICK q \in Int : i + a = CharWrap * q + Plus(i, a)
  BY PlusIs, Zenon
<1>2. CharWrap \in Int /\ CharWrap > 0 /\ Plus(i, a) \in Int
  BY Sizes, PlusType DEF Indices
<1>3. CharWrap * q \in Int
  BY <1>2, Z3
<1>4. i + (a + b) = CharWrap * q + (Plus(i, a) + b) /\ Plus(i, a) + b \in Int
  BY <1>1, <1>2, <1>3
<1>5. (CharWrap * q + (Plus(i, a) + b)) % CharWrap = (Plus(i, a) + b) % CharWrap
  BY <1>2, <1>4, ModShift, Zenon
<1>6. QED
  BY <1>4, <1>5, Zenon DEF Plus

\* There and back.
LEMMA PlusZero ==
  ASSUME NEW i \in Indices
  PROVE  Plus(i, 0) = i
<1>1. i \in Int /\ i + 0 = i /\ 0 <= i /\ i < CharWrap /\ CharWrap \in Nat
  BY Sizes DEF Indices
<1>2. i % CharWrap = i
  BY <1>1, ModSmall, Zenon
<1>3. QED
  BY <1>1, <1>2, Zenon DEF Plus

\* The difference of two indices is the distance between them.
LEMMA PlusBack ==
  ASSUME NEW i \in Int, NEW a \in Indices
  PROVE  Plus(Plus(i, a), -i) = a
<1>1. a \in Int /\ -i \in Int /\ a + (-i) + i = a /\ i \in Int
  BY Sizes DEF Indices
<1>2. Plus(Plus(i, a), -i) = Plus(i, a + (-i))
  BY <1>1, PlusPlus, Zenon
<1>3. Plus(i, a + (-i)) = a % CharWrap
  BY <1>1 DEF Plus
<1>4. a % CharWrap = a
  BY Sizes, ModSmall DEF Indices
<1>5. QED
  BY <1>2, <1>3, <1>4, Zenon

\* The cell does not see that the index wraps.
LEMMA SlotPlus ==
  ASSUME NEW i \in Int, NEW a \in Int
  PROVE  Slot(Plus(i, a)) = (i + a) % INPUT_BUF_SIZE
<1> DEFINE S == INPUT_BUF_SIZE
<1>1. PICK q \in Int : i + a = CharWrap * q + Plus(i, a)
  BY PlusIs, Zenon
<1>2. PICK t \in Int : CharWrap = S * t + (CharWrap % S)
  BY Sizes, ModSplit, Zenon
<1>3. S * t \in Int /\ t * q \in Int /\ Plus(i, a) \in Int /\ S \in Int /\ S > 0
  <2>1. S \in Int /\ S > 0 /\ CharWrap \in Int
    BY Sizes, Zenon
  <2>2. S * t \in Int /\ t * q \in Int
    BY <2>1, Z3
  <2>3. Plus(i, a) \in Int
    BY <2>1, PlusType DEF Indices
  <2>4. QED
    BY <2>1, <2>2, <2>3, Zenon
<1>4. CharWrap = S * t
  BY <1>2, <1>3, Sizes
<1>5. CharWrap * q = S * (t * q)
  BY <1>3, <1>4, Z3
<1>6. i + a = S * (t * q) + Plus(i, a)
  BY <1>1, <1>5, Zenon
<1>7. (S * (t * q) + Plus(i, a)) % S = Plus(i, a) % S
  BY <1>3, ModShift, Zenon
<1>8. QED
  BY <1>6, <1>7, Zenon DEF Slot

\* Characters that are in the buffer together are in different cells.
LEMMA SlotsApart ==
  ASSUME NEW i \in Int, NEW a \in Int, NEW b \in Int,
         a < b, b < a + INPUT_BUF_SIZE
  PROVE  Slot(Plus(i, a)) # Slot(Plus(i, b))
<1>1. (i + a) % INPUT_BUF_SIZE # (i + b) % INPUT_BUF_SIZE
  <2>1. i + a \in Int /\ i + b \in Int /\ i + a < i + b /\ i + b < (i + a) + INPUT_BUF_SIZE
    BY Sizes
  <2>2. QED
    BY <2>1, Sizes, ModApart, Zenon
<1>2. QED
  BY <1>1, SlotPlus, Zenon

-----------------------------------------------------------------------------
(* The input buffer *)

ReaderStates ==
  [pc : {"user", "asleep", "woken"}, n : Int, target : Int, killed : BOOLEAN]

InTypes ==
  /\ cbuf \in [Cells -> Chars]
  /\ r \in Indices /\ w \in Indices /\ e \in Indices
  /\ reader \in [Readers -> ReaderStates]
  /\ queue \in Seq(Chars) /\ line \in Seq(Chars)

\* The buffer holds queue from r on, and after it line.
Ring ==
  /\ Len(queue) + Len(line) <= INPUT_BUF_SIZE
  /\ w = Plus(r, Len(queue)) /\ e = Plus(w, Len(line))
  /\ Held(r, queue) /\ Held(w, line)

\* The inductive invariant of consoleread() and consoleintr().
InInv ==
  /\ InTypes /\ Ring
  /\ \A p \in Readers : reader[p].pc = "asleep" => r = w

LEMMA Lengths ==
  ASSUME InTypes, Ring
  PROVE  /\ Len(queue) \in Nat /\ Len(line) \in Nat /\ r \in Int /\ w \in Int
         /\ Len(queue) \in Indices /\ Len(line) \in Indices
         /\ Len(queue) + Len(line) \in Indices
<1>1. Len(queue) \in Nat /\ Len(line) \in Nat /\ r \in Int /\ w \in Int
  BY Sizes DEF InTypes, Indices
<1>2. Len(queue) + Len(line) <= INPUT_BUF_SIZE
  BY Zenon DEF Ring
<1>3. QED
  BY <1>1, <1>2, Sizes DEF Indices

\* The differences that the code computes are the lengths.
LEMMA Distances ==
  ASSUME InTypes, Ring
  PROVE  /\ Plus(w, -r) = Len(queue) /\ Plus(e, -w) = Len(line)
         /\ e = Plus(r, Len(queue) + Len(line))
         /\ Plus(e, -r) = Len(queue) + Len(line)
<1>1. w = Plus(r, Len(queue)) /\ e = Plus(w, Len(line))
  BY Zenon DEF Ring
<1>2. Plus(w, -r) = Len(queue) /\ Plus(e, -w) = Len(line)
  BY <1>1, Lengths, PlusBack, Zenon
<1>3. Len(queue) \in Int /\ Len(line) \in Int /\ r \in Int
  BY Lengths
<1>4. e = Plus(r, Len(queue) + Len(line))
  BY <1>1, <1>3, PlusPlus, Zenon
<1>5. Plus(e, -r) = Len(queue) + Len(line)
  BY <1>4, Lengths, PlusBack, Zenon
<1>6. QED
  BY <1>2, <1>4, <1>5, Zenon

\* The cells of the line that is being edited, counted from r.
LEMMA LineCells ==
  ASSUME InTypes, Ring, NEW j \in 1 .. Len(line)
  PROVE  cbuf[Slot(Plus(r, Len(queue) + (j - 1)))] = line[j]
<1>1. cbuf[Slot(Plus(w, j - 1))] = line[j]
  BY Zenon DEF Ring, Held
<1>2. Len(queue) \in Int /\ j - 1 \in Int /\ r \in Int
  BY Lengths
<1>3. Plus(w, j - 1) = Plus(r, Len(queue) + (j - 1))
  BY <1>2, PlusPlus, Zenon DEF Ring
<1>4. QED
  BY <1>1, <1>3, Zenon

\* consoleread() takes k characters.
LEMMA RingTake ==
  ASSUME InTypes, Ring, NEW k \in 0 .. Len(queue), Take(k),
         UNCHANGED <<cbuf, w, e, line>>
  PROVE  Ring' /\ r' \in Indices /\ queue' \in Seq(Chars) /\ (k = Len(queue) => r' = w)
<1>0. Len(queue) \in Int /\ k \in Int /\ r \in Int /\ queue \in Seq(Chars)
  BY Lengths DEF InTypes
<1>1. r' = Plus(r, k) /\ queue' = SubSeq(queue, k + 1, Len(queue))
  BY Zenon DEF Take
<1>2. /\ queue' \in Seq(Chars) /\ Len(queue') = Len(queue) - k
      /\ \A j \in 1 .. Len(queue') : queue'[j] = queue[k + j] /\ k + j \in 1 .. Len(queue)
  <2>1. k + 1 \in 1 .. Len(queue) + 1 /\ Len(queue) \in (k + 1) - 1 .. Len(queue)
    BY <1>0
  <2>2. /\ queue' \in Seq(Chars) /\ Len(queue') = Len(queue) - (k + 1) + 1
        /\ \A j \in 1 .. Len(queue) - (k + 1) + 1 : queue'[j] = queue[(k + 1) + j - 1]
    BY <1>0, <1>1, <2>1, SubSeqProperties
  <2>3. Len(queue') = Len(queue) - k /\ Len(queue) - (k + 1) + 1 = Len(queue) - k
    BY <1>0, <2>2
  <2>4. ASSUME NEW j \in 1 .. Len(queue')
        PROVE  queue'[j] = queue[k + j] /\ k + j \in 1 .. Len(queue)
    <3>1. (k + 1) + j - 1 = k + j /\ k + j \in 1 .. Len(queue)
      BY <1>0, <2>3
    <3>2. queue'[j] = queue[(k + 1) + j - 1]
      BY <2>2, <2>3, Zenon
    <3>3. QED
      BY <3>1, <3>2, Zenon
  <2>5. QED
    BY <2>2, <2>3, <2>4, Zenon
<1>3. w = Plus(r', Len(queue'))
  <2>1. Len(queue) - k \in Int /\ k + (Len(queue) - k) = Len(queue)
    BY <1>0
  <2>2. Plus(Plus(r, k), Len(queue) - k) = Plus(r, k + (Len(queue) - k))
    BY <1>0, <2>1, PlusPlus, Zenon
  <2>3. QED
    BY <1>1, <1>2, <2>1, <2>2, Zenon DEF Ring
<1>4. ASSUME NEW j \in 1 .. Len(queue') PROVE cbuf[Slot(Plus(r', j - 1))] = queue'[j]
  <2>1. j - 1 \in Int /\ k + (j - 1) = (k + j) - 1
    BY <1>0
  <2>2. Plus(Plus(r, k), j - 1) = Plus(r, k + (j - 1))
    BY <1>0, <2>1, PlusPlus, Zenon
  <2>3. cbuf[Slot(Plus(r, (k + j) - 1))] = queue[k + j]
    BY <1>2, Zenon DEF Ring, Held
  <2>4. QED
    BY <1>1, <1>2, <2>1, <2>2, <2>3, Zenon
<1>5. Held(r, queue)'
  BY <1>4, Zenon DEF Held
<1>6. Held(w, line)'
  BY Zenon DEF Ring, Held
<1>7. Len(queue') + Len(line') <= INPUT_BUF_SIZE
  BY <1>0, <1>2, Lengths, Sizes DEF Ring
<1>8. Ring'
  BY <1>3, <1>5, <1>6, <1>7, Zenon DEF Ring
<1>9. r' \in Indices /\ (k = Len(queue) => r' = w)
  BY <1>0, <1>1, PlusType, Zenon DEF Ring
<1>10. QED
  BY <1>2, <1>8, <1>9, Zenon

\* consoleintr() takes k characters back.
LEMMA RingErase ==
  ASSUME InTypes, Ring, NEW k \in 0 .. Len(line), Erase(k), r' = r
  PROVE  Ring' /\ e' \in Indices /\ line' \in Seq(Chars)
<1>0. /\ Len(line) \in Nat /\ Len(queue) \in Nat /\ k \in Int /\ w \in Int /\ e \in Int
      /\ -k \in Int /\ line \in Seq(Chars)
  BY Lengths DEF InTypes, Indices
<1>1. /\ e' = Plus(e, -k) /\ line' = SubSeq(line, 1, Len(line) - k)
      /\ UNCHANGED <<cbuf, w, queue>>
  BY Zenon DEF Erase
<1>2. /\ line' \in Seq(Chars) /\ Len(line') = Len(line) - k
      /\ \A j \in 1 .. Len(line') : line'[j] = line[j] /\ j \in 1 .. Len(line)
  <2>1. Len(line) - k \in Int /\ Len(line) - k >= 0 /\ \A j \in 1 .. Len(line) - k : line[j] \in Chars
    BY <1>0
  <2>2. /\ line' \in Seq(Chars)
        /\ Len(line') = IF 1 <= Len(line) - k THEN (Len(line) - k) - 1 + 1 ELSE 0
        /\ \A j \in 1 .. (Len(line) - k) - 1 + 1 : line'[j] = line[1 + j - 1]
    BY <1>1, <2>1, SubSeqProperties
  <2>3. Len(line') = Len(line) - k /\ (Len(line) - k) - 1 + 1 = Len(line) - k
    BY <1>0, <2>2
  <2>4. ASSUME NEW j \in 1 .. Len(line') PROVE line'[j] = line[j] /\ j \in 1 .. Len(line)
    <3>1. 1 + j - 1 = j /\ j \in 1 .. Len(line)
      BY <1>0, <2>3
    <3>2. line'[j] = line[1 + j - 1]
      BY <2>2, <2>3, Zenon
    <3>3. QED
      BY <3>1, <3>2, Zenon
  <2>5. QED
    BY <2>2, <2>3, <2>4, Zenon
<1>3. e' = Plus(w', Len(line'))
  <2>1. Len(line) \in Int /\ Len(line) + (-k) = Len(line) - k
    BY <1>0
  <2>2. Plus(Plus(w, Len(line)), -k) = Plus(w, Len(line) + (-k))
    BY <1>0, <2>1, PlusPlus, Zenon
  <2>3. QED
    BY <1>1, <1>2, <2>1, <2>2, Zenon DEF Ring
<1>4. Held(r, queue)'
  BY <1>1, Zenon DEF Ring, Held
<1>5. Held(w, line)'
  BY <1>1, <1>2, Zenon DEF Ring, Held
<1>6. Len(queue') + Len(line') <= INPUT_BUF_SIZE
  BY <1>0, <1>1, <1>2, Sizes DEF Ring
<1>7. w' = Plus(r', Len(queue'))
  BY <1>1, Zenon DEF Ring
<1>8. e' \in Indices
  BY <1>0, <1>1, PlusType, Zenon
<1>9. Ring'
  BY <1>3, <1>4, <1>5, <1>6, <1>7, Zenon DEF Ring
<1>10. QED
  BY <1>2, <1>8, <1>9, Zenon

\* The cell that consoleintr() writes is none of those in use.
LEMMA NewCell ==
  ASSUME InTypes, Ring, Fits, NEW c \in Chars,
         cbuf' = [cbuf EXCEPT ![Slot(e)] = c]
  PROVE  /\ Len(queue) + Len(line) < INPUT_BUF_SIZE
         /\ cbuf' \in [Cells -> Chars]
         /\ cbuf'[Slot(Plus(r, Len(queue) + Len(line)))] = c
         /\ \A j \in 0 .. Len(queue) + Len(line) - 1 :
              cbuf'[Slot(Plus(r, j))] = cbuf[Slot(Plus(r, j))]
<1> DEFINE m == Len(queue) + Len(line)
<1>0. m \in Int /\ m \in Nat /\ r \in Int /\ e \in Int /\ cbuf \in [Cells -> Chars]
  BY Lengths DEF InTypes, Indices
<1>1. m < INPUT_BUF_SIZE /\ e = Plus(r, m)
  BY Distances, Zenon DEF Fits
<1> HIDE DEF m
<1>2. Slot(e) \in Cells /\ \A j \in Int : Slot(Plus(r, j)) \in Cells
  <2>1. \A j \in Int : Plus(r, j) \in Int
    BY <1>0, PlusType DEF Indices
  <2>2. QED
    BY <1>0, <2>1, PlusType, Zenon
<1>3. cbuf' \in [Cells -> Chars] /\ cbuf'[Slot(Plus(r, m))] = c
  BY <1>0, <1>1, <1>2, Zenon
<1>4. ASSUME NEW j \in 0 .. m - 1 PROVE cbuf'[Slot(Plus(r, j))] = cbuf[Slot(Plus(r, j))]
  <2>1. j \in Int /\ j < m /\ m < j + INPUT_BUF_SIZE
    BY <1>0, <1>1, Sizes
  <2>2. Slot(Plus(r, j)) # Slot(Plus(r, m))
    BY <1>0, <2>1, SlotsApart, Zenon
  <2>3. QED
    BY <1>0, <1>1, <1>2, <2>1, <2>2, Zenon
<1>5. QED
  BY <1>1, <1>3, <1>4 DEF m

\* consoleintr() stores c: in the line, or at its end with the whole line
\* handed over.
LEMMA RingStore ==
  ASSUME InTypes, Ring, Fits, NEW c \in Chars, StoreChar(c), r' = r
  PROVE  /\ Ring' /\ cbuf' \in [Cells -> Chars]
         /\ w' \in Indices /\ e' \in Indices /\ queue' \in Seq(Chars) /\ line' \in Seq(Chars)
         /\ \/ reader' = WakeReaders
            \/ reader' = reader /\ w' = w
<1>0. /\ Len(line) \in Nat /\ Len(queue) \in Nat /\ r \in Int /\ w \in Indices /\ e \in Int
      /\ line \in Seq(Chars) /\ queue \in Seq(Chars) /\ w \in Int
  BY Lengths DEF InTypes, Indices
<1>1. cbuf' = [cbuf EXCEPT ![Slot(e)] = c] /\ e' = Plus(e, 1)
  BY Zenon DEF StoreChar
<1>2. /\ Len(queue) + Len(line) < INPUT_BUF_SIZE
      /\ cbuf' \in [Cells -> Chars]
      /\ cbuf'[Slot(Plus(r, Len(queue) + Len(line)))] = c
      /\ \A j \in 0 .. Len(queue) + Len(line) - 1 :
           cbuf'[Slot(Plus(r, j))] = cbuf[Slot(Plus(r, j))]
  BY <1>1, NewCell, Zenon
<1>3. e' \in Indices
  <2>1. 1 \in Int
    OBVIOUS
  <2>2. QED
    BY <1>0, <1>1, <2>1, PlusType, Zenon
<1>4. e' = Plus(r, Len(queue) + Len(line) + 1)
  <2>1. e = Plus(r, Len(queue) + Len(line))
    BY Distances, Zenon
  <2>2. Len(queue) + Len(line) \in Int /\ 1 \in Int
    BY <1>0
  <2>3. Plus(Plus(r, Len(queue) + Len(line)), 1) = Plus(r, Len(queue) + Len(line) + 1)
    BY <1>0, <2>2, PlusPlus, Zenon
  <2>4. QED
    BY <1>1, <2>1, <2>3, Zenon
\* The cells from r on hold queue, line and c.
<1>5. ASSUME NEW j \in 1 .. Len(queue) PROVE cbuf'[Slot(Plus(r, j - 1))] = queue[j]
  <2>1. j - 1 \in 0 .. Len(queue) + Len(line) - 1
    BY <1>0
  <2>2. cbuf[Slot(Plus(r, j - 1))] = queue[j]
    BY Zenon DEF Ring, Held
  <2>3. QED
    BY <1>2, <2>1, <2>2, Zenon
<1>6. ASSUME NEW j \in 1 .. Len(line)
      PROVE  cbuf'[Slot(Plus(r, Len(queue) + (j - 1)))] = line[j]
  <2>1. Len(queue) + (j - 1) \in 0 .. Len(queue) + Len(line) - 1
    BY <1>0
  <2>2. QED
    BY <1>2, <2>1, LineCells, Zenon
<1>7. CASE w' = e' /\ reader' = WakeReaders /\ queue' = queue \o Append(line, c) /\ line' = <<>>
  <2>1. /\ queue' \in Seq(Chars) /\ Len(queue') = Len(queue) + Len(line) + 1
        /\ line' \in Seq(Chars) /\ Len(line') = 0
    BY <1>0, <1>7
  <2>2. ASSUME NEW j \in 1 .. Len(queue') PROVE cbuf'[Slot(Plus(r, j - 1))] = queue'[j]
    <3>1. CASE j <= Len(queue)
      <4>1. j \in 1 .. Len(queue) /\ queue'[j] = queue[j]
        BY <1>0, <1>7, <2>1, <3>1
      <4>2. QED
        BY <1>5, <4>1, Zenon
    <3>2. CASE Len(queue) < j /\ j <= Len(queue) + Len(line)
      <4> DEFINE i == j - Len(queue)
      <4>1. i \in 1 .. Len(line) /\ Len(queue) + (i - 1) = j - 1
        BY <1>0, <2>1, <3>2
      <4>2. queue'[j] = line[i]
        BY <1>0, <1>7, <2>1, <3>2
      <4> HIDE DEF i
      <4>3. QED
        BY <1>6, <4>1, <4>2, Zenon
    <3>3. CASE j = Len(queue) + Len(line) + 1
      <4>1. j - 1 = Len(queue) + Len(line)
        BY <1>0, <3>3
      <4>2. queue'[j] = c
        BY <1>0, <1>7, <2>1, <3>3
      <4>3. QED
        BY <1>2, <4>1, <4>2, Zenon
    <3>4. QED
      BY <1>0, <2>1, <3>1, <3>2, <3>3
  <2>3. Held(r, queue)'
    BY <2>2, Zenon DEF Held
  <2>4. Held(w, line)'
    BY <2>1 DEF Held
  <2>5. w' = Plus(r', Len(queue'))
    BY <1>4, <1>7, <2>1, Zenon
  <2>6. e' = Plus(w', Len(line'))
    <3>2. Plus(e', 0) = e'
      BY <1>3, PlusZero, Zenon
    <3>3. QED
      BY <1>7, <2>1, <3>2, Zenon
  <2>7. Len(queue') + Len(line') <= INPUT_BUF_SIZE
    BY <1>0, <1>2, <2>1, Sizes
  <2>8. Ring'
    BY <2>3, <2>4, <2>5, <2>6, <2>7, Zenon DEF Ring
  <2>9. QED
    BY <1>2, <1>3, <1>7, <2>1, <2>8, Zenon
<1>8. CASE line' = Append(line, c) /\ UNCHANGED <<w, reader, queue>>
  <2>1. line' \in Seq(Chars) /\ Len(line') = Len(line) + 1
    BY <1>0, <1>8
  <2>2. w = Plus(r, Len(queue))
    BY Zenon DEF Ring
  <2>3. ASSUME NEW j \in 1 .. Len(line') PROVE cbuf'[Slot(Plus(w, j - 1))] = line'[j]
    <3>1. Len(queue) \in Int /\ j - 1 \in Int
      BY <1>0
    <3>2. Plus(w, j - 1) = Plus(r, Len(queue) + (j - 1))
      <4>1. Plus(Plus(r, Len(queue)), j - 1) = Plus(r, Len(queue) + (j - 1))
        BY <1>0, <3>1, PlusPlus
      <4>2. QED
        BY <2>2, <4>1, Zenon
    <3>3. CASE j <= Len(line)
      <4>1. j \in 1 .. Len(line) /\ line'[j] = line[j]
        BY <1>0, <1>8, <2>1, <3>3
      <4>2. QED
        BY <1>6, <3>2, <4>1, Zenon
    <3>4. CASE j = Len(line) + 1
      <4>1. Len(queue) + (j - 1) = Len(queue) + Len(line) /\ line'[j] = c
        BY <1>0, <1>8, <2>1, <3>4
      <4>2. QED
        BY <1>2, <3>2, <4>1, Zenon
    <3>5. QED
      BY <1>0, <2>1, <3>3, <3>4
  <2>4. Held(w, line)'
    BY <1>8, <2>3, Zenon DEF Held
  <2>5. Held(r, queue)'
    BY <1>5, <1>8, Zenon DEF Held
  <2>6. e' = Plus(w', Len(line'))
    <3>1. Len(line) \in Int /\ 1 \in Int
      BY <1>0
    <3>2. Plus(Plus(w, Len(line)), 1) = Plus(w, Len(line) + 1)
      BY <1>0, <3>1, PlusPlus, Zenon
    <3>3. QED
      BY <1>1, <1>8, <2>1, <3>2, Zenon DEF Ring
  <2>7. Len(queue') + Len(line') <= INPUT_BUF_SIZE
    BY <1>0, <1>2, <1>8, <2>1, Sizes
  <2>8. w' = Plus(r', Len(queue'))
    BY <1>8, <2>2, Zenon
  <2>9. Ring'
    BY <2>4, <2>5, <2>6, <2>7, <2>8, Zenon DEF Ring
  <2>10. QED
    BY <1>0, <1>2, <1>3, <1>8, <2>1, <2>9, Zenon
<1>9. QED
  BY <1>7, <1>8, Zenon DEF StoreChar

\* Equal indices mean that nothing is there to read.
LEMMA EmptyQueue ==
  ASSUME InTypes, Ring, r = w
  PROVE  Len(queue) = 0
<1>1. Plus(w, -r) = Len(queue) /\ r \in Int
  BY Lengths, Distances, Zenon
<1>2. r + (-r) = 0 /\ 0 % CharWrap = 0
  BY <1>1, Sizes
<1>3. QED
  BY <1>1, <1>2, Zenon DEF Plus

\* The loop of consoleread(): whoever is still asleep found nothing, and nobody
\* goes to sleep before the buffer is empty.
LEMMA ReadStep ==
  ASSUME InInv, NEW p \in Readers, NEW n \in Int, NEW target \in Int, ReadLoop(p, n, target)
  PROVE  InInv'
<1>1. /\ InTypes /\ Ring /\ \A q \in Readers : reader[q].pc = "asleep" => r = w
      /\ reader \in [Readers -> ReaderStates]
  BY Zenon DEF InInv, InTypes
<1>2. Available = Len(queue) /\ Len(queue) \in Nat
  BY <1>1, Distances, Lengths, Zenon DEF Available
<1>3. UNCHANGED <<cbuf, w, e, line>>
  BY Zenon DEF ReadLoop
<1>4. InUser \in ReaderStates /\ InUser.pc = "user"
  BY DEF InUser, ReaderStates
<1>5. PICK k \in 0 .. Available :
        \/ k = n /\ Take(k) /\ Leave(p, InUser)
        \/ /\ k < n /\ k = Available /\ Take(k)
           /\ Leave(p, IF reader[p].killed THEN InUser
                       ELSE [pc |-> "asleep", n |-> n - k, target |-> target, killed |-> FALSE])
        \/ /\ k < Available
           /\ Take(IF n - k < target THEN k ELSE k + 1) /\ Leave(p, InUser)
        \/ k < Available /\ Take(k + 1) /\ Leave(p, InUser)
  BY Zenon DEF ReadLoop
<1>6. \E j \in 0 .. Len(queue), next \in ReaderStates :
        Take(j) /\ Leave(p, next) /\ (next.pc = "asleep" => j = Len(queue))
  <2>0. k \in 0 .. Len(queue) /\ k \in Int /\ (k < Available => k + 1 \in 0 .. Len(queue))
    BY <1>2
  <2>1. CASE k = n /\ Take(k) /\ Leave(p, InUser)
    BY <1>4, <2>0, <2>1, Zenon
  <2>2. CASE /\ k < n /\ k = Available /\ Take(k)
             /\ Leave(p, IF reader[p].killed THEN InUser
                         ELSE [pc |-> "asleep", n |-> n - k, target |-> target, killed |-> FALSE])
    <3> DEFINE slept == [pc |-> "asleep", n |-> n - k, target |-> target, killed |-> FALSE]
    <3>1. n - k \in Int
      BY <2>0
    <3>2. slept \in ReaderStates
      BY <3>1, Zenon DEF ReaderStates
    <3> HIDE DEF slept
    <3>3. (IF reader[p].killed THEN InUser ELSE slept) \in ReaderStates
      BY <1>4, <3>2, Zenon
    <3>4. QED
      BY <1>2, <2>0, <2>2, <3>3, Zenon DEF slept
  <2>3. CASE /\ k < Available
             /\ Take(IF n - k < target THEN k ELSE k + 1) /\ Leave(p, InUser)
    <3>1. (IF n - k < target THEN k ELSE k + 1) \in 0 .. Len(queue)
      BY <2>0, <2>3, Zenon
    <3>2. QED
      BY <1>4, <2>3, <3>1, Zenon
  <2>4. CASE k < Available /\ Take(k + 1) /\ Leave(p, InUser)
    BY <1>4, <2>0, <2>4, Zenon
  <2>5. QED
    BY <1>5, <2>1, <2>2, <2>3, <2>4, Zenon
<1>7. PICK j \in 0 .. Len(queue), next \in ReaderStates :
        Take(j) /\ Leave(p, next) /\ (next.pc = "asleep" => j = Len(queue))
  BY <1>6, Zenon
<1>8. Ring' /\ r' \in Indices /\ queue' \in Seq(Chars) /\ (j = Len(queue) => r' = w)
  BY <1>1, <1>3, <1>7, RingTake, Zenon
<1>9. reader' = [reader EXCEPT ![p] = next]
  BY <1>7, Zenon DEF Leave
<1>10. InTypes'
  <2>1. reader' \in [Readers -> ReaderStates]
    BY <1>1, <1>7, <1>9, Zenon
  <2>2. QED
    BY <1>1, <1>3, <1>8, <2>1, Zenon DEF InTypes
<1>11. ASSUME NEW q \in Readers, reader'[q].pc = "asleep" PROVE r' = w'
  <2>1. CASE q = p
    <3>1. reader'[q] = next
      BY <1>1, <1>9, <2>1, Zenon
    <3>2. QED
      BY <1>3, <1>7, <1>8, <1>11, <3>1, Zenon
  <2>2. CASE q # p
    <3>1. reader'[q] = reader[q]
      BY <1>1, <1>9, <2>2, Zenon
    <3>2. r = w
      BY <1>1, <1>11, <3>1, Zenon
    <3>3. Len(queue) = 0
      BY <1>1, <3>2, EmptyQueue, Zenon
    <3>4. j = Len(queue)
      BY <3>3
    <3>5. QED
      BY <1>3, <1>8, <3>4, Zenon
  <2>3. QED
    BY <2>1, <2>2, Zenon
<1>12. QED
  BY <1>8, <1>10, <1>11, Zenon DEF InInv

\* uartgetc() and consoleintr(): erasing stays within the line, and readers are
\* woken when there is something for them.
LEMMA ReceiveStep ==
  ASSUME InInv, intrRx
  PROVE  InInv'
<1>1. /\ InTypes /\ Ring /\ (\A q \in Readers : reader[q].pc = "asleep" => r = w)
      /\ reader \in [Readers -> ReaderStates] /\ r \in Indices /\ w \in Indices
      /\ cbuf \in [Cells -> Chars] /\ queue \in Seq(Chars)
  BY Zenon DEF InInv, InTypes
<1>2. r' = r
  BY Zenon DEF intrRx
<1>3. ASSUME NEW k \in 0 .. Len(line), Erase(k) PROVE InInv'
  <2>1. Ring' /\ e' \in Indices /\ line' \in Seq(Chars)
    BY <1>1, <1>2, <1>3, RingErase, Zenon
  <2>2. UNCHANGED <<cbuf, w, reader, queue>>
    BY <1>3, Zenon DEF Erase
  <2>3. InTypes'
    BY <1>1, <1>2, <2>1, <2>2, Zenon DEF InTypes
  <2>4. QED
    BY <1>1, <1>2, <2>1, <2>2, <2>3, Zenon DEF InInv
<1>4. ASSUME NEW c \in Chars, Fits, StoreChar(c) PROVE InInv'
  <2>1. /\ Ring' /\ cbuf' \in [Cells -> Chars]
        /\ w' \in Indices /\ e' \in Indices /\ queue' \in Seq(Chars) /\ line' \in Seq(Chars)
        /\ \/ reader' = WakeReaders
           \/ reader' = reader /\ w' = w
    BY <1>1, <1>2, <1>4, RingStore, Zenon
  <2>2. CASE reader' = WakeReaders
    <3>1. reader' \in [Readers -> ReaderStates] /\ \A q \in Readers : reader'[q].pc # "asleep"
      BY <1>1, <2>2, Zenon DEF WakeReaders, ReaderStates
    <3>2. InTypes'
      BY <1>1, <1>2, <2>1, <3>1, Zenon DEF InTypes
    <3>3. QED
      BY <2>1, <3>1, <3>2, Zenon DEF InInv
  <2>3. CASE reader' = reader /\ w' = w
    <3>1. InTypes'
      BY <1>1, <1>2, <2>1, <2>3, Zenon DEF InTypes
    <3>2. QED
      BY <1>1, <1>2, <2>1, <2>3, <3>1, Zenon DEF InInv
  <2>4. QED
    BY <2>1, <2>2, <2>3, Zenon
<1>5. PICK c \in Chars :
        CASE c = "^U" -> \E k \in 0 .. Plus(e, -w) : Killed(k) /\ Erase(k) /\ idle' = (k = 0)
          [] c = "^H" -> Erase(IF e = w THEN 0 ELSE 1) /\ idle' = (e = w)
          [] OTHER -> IF Fits THEN StoreChar(c) /\ idle' = FALSE
                      ELSE UNCHANGED <<cbuf, e, w, reader, queue, line, idle>>
  BY Zenon DEF intrRx
<1>6. CASE c = "^U"
  <2>1. PICK k \in 0 .. Plus(e, -w) : Erase(k)
    BY <1>5, <1>6, Zenon
  <2>2. Plus(e, -w) = Len(line)
    BY <1>1, Distances, Zenon
  <2>3. QED
    BY <1>3, <2>1, <2>2, Zenon
<1>7. CASE c = "^H"
  <2>1. Erase(IF e = w THEN 0 ELSE 1)
    BY <1>5, <1>7, Zenon
  <2>2. Len(line) = 0 => e = w
    BY <1>1, PlusZero, Zenon DEF Ring
  <2>3. (IF e = w THEN 0 ELSE 1) \in 0 .. Len(line)
    <3>1. Len(line) \in Nat
      BY <1>1, Lengths, Zenon
    <3>2. QED
      BY <2>2, <3>1
  <2>4. QED
    BY <1>3, <2>1, <2>3, Zenon
<1>8. CASE c # "^U" /\ c # "^H"
  <2>1. IF Fits THEN StoreChar(c) ELSE UNCHANGED <<cbuf, e, w, reader, queue, line>>
    BY <1>5, <1>8, Zenon
  <2>2. CASE Fits
    BY <1>4, <2>1, <2>2, Zenon
  <2>3. CASE ~Fits
    BY <1>2, <2>1, <2>3, Zenon DEF InInv, InTypes, Ring, Held
  <2>4. QED
    BY <2>2, <2>3, Zenon
<1>9. QED
  BY <1>6, <1>7, <1>8, Zenon

\* Every other step leaves the input alone.
LEMMA InStep ==
  ASSUME InInv, [CNext]_rvars
  PROVE  InInv'
<1>0. reader \in [Readers -> ReaderStates]
  BY Zenon DEF InInv, InTypes
<1>1. ASSUME NEW p \in Readers, consoleread(p) PROVE InInv'
  <2>1. PICK n \in 1 .. MaxRead : ReadLoop(p, n, n)
    BY <1>1, Zenon DEF consoleread
  <2>2. n \in Int
    OBVIOUS
  <2>3. QED
    BY <2>1, <2>2, ReadStep, Zenon
<1>2. ASSUME NEW p \in Readers, readWoken(p) PROVE InInv'
  <2>1. reader[p].n \in Int /\ reader[p].target \in Int
    BY <1>0, Zenon DEF ReaderStates
  <2>2. QED
    BY <1>2, <2>1, ReadStep, Zenon DEF readWoken
<1>3. ASSUME NEW p \in Readers, readKill(p) PROVE InInv'
  <2>1. PICK pc \in {reader[p].pc, "woken"} :
          reader' = [reader EXCEPT ![p] = [reader[p] EXCEPT !.pc = pc, !.killed = TRUE]]
    BY <1>3, Zenon DEF readKill
  <2>2. UNCHANGED <<cbuf, r, w, e, queue, line>>
    BY <1>3, Zenon DEF readKill
  <2> DEFINE s == [reader[p] EXCEPT !.pc = pc, !.killed = TRUE]
  <2>3. s \in ReaderStates /\ s.pc = pc
    BY <1>0, Zenon DEF ReaderStates
  <2>4. reader' = [reader EXCEPT ![p] = s]
    BY <2>1, Zenon
  <2> HIDE DEF s
  <2>5. reader' \in [Readers -> ReaderStates]
    BY <1>0, <2>3, <2>4, Zenon
  <2>6. ASSUME NEW q \in Readers, reader'[q].pc = "asleep" PROVE reader[q].pc = "asleep"
    BY <1>0, <2>3, <2>4, <2>6, Zenon
  <2>7. InTypes' /\ Ring'
    BY <2>2, <2>5, Zenon DEF InInv, InTypes, Ring, Held
  <2>8. QED
    BY <2>2, <2>6, <2>7, Zenon DEF InInv
<1>4. CASE UNCHANGED cvars
  BY <1>4, Zenon DEF cvars, InInv, InTypes, Ring, Held
<1>5. ASSUME NEW p \in Writers, consolewrite(p) \/ writeWoken(p) PROVE UNCHANGED cvars
  BY <1>5, Zenon DEF consolewrite, writeWoken, Send
<1>6. ASSUME intrClaim \/ intrTx \/ intrDone \/ Transmit \/ Receive PROVE UNCHANGED cvars
  BY <1>6, Zenon DEF intrClaim, intrTx, intrDone, Transmit, Receive
<1>7. CASE UNCHANGED rvars
  BY <1>4, <1>7, Zenon DEF rvars
<1>8. QED
  BY <1>1, <1>2, <1>3, <1>4, <1>5, <1>6, <1>7, ReceiveStep, Zenon DEF CNext

\* For any number of readers, any size of the buffer and any width of its
\* indices that is a multiple of it: what consoleread() returns is what was
\* typed and not erased, in order, and no reader sleeps on a buffer that has
\* something for it.
THEOREM InputKept == CSpec => []InputInOrder
<1>1. CInit => InInv
  <2> SUFFICES ASSUME CInit PROVE InInv
    OBVIOUS
  <2>1. InUser \in ReaderStates /\ InUser.pc = "user"
    BY DEF InUser, ReaderStates
  <2>2. /\ queue = <<>> /\ line = <<>> /\ r = 0 /\ w = 0 /\ e = 0
        /\ Len(queue) = 0 /\ Len(line) = 0
    BY Zenon DEF CInit
  <2>3. 0 \in Indices /\ Plus(0, 0) = 0
    BY Sizes, PlusZero DEF Indices
  <2>4. InTypes
    BY <2>1, <2>2, <2>3 DEF CInit, InTypes, Cells, Chars
  <2>5. Ring
    BY <2>2, <2>3, Sizes DEF Ring, Held
  <2>6. QED
    BY <2>2, <2>4, <2>5, Zenon DEF InInv
<1>2. InInv /\ [CNext]_rvars => InInv'
  BY InStep, Zenon
<1>3. InInv => InputInOrder
  BY Distances, Zenon DEF InInv, Ring, InputInOrder
<1>4. QED
  BY <1>1, <1>2, <1>3, PTL DEF CSpec

-----------------------------------------------------------------------------
(* The transmitter *)

WriterStates == [pc : {"user", "asleep", "woken"}, n : Int]

\* The inductive invariant of uartwrite() and uartintr().
OutInv ==
  /\ tx_busy \in BOOLEAN /\ idle \in BOOLEAN /\ tx_irq \in BOOLEAN
  /\ writer \in [Writers -> WriterStates]
  /\ TransmitGoesOn

\* A character that is sent makes the transmitter busy.
LEMMA SendStep ==
  ASSUME OutInv, NEW p \in Writers, NEW n \in Int, Send(p, n)
  PROVE  OutInv'
<1> DEFINE left == IF tx_busy THEN n ELSE n - 1
           s == [pc |-> IF left = 0 THEN "user" ELSE "asleep", n |-> left]
<1>1. /\ idle' = (idle /\ tx_busy) /\ tx_busy' = TRUE /\ UNCHANGED <<tx_irq, hpc>>
      /\ writer' = [writer EXCEPT ![p] = s]
  BY Zenon DEF Send
<1>2. left \in Int
  OBVIOUS
<1>3. s \in WriterStates
  BY <1>2, Zenon DEF WriterStates
<1> HIDE DEF s
<1>4. writer' \in [Writers -> WriterStates]
  BY <1>1, <1>3, Zenon DEF OutInv
<1>5. TransmitGoesOn'
  BY <1>1, Zenon DEF OutInv, TransmitGoesOn
<1>6. QED
  BY <1>1, <1>4, <1>5, Zenon DEF OutInv

LEMMA OutStep ==
  ASSUME OutInv, [CNext]_rvars
  PROVE  OutInv'
<1>1. ASSUME NEW p \in Writers, consolewrite(p) PROVE OutInv'
  <2>1. PICK n \in 1 .. 2 : Send(p, n)
    BY <1>1, Zenon DEF consolewrite
  <2>2. QED
    BY <2>1, SendStep
<1>2. ASSUME NEW p \in Writers, writeWoken(p) PROVE OutInv'
  <2>1. writer[p].n \in Int
    BY Zenon DEF OutInv, WriterStates
  <2>2. QED
    BY <1>2, <2>1, SendStep, Zenon DEF writeWoken
<1>3. CASE intrClaim
  <2>1. UNCHANGED <<tx_busy, writer, idle>> /\ tx_irq' = FALSE /\ hpc' = "tx"
    BY <1>3, Zenon DEF intrClaim, uvars
  <2>2. QED
    BY <2>1, Zenon DEF OutInv, TransmitGoesOn
<1>4. CASE intrTx
  <2>1. CASE idle
    <3>1. Sent /\ UNCHANGED <<idle, tx_irq>>
      BY <1>4, <2>1, Zenon DEF intrTx
    <3>2. writer' \in [Writers -> WriterStates] /\ \A p \in Writers : writer'[p].pc # "asleep"
      BY <3>1, Zenon DEF Sent, OutInv, WriterStates
    <3>3. tx_busy' = FALSE
      BY <3>1, Zenon DEF Sent
    <3>4. QED
      BY <3>1, <3>2, <3>3, Zenon DEF OutInv, TransmitGoesOn
  <2>2. CASE ~idle
    BY <1>4, <2>2, Zenon DEF intrTx, OutInv, TransmitGoesOn
  <2>3. QED
    BY <2>1, <2>2, Zenon
<1>5. CASE intrRx
  <2>1. UNCHANGED <<tx_busy, writer, tx_irq, hpc>> /\ hpc = "rx" /\ idle
    BY <1>5, Zenon DEF intrRx, uvars
  <2>2. idle' \in BOOLEAN
    BY <1>5, <2>1, Zenon DEF intrRx
  <2>3. QED
    BY <2>1, <2>2, Zenon DEF OutInv, TransmitGoesOn
<1>6. CASE intrDone
  BY <1>6, Zenon DEF intrDone, uvars, OutInv, TransmitGoesOn
<1>7. CASE Transmit
  <2>1. idle' = TRUE /\ tx_irq' = TRUE /\ UNCHANGED <<tx_busy, writer>>
    BY <1>7, Zenon DEF Transmit, uvars
  <2>2. QED
    BY <2>1, Zenon DEF OutInv, TransmitGoesOn
<1>8. CASE UNCHANGED <<uvars, idle, tx_irq, hpc>>
  BY <1>8, Zenon DEF uvars, OutInv, TransmitGoesOn
<1>9. ASSUME NEW p \in Readers, consoleread(p) \/ readWoken(p) \/ readKill(p)
      PROVE  UNCHANGED <<uvars, idle, tx_irq, hpc>>
  BY <1>9, Zenon DEF consoleread, readWoken, readKill, ReadLoop
<1>10. ASSUME Receive PROVE UNCHANGED <<uvars, idle, tx_irq, hpc>>
  BY <1>10, Zenon DEF Receive
<1>11. CASE UNCHANGED rvars
  BY <1>8, <1>11, Zenon DEF rvars
<1>12. QED
  BY <1>1, <1>2, <1>3, <1>4, <1>5, <1>6, <1>7, <1>8, <1>9, <1>10, <1>11, Zenon DEF CNext

\* For any number of writers: while one sleeps in uartwrite(), the UART is still
\* sending, or asks for the interrupt whose handler wakes it, or the handler
\* has yet to look, whatever is echoed meanwhile.
THEOREM WritersWoken == CSpec => []TransmitGoesOn
<1>1. CInit => OutInv
  <2> SUFFICES ASSUME CInit PROVE OutInv
    OBVIOUS
  <2>1. /\ tx_busy = FALSE /\ idle = TRUE /\ tx_irq = FALSE
        /\ writer = [p \in Writers |-> [pc |-> "user", n |-> 0]]
    BY Zenon DEF CInit
  <2>2. writer \in [Writers -> WriterStates] /\ \A p \in Writers : writer[p].pc # "asleep"
    BY <2>1 DEF WriterStates
  <2>3. QED
    BY <2>1, <2>2, Zenon DEF OutInv, TransmitGoesOn
<1>2. OutInv /\ [CNext]_rvars => OutInv'
  BY OutStep, Zenon
<1>3. OutInv => TransmitGoesOn
  BY Zenon DEF OutInv
<1>4. QED
  BY <1>1, <1>2, <1>3, PTL DEF CSpec
-----------------------------------------------------------------------------
(* The clock *)

LEMMA ModBelow ==
  ASSUME NEW m \in Nat, NEW x \in Int, x < 0, 0 <= x + m
  PROVE  x % m = x + m
OBVIOUS

\* The distance of two readings of the counter grows by one when the counter
\* goes on by one, up to a whole turn.
LEMMA DistanceStep ==
  ASSUME NEW m \in Nat \ {0}, NEW a \in 0 .. m - 1, NEW b \in 0 .. m - 1,
         (a - b) % m < m - 1
  PROVE  /\ (a + 1) % m \in 0 .. m - 1
         /\ (((a + 1) % m) - b) % m = ((a - b) % m) + 1
<1>1. CASE a + 1 < m
  <2>1. (a + 1) % m = a + 1
    BY <1>1, ModSmall
  <2>2. CASE b <= a
    <3>1. (a - b) % m = a - b
      BY <2>2, ModSmall
    <3>2. (a + 1 - b) % m = a + 1 - b
      BY <1>1, <2>2, ModSmall
    <3>3. QED
      BY <1>1, <2>1, <3>1, <3>2
  <2>3. CASE a < b
    <3>1. (a - b) % m = a - b + m
      BY <2>3, ModBelow
    <3>2. a + 1 < b
      BY <2>3, <3>1
    <3>3. (a + 1 - b) % m = a + 1 - b + m
      BY <3>2, ModBelow
    <3>4. QED
      BY <1>1, <2>1, <3>1, <3>3
  <2>4. QED
    BY <2>2, <2>3
<1>2. CASE a + 1 = m
  <2>1. (a + 1) % m = 0
    BY <1>2
  <2>2. (a - b) % m = a - b
    BY <1>2, ModSmall
  <2>3. b # 0
    BY <1>2, <2>2
  <2>4. (0 - b) % m = 0 - b + m
    BY <2>3, ModBelow
  <2>5. QED
    BY <1>2, <2>1, <2>2, <2>4
<1>3. QED
  BY <1>1, <1>2

TickPcs == {"user", "slept", "asleep", "woken"}

TickTypes ==
  /\ ticks \in 0 .. TickWrap - 1
  /\ sleeper \in [Sleepers -> [pc : TickPcs, n : Nat, ticks0 : Nat, killed : BOOLEAN, ret : Int]]
  /\ elapsed \in [Sleepers -> Nat]

\* Inside a call, the counter tells how many ticks have passed.
Elapsed(p) ==
  /\ sleeper[p].pc \in {"asleep", "woken"} =>
       /\ sleeper[p].ticks0 \in 0 .. TickWrap - 1
       /\ (ticks - sleeper[p].ticks0) % TickWrap = elapsed[p]
  /\ sleeper[p].pc = "slept" => elapsed[p] >= sleeper[p].n
  /\ sleeper[p].pc = "asleep" => elapsed[p] < sleeper[p].n

\* The inductive invariant of clockintr(), sys_pause() and sys_sleep().
TickInv == TickTypes /\ \A p \in Sleepers : Elapsed(p)

\* A step of process p leaves the others alone.
LEMMA OthersSame ==
  ASSUME TickInv, NEW p \in Sleepers, NEW s \in [pc : TickPcs, n : Nat, ticks0 : Nat, killed : BOOLEAN, ret : Int],
         sleeper' = [sleeper EXCEPT ![p] = s], NEW el \in Nat,
         elapsed' = [elapsed EXCEPT ![p] = el], ticks' = ticks,
         /\ s.pc \in {"asleep", "woken"} =>
              s.ticks0 \in 0 .. TickWrap - 1 /\ (ticks - s.ticks0) % TickWrap = el
         /\ s.pc = "slept" => el >= s.n
         /\ s.pc = "asleep" => el < s.n
  PROVE  TickInv'
<1>1. TickTypes'
  BY Zenon DEF TickInv, TickTypes
<1>2. \A q \in Sleepers : sleeper'[q] = (IF q = p THEN s ELSE sleeper[q])
                          /\ elapsed'[q] = (IF q = p THEN el ELSE elapsed[q])
  BY Zenon DEF TickInv, TickTypes
<1>3. ASSUME NEW q \in Sleepers PROVE Elapsed(q)'
  BY <1>2 DEF TickInv, Elapsed
<1>4. QED
  BY <1>1, <1>3, Zenon DEF TickInv

\* The loop sleeps as long as fewer than n ticks have passed.
LEMMA LoopStep ==
  ASSUME TickInv, NEW p \in Sleepers, NEW n \in Nat, NEW t0 \in 0 .. TickWrap - 1,
         NEW killed \in BOOLEAN, TickLoop(p, n, t0, killed), NEW el \in Nat,
         elapsed' = [elapsed EXCEPT ![p] = el], (ticks - t0) % TickWrap = el, ticks' = ticks
  PROVE  TickInv'
<1> DEFINE s == IF ~Waiting(n, t0) THEN [Awake EXCEPT !.pc = "slept", !.n = n]
                ELSE IF killed THEN [Awake EXCEPT !.ret = -1]
                ELSE [pc |-> "asleep", n |-> n, ticks0 |-> t0, killed |-> FALSE, ret |-> 0]
<1>1. sleeper' = [sleeper EXCEPT ![p] = s]
  BY Zenon DEF TickLoop
<1>2. Waiting(n, t0) <=> el < n
  BY Zenon DEF Waiting
<1>3. CASE ~Waiting(n, t0)
  <2>1. s = [pc |-> "slept", n |-> n, ticks0 |-> 0, killed |-> FALSE, ret |-> 0]
    BY <1>3, Zenon DEF Awake
  <2> HIDE DEF s
  <2>2. s \in [pc : TickPcs, n : Nat, ticks0 : Nat, killed : BOOLEAN, ret : Int]
    BY <2>1 DEF TickPcs
  <2>3. s.pc = "slept" /\ s.n = n /\ el >= n
    BY <1>2, <1>3, <2>1
  <2>4. QED
    BY <1>1, <2>2, <2>3, OthersSame, Zenon
<1>4. CASE Waiting(n, t0) /\ killed
  <2>1. s = [pc |-> "user", n |-> 0, ticks0 |-> 0, killed |-> FALSE, ret |-> -1]
    BY <1>4, Zenon DEF Awake
  <2> HIDE DEF s
  <2>2. s \in [pc : TickPcs, n : Nat, ticks0 : Nat, killed : BOOLEAN, ret : Int]
    BY <2>1 DEF TickPcs
  <2>3. QED
    BY <1>1, <2>1, <2>2, OthersSame, Zenon
<1>5. CASE Waiting(n, t0) /\ ~killed
  <2>1. s = [pc |-> "asleep", n |-> n, ticks0 |-> t0, killed |-> FALSE, ret |-> 0]
    BY <1>5, Zenon
  <2> HIDE DEF s
  <2>2. s \in [pc : TickPcs, n : Nat, ticks0 : Nat, killed : BOOLEAN, ret : Int]
    BY <2>1 DEF TickPcs
  <2>3. QED
    BY <1>1, <1>2, <1>5, <2>1, <2>2, OthersSame, Zenon
<1>6. QED
  BY <1>3, <1>4, <1>5, Zenon

\* A call that fails is back in user mode.
LEMMA FailedCall ==
  /\ [Awake EXCEPT !.ret = -1] \in [pc : TickPcs, n : Nat, ticks0 : Nat, killed : BOOLEAN, ret : Int]
  /\ [Awake EXCEPT !.ret = -1].pc = "user"
<1>1. \A x \in Int : /\ [Awake EXCEPT !.ret = x] \in
                           [pc : TickPcs, n : Nat, ticks0 : Nat, killed : BOOLEAN, ret : Int]
                      /\ [Awake EXCEPT !.ret = x].pc = "user"
  BY Zenon DEF Awake, TickPcs
<1>2. -1 \in Int
  OBVIOUS
<1>3. QED
  BY <1>1, <1>2, Zenon

LEMMA ClockStep ==
  ASSUME TickInv, clockintr
  PROVE  TickInv'
<1> USE TicksAssumption
<1>1. ticks' \in 0 .. TickWrap - 1
  BY DEF TickInv, TickTypes, clockintr
<1>2. ASSUME NEW p \in Sleepers
      PROVE  /\ sleeper'[p] \in [pc : TickPcs, n : Nat, ticks0 : Nat, killed : BOOLEAN, ret : Int]
             /\ sleeper'[p].n = sleeper[p].n /\ sleeper'[p].ticks0 = sleeper[p].ticks0
             /\ sleeper'[p].pc = IF sleeper[p].pc = "asleep" THEN "woken" ELSE sleeper[p].pc
             /\ elapsed'[p] = IF sleeper[p].pc \in {"asleep", "woken"} THEN elapsed[p] + 1 ELSE elapsed[p]
  BY Zenon DEF TickInv, TickTypes, TickPcs, clockintr
<1>3. TickTypes'
  <2>1. elapsed' \in [Sleepers -> Nat]
    BY DEF TickInv, TickTypes, clockintr
  <2>2. sleeper' \in [Sleepers -> [pc : TickPcs, n : Nat, ticks0 : Nat, killed : BOOLEAN, ret : Int]]
    BY <1>2, Zenon DEF clockintr
  <2>3. QED
    BY <1>1, <2>1, <2>2, Zenon DEF TickTypes
<1>4. ASSUME NEW p \in Sleepers PROVE Elapsed(p)'
  <2>1. CASE sleeper[p].pc \in {"asleep", "woken"}
    <3>1. /\ ticks \in 0 .. TickWrap - 1 /\ sleeper[p].ticks0 \in 0 .. TickWrap - 1
          /\ (ticks - sleeper[p].ticks0) % TickWrap = elapsed[p]
          /\ elapsed[p] < TickWrap - 1 /\ ticks' = (ticks + 1) % TickWrap
      BY <2>1, Zenon DEF TickInv, TickTypes, Elapsed, clockintr
    <3>2. (ticks' - sleeper[p].ticks0) % TickWrap = elapsed[p] + 1
      BY <3>1, DistanceStep, Zenon
    <3>3. sleeper'[p].pc = "woken" /\ elapsed'[p] = elapsed[p] + 1 /\ sleeper'[p].ticks0 = sleeper[p].ticks0
      BY <1>2, <2>1, Zenon
    <3>4. QED
      BY <3>1, <3>2, <3>3, Zenon DEF Elapsed
  <2>2. CASE sleeper[p].pc \notin {"asleep", "woken"}
    BY <1>2, <2>2, Zenon DEF TickInv, Elapsed
  <2>3. QED
    BY <2>1, <2>2, Zenon
<1>5. QED
  BY <1>3, <1>4, Zenon DEF TickInv

LEMMA TickStep ==
  ASSUME TickInv, [TNext]_tvars
  PROVE  TickInv'
<1> USE TicksAssumption
<1>1. CASE clockintr
  BY <1>1, ClockStep, Zenon
<1>0. ticks \in 0 .. TickWrap - 1 /\ (ticks - ticks) % TickWrap = 0 /\ 0 \in Nat /\ FALSE \in BOOLEAN
  BY DEF TickInv, TickTypes
<1>2. ASSUME NEW p \in Sleepers, sys_pause(p) PROVE TickInv'
  <2>1. PICK k \in -1 .. MaxSleep : TickLoop(p, IF k < 0 THEN 0 ELSE k, ticks, FALSE)
    BY <1>2, Zenon DEF sys_pause
  <2> DEFINE n == IF k < 0 THEN 0 ELSE k
  <2>0. n \in Nat
    OBVIOUS
  <2>2. TickLoop(p, n, ticks, FALSE)
    BY <2>1, Zenon
  <2> HIDE DEF n
  <2>3. elapsed' = [elapsed EXCEPT ![p] = 0] /\ ticks' = ticks
    BY <1>2, Zenon DEF sys_pause
  <2>4. QED
    BY <1>0, <2>0, <2>2, <2>3, LoopStep, Zenon
<1>3. ASSUME NEW p \in Sleepers, sys_sleep(p) PROVE TickInv'
  <2>1. PICK n \in -1 .. MaxSleep :
          IF n < 0 THEN sleeper' = [sleeper EXCEPT ![p] = [Awake EXCEPT !.ret = -1]]
          ELSE TickLoop(p, n, ticks, FALSE)
    BY <1>3, Zenon DEF sys_sleep
  <2>2. elapsed' = [elapsed EXCEPT ![p] = 0] /\ ticks' = ticks
    BY <1>3, Zenon DEF sys_sleep
  <2>3. CASE n < 0
    <3> DEFINE s == [Awake EXCEPT !.ret = -1]
    <3>1. s \in [pc : TickPcs, n : Nat, ticks0 : Nat, killed : BOOLEAN, ret : Int] /\ s.pc = "user"
      BY FailedCall, Zenon
    <3>2. sleeper' = [sleeper EXCEPT ![p] = s]
      BY <2>1, <2>3, Zenon
    <3> HIDE DEF s
    <3>3. QED
      BY <1>0, <2>2, <3>1, <3>2, OthersSame, Zenon
  <2>4. CASE ~(n < 0)
    <3>1. n \in Nat
      BY <2>4
    <3>2. TickLoop(p, n, ticks, FALSE)
      BY <2>1, <2>4, Zenon
    <3>3. QED
      BY <1>0, <2>2, <3>1, <3>2, LoopStep, Zenon
  <2>5. QED
    BY <2>3, <2>4, Zenon
<1>4. ASSUME NEW p \in Sleepers, tickWoken(p) PROVE TickInv'
  <2>1. /\ sleeper[p].n \in Nat /\ sleeper[p].killed \in BOOLEAN /\ elapsed[p] \in Nat
        /\ sleeper[p].ticks0 \in 0 .. TickWrap - 1
        /\ (ticks - sleeper[p].ticks0) % TickWrap = elapsed[p]
    BY <1>4, Zenon DEF TickInv, TickTypes, Elapsed, tickWoken
  <2>2. elapsed' = [elapsed EXCEPT ![p] = elapsed[p]] /\ ticks' = ticks
    BY <1>4, Zenon DEF TickInv, TickTypes, tickWoken
  <2>3. TickLoop(p, sleeper[p].n, sleeper[p].ticks0, sleeper[p].killed)
    BY <1>4, Zenon DEF tickWoken
  <2>4. QED
    BY <2>1, <2>2, <2>3, LoopStep, Zenon
<1>5. ASSUME NEW p \in Sleepers, tickReturn(p) PROVE TickInv'
  <2>1. Awake \in [pc : TickPcs, n : Nat, ticks0 : Nat, killed : BOOLEAN, ret : Int] /\ Awake.pc = "user"
    BY DEF Awake, TickPcs
  <2>2. elapsed' = [elapsed EXCEPT ![p] = elapsed[p]] /\ ticks' = ticks /\ elapsed[p] \in Nat
    BY <1>5, Zenon DEF TickInv, TickTypes, tickReturn
  <2>3. sleeper' = [sleeper EXCEPT ![p] = Awake]
    BY <1>5, Zenon DEF tickReturn
  <2>4. QED
    BY <2>1, <2>2, <2>3, OthersSame, Zenon
<1>6. ASSUME NEW p \in Sleepers, tickKill(p) PROVE TickInv'
  <2>1. PICK pc \in {sleeper[p].pc, "woken"} :
          sleeper' = [sleeper EXCEPT ![p] = [@ EXCEPT !.pc = pc, !.killed = TRUE]]
    BY <1>6, Zenon DEF tickKill
  <2> DEFINE s == [sleeper[p] EXCEPT !.pc = pc, !.killed = TRUE]
  <2>2. sleeper[p].pc \in {"asleep", "woken"} /\ ticks' = ticks
    BY <1>6, Zenon DEF tickKill
  <2>3. sleeper[p] \in [pc : TickPcs, n : Nat, ticks0 : Nat, killed : BOOLEAN, ret : Int] /\ elapsed[p] \in Nat
    BY Zenon DEF TickInv, TickTypes
  <2>4. /\ s \in [pc : TickPcs, n : Nat, ticks0 : Nat, killed : BOOLEAN, ret : Int]
        /\ s.pc = pc /\ s.n = sleeper[p].n /\ s.ticks0 = sleeper[p].ticks0
    BY <2>2, <2>3, Zenon DEF TickPcs
  <2>5. sleeper' = [sleeper EXCEPT ![p] = s]
    BY <2>1, Zenon DEF TickInv, TickTypes
  <2>6. elapsed' = [elapsed EXCEPT ![p] = elapsed[p]]
    BY <1>6, Zenon DEF TickInv, TickTypes, tickKill
  <2> HIDE DEF s
  <2>7. Elapsed(p)
    BY Zenon DEF TickInv
  <2>8. QED
    BY <2>2, <2>3, <2>4, <2>5, <2>6, <2>7, OthersSame, Zenon DEF Elapsed
<1>7. CASE UNCHANGED tvars
  BY <1>7, Zenon DEF tvars, TickInv, TickTypes, Elapsed
<1>8. QED
  BY <1>1, <1>2, <1>3, <1>4, <1>5, <1>6, <1>7, Zenon DEF TNext

\* pause() and sleep() return after the number of ticks they were asked for and
\* not before, for any number of processes, wherever the counter wraps.
THEOREM SleepsExactly == TSpec => []SleepsItsTicks
<1>1. TInit => TickInv
  <2> SUFFICES ASSUME TInit PROVE TickInv
    OBVIOUS
  <2>1. Awake \in [pc : TickPcs, n : Nat, ticks0 : Nat, killed : BOOLEAN, ret : Int] /\ Awake.pc = "user"
    BY DEF Awake, TickPcs
  <2>2. TickTypes
    BY <2>1, TicksAssumption DEF TInit, TickTypes
  <2>3. \A p \in Sleepers : sleeper[p].pc = "user"
    BY <2>1, Zenon DEF TInit
  <2>4. QED
    BY <2>2, <2>3, Zenon DEF TickInv, Elapsed
<1>2. TickInv /\ [TNext]_tvars => TickInv'
  BY TickStep, Zenon
<1>3. TickInv => SleepsItsTicks
  BY Zenon DEF TickInv, Elapsed, SleepsItsTicks
<1>4. QED
  BY <1>1, <1>2, <1>3, PTL DEF TSpec

-----------------------------------------------------------------------------
(* The buffer cache *)

Holding == {"fill", "use", "unpin"}
Pcs == {"idle", "lock", "woken", "asleep", "put", "panic"} \cup Holding

Types ==
  /\ disk \in [Blocks -> Vals] /\ last \in [Blocks -> Vals]
  /\ blockno \in [Bufs -> Blocks \cup {NoBlock}]
  /\ valid \in [Bufs -> BOOLEAN]
  /\ refcnt \in [Bufs -> Int]
  /\ data \in [Bufs -> Vals]
  /\ lru \in [1 .. Cardinality(Bufs) -> Bufs]
  /\ holder \in [Bufs -> Procs \cup {NoProc}]
  /\ pinned \in SUBSET Bufs
  /\ ppc \in [Procs -> Pcs]
  /\ buf \in [Procs -> Bufs \cup {NoBuf}]

\* A process refers to a buffer from bget() to the end of brelse().
Refers(p) ==
  IF ppc[p] \in {"idle", "panic"} THEN buf[p] = NoBuf
  ELSE buf[p] \in Bufs /\ blockno[buf[p]] \in Blocks

Users(b) == {p \in Procs : buf[p] = b}

\* refcnt counts the processes that refer to a buffer, and the log.
Counted(b) ==
  /\ b \in pinned => refcnt[b] = Cardinality(Users(b)) + 1
  /\ b \notin pinned => refcnt[b] = Cardinality(Users(b))

\* A block is in one buffer at most.
OneBuffer ==
  \A a, b \in Bufs : blockno[a] = blockno[b] /\ blockno[a] \in Blocks => a = b

\* The holder of the sleep-lock of a buffer is the process that works on it.
Locks ==
  \A p \in Procs : \A b \in Bufs : holder[b] = p <=> ppc[p] \in Holding /\ buf[p] = b

\* A valid buffer holds what its block was last given; the block on the disk
\* is older only while the log has it pinned.
Current ==
  /\ \A b \in Bufs : valid[b] => blockno[b] \in Blocks /\ data[b] = last[blockno[b]]
  /\ \A b \in pinned : valid[b]
  /\ \A p \in Procs : ppc[p] \in {"use", "unpin"} => valid[buf[p]]
  /\ \A n \in Blocks : (\A b \in pinned : blockno[b] # n) => disk[n] = last[n]

\* bunpin() follows the write of the block.
Written ==
  \A p \in Procs :
    ppc[p] = "unpin" => /\ buf[p] \in pinned
                       /\ disk[blockno[buf[p]]] = last[blockno[buf[p]]]

\* The inductive invariant.
IInv ==
  /\ Types
  /\ \A p \in Procs : Refers(p)
  /\ \A b \in Bufs : Counted(b)
  /\ OneBuffer /\ Locks /\ Current /\ Written /\ SleepersMustWait

-----------------------------------------------------------------------------
LEMMA InitInv ==
  ASSUME BInit
  PROVE  IInv
<1> USE BioAssumption DEF BInit
<1>1. Types
  BY DEF Types, Pcs
<1>2. \A p \in Procs : Refers(p)
  BY Zenon DEF Refers
<1>3. ASSUME NEW b \in Bufs PROVE Counted(b)
  <2>1. Users(b) = {}
    BY Zenon DEF Users
  <2>2. QED
    BY <2>1, FS_EmptySet, Zenon DEF Counted
<1>4. OneBuffer /\ Locks /\ Current /\ Written /\ SleepersMustWait
  BY Zenon DEF OneBuffer, Locks, Current, Written, SleepersMustWait, Holding
<1>5. QED
  BY <1>1, <1>2, <1>3, <1>4, Zenon DEF IInv

-----------------------------------------------------------------------------
(* The steps, one for each way that an operation can go *)

\* bget() finds the block in buffer b.
GetHit(p, n, b) ==
  /\ ppc[p] = "idle" /\ blockno[b] = n
  /\ refcnt' = [refcnt EXCEPT ![b] = @ + 1]
  /\ buf' = [buf EXCEPT ![p] = b] /\ Goto(p, "lock")
  /\ UNCHANGED <<disk, blockno, valid, data, lru, holder, pinned, last>>

\* bget() takes buffer b, to which nobody refers.
GetVictim(p, n, b) ==
  /\ ppc[p] = "idle" /\ refcnt[b] = 0 /\ \A a \in Bufs : blockno[a] # n
  /\ blockno' = [blockno EXCEPT ![b] = n]
  /\ valid' = [valid EXCEPT ![b] = FALSE]
  /\ refcnt' = [refcnt EXCEPT ![b] = 1]
  /\ buf' = [buf EXCEPT ![p] = b] /\ Goto(p, "lock")
  /\ UNCHANGED <<disk, data, lru, holder, pinned, last>>

GetPanic(p) ==
  /\ ppc[p] = "idle" /\ Goto(p, "panic")
  /\ UNCHANGED <<disk, bufs, buf, last>>

\* acquiresleep() finds the lock taken, or takes it.
Sleep(p) ==
  /\ ppc[p] \in {"lock", "woken"} /\ holder[buf[p]] # NoProc
  /\ Goto(p, "asleep")
  /\ UNCHANGED <<disk, bufs, buf, last>>

GetsLock(p) ==
  /\ ppc[p] \in {"lock", "woken"} /\ holder[buf[p]] = NoProc
  /\ Goto(p, "fill") /\ holder' = [holder EXCEPT ![buf[p]] = p]
  /\ UNCHANGED <<disk, blockno, valid, refcnt, data, lru, pinned, buf, last>>

LEMMA GetIs ==
  ASSUME Types, NEW p \in Procs, NEW n \in Blocks, bget(p, n)
  PROVE  \/ \E b \in Bufs : GetHit(p, n, b) \/ GetVictim(p, n, b)
         \/ GetPanic(p)
<1>0. ppc[p] = "idle" /\ UNCHANGED <<disk, data, lru, holder, pinned, last>>
  BY Zenon DEF bget, At
<1>1. ASSUME NEW b \in Hit(n),
             refcnt' = [refcnt EXCEPT ![b] = @ + 1] /\ buf' = [buf EXCEPT ![p] = b]
               /\ Goto(p, "lock") /\ UNCHANGED <<blockno, valid>>
      PROVE  b \in Bufs /\ GetHit(p, n, b)
  BY <1>0, <1>1, Zenon DEF Hit, GetHit
<1>2. ASSUME Hit(n) = {}, NEW b \in Victim, Recycle(p, b, n)
      PROVE  b \in Bufs /\ GetVictim(p, n, b)
  <2>1. b \in Bufs /\ refcnt[b] = 0
    BY Zenon DEF Victim, Types
  <2>2. \A a \in Bufs : blockno[a] # n
    BY <1>2, Zenon DEF Hit
  <2>3. QED
    BY <1>0, <1>2, <2>1, <2>2, Zenon DEF GetVictim, Recycle
<1>3. ASSUME Goto(p, "panic"), UNCHANGED <<blockno, valid, refcnt, buf>>
      PROVE  GetPanic(p)
  BY <1>0, <1>3, Zenon DEF GetPanic, bufs
<1>4. QED
  BY <1>1, <1>2, <1>3, Zenon DEF bget

LEMMA AcquireIs ==
  ASSUME NEW p \in Procs, acquiresleep(p)
  PROVE  Sleep(p) \/ GetsLock(p)
<1>1. ppc[p] \in {"lock", "woken"}
  BY Zenon DEF acquiresleep, At
<1>2. CASE holder[buf[p]] # NoProc
  BY <1>1, <1>2, Zenon DEF acquiresleep, Sleep, bufs
<1>3. CASE holder[buf[p]] = NoProc
  BY <1>1, <1>3, Zenon DEF acquiresleep, GetsLock
<1>4. QED
  BY <1>2, <1>3, Zenon

\* Between bget() and brelse() a process has a buffer.
LEMMA BufOf ==
  ASSUME IInv, NEW p \in Procs, ppc[p] \notin {"idle", "panic"}
  PROVE  buf[p] \in Bufs /\ blockno[buf[p]] \in Blocks
BY Zenon DEF IInv, Refers

LEMMA MoveToFrontType ==
  ASSUME Types, NEW b \in Bufs
  PROVE  MoveToFront(b) \in [1 .. Cardinality(Bufs) -> Bufs]
<1>1. DOMAIN lru = 1 .. Cardinality(Bufs) /\ \A k \in 1 .. Cardinality(Bufs) : lru[k] \in Bufs
  BY Zenon DEF Types
<1>2. ASSUME NEW k \in 1 .. Cardinality(Bufs), k # 1 PROVE k - 1 \in 1 .. Cardinality(Bufs)
  BY <1>2, FS_CardinalityType, BioAssumption
<1>3. DEFINE i == CHOOSE j \in DOMAIN lru : lru[j] = b
<1> HIDE DEF i
<1>4. [k \in DOMAIN lru |-> IF k = 1 THEN b ELSE IF k <= i THEN lru[k - 1] ELSE lru[k]]
        \in [1 .. Cardinality(Bufs) -> Bufs]
  BY <1>1, <1>2, Zenon
<1>5. QED
  BY <1>4, Zenon DEF MoveToFront, i

LEMMA TypesStep ==
  ASSUME IInv, [BNext]_bvars
  PROVE  Types'
<1> USE DEF IInv, Types, Pcs, Holding
<1>1. ASSUME NEW p \in Procs, NEW n \in Blocks, NEW b \in Bufs, GetHit(p, n, b)
      PROVE  Types'
  BY <1>1 DEF GetHit, Goto
<1>2. ASSUME NEW p \in Procs, NEW n \in Blocks, NEW b \in Bufs, GetVictim(p, n, b)
      PROVE  Types'
  BY <1>2 DEF GetVictim, Goto
<1>3. ASSUME NEW p \in Procs, GetPanic(p) PROVE Types'
  BY <1>3, Zenon DEF GetPanic, Goto, bufs
<1>4. ASSUME NEW p \in Procs, Sleep(p) PROVE Types'
  BY <1>4, Zenon DEF Sleep, Goto, bufs
<1>5. ASSUME NEW p \in Procs, GetsLock(p) PROVE Types'
  BY <1>5, Zenon DEF GetsLock, Goto
<1>6. ASSUME NEW p \in Procs, bread(p) PROVE Types'
  <2>0. /\ ppc[p] = "fill" /\ valid' = [valid EXCEPT ![buf[p]] = TRUE]
        /\ ppc' = [ppc EXCEPT ![p] = "use"]
        /\ UNCHANGED <<disk, blockno, refcnt, lru, holder, pinned, buf, last>>
        /\ data' = [data EXCEPT ![buf[p]] =
              IF valid[buf[p]] THEN data[buf[p]] ELSE disk[blockno[buf[p]]]]
    BY <1>6, Zenon DEF bread, At, Goto
  <2>1. buf[p] \in Bufs /\ blockno[buf[p]] \in Blocks
    BY <2>0, BufOf, Zenon
  <2>2. data' \in [Bufs -> Vals]
    <3>1. CASE valid[buf[p]]
      BY <2>0, <2>1, <3>1, Zenon
    <3>2. CASE ~valid[buf[p]]
      BY <2>0, <2>1, <3>2, Zenon
    <3>3. QED
      BY <3>1, <3>2, Zenon
  <2>3. QED
    BY <2>0, <2>1, <2>2, Zenon
<1>7. ASSUME NEW p \in Procs, NEW v \in Vals, WriteThrough(p, v) PROVE Types'
  BY <1>7, Zenon DEF WriteThrough, At
<1>8. ASSUME NEW p \in Procs, NEW v \in Vals, Update(p, v) PROVE Types'
  <2>0. ppc[p] = "use"
    BY <1>8, Zenon DEF Update, At
  <2>1. buf[p] \in Bufs /\ blockno[buf[p]] \in Blocks
    BY <2>0, BufOf, Zenon
  <2>2. QED
    BY <1>8, <2>1 DEF Update
<1>9. ASSUME NEW p \in Procs, Install(p) PROVE Types'
  BY <1>9, Zenon DEF Install, At, Goto, bufs
<1>10. ASSUME NEW p \in Procs, bunpin(p) PROVE Types'
  <2>0. ppc[p] = "unpin"
    BY <1>10, Zenon DEF bunpin, At
  <2>1. buf[p] \in Bufs /\ blockno[buf[p]] \in Blocks
    BY <2>0, BufOf, Zenon
  <2>2. QED
    BY <1>10, <2>1 DEF bunpin, Goto
<1>11. ASSUME NEW p \in Procs, releasesleep(p) PROVE Types'
  BY <1>11, Zenon DEF releasesleep, At
<1>12. ASSUME NEW p \in Procs, brelse(p) PROVE Types'
  <2>0. ppc[p] = "put"
    BY <1>12, Zenon DEF brelse, At
  <2>1. buf[p] \in Bufs
    BY <2>0, BufOf, Zenon
  <2>2. lru' \in [1 .. Cardinality(Bufs) -> Bufs]
    BY <1>12, <2>1, MoveToFrontType, Zenon DEF brelse
  <2>3. QED
    BY <1>12, <2>1, <2>2 DEF brelse, Goto
<1>13. CASE UNCHANGED bvars
  BY <1>13, Zenon DEF bvars, bufs
<1> HIDE DEF IInv, Types, Pcs, Holding
<1>14. QED
  <2>1. Types
    BY Zenon DEF IInv
  <2>2. ASSUME NEW p \in Procs, NEW n \in Blocks, bget(p, n) PROVE Types'
    BY <1>1, <1>2, <1>3, <2>1, <2>2, GetIs, Zenon
  <2>3. ASSUME NEW p \in Procs, acquiresleep(p) PROVE Types'
    BY <1>4, <1>5, <2>3, AcquireIs, Zenon
  <2>4. QED
    BY <1>6, <1>7, <1>8, <1>9, <1>10, <1>11, <1>12, <1>13, <2>2, <2>3, Zenon DEF BNext, Step

LEMMA RefersStep ==
  ASSUME IInv, Types', [BNext]_bvars
  PROVE  \A o \in Procs : Refers(o)'
<1> USE DEF IInv, Types, Pcs, Holding, Refers
<1>1. ASSUME NEW p \in Procs, NEW n \in Blocks, NEW b \in Bufs, GetHit(p, n, b)
      PROVE  \A o \in Procs : Refers(o)'
  BY <1>1 DEF GetHit, Goto
<1>2. ASSUME NEW p \in Procs, NEW n \in Blocks, NEW b \in Bufs, GetVictim(p, n, b)
      PROVE  \A o \in Procs : Refers(o)'
  BY <1>2 DEF GetVictim, Goto
<1>3. ASSUME NEW p \in Procs, GetPanic(p) PROVE \A o \in Procs : Refers(o)'
  BY <1>3, Zenon DEF GetPanic, Goto, bufs
<1>4. ASSUME NEW p \in Procs, Sleep(p) PROVE \A o \in Procs : Refers(o)'
  BY <1>4, Zenon DEF Sleep, Goto, bufs
<1>5. ASSUME NEW p \in Procs, GetsLock(p) PROVE \A o \in Procs : Refers(o)'
  BY <1>5, Zenon DEF GetsLock, Goto
<1>6. ASSUME NEW p \in Procs, bread(p) PROVE \A o \in Procs : Refers(o)'
  BY <1>6 DEF bread, At, Goto
<1>7. ASSUME NEW p \in Procs, NEW v \in Vals, WriteThrough(p, v)
      PROVE  \A o \in Procs : Refers(o)'
  BY <1>7, Zenon DEF WriteThrough, At
<1>8. ASSUME NEW p \in Procs, NEW v \in Vals, Update(p, v)
      PROVE  \A o \in Procs : Refers(o)'
  BY <1>8, Zenon DEF Update, At
<1>9. ASSUME NEW p \in Procs, Install(p) PROVE \A o \in Procs : Refers(o)'
  BY <1>9, Zenon DEF Install, At, Goto, bufs
<1>10. ASSUME NEW p \in Procs, bunpin(p) PROVE \A o \in Procs : Refers(o)'
  BY <1>10, Zenon DEF bunpin, At, Goto
<1>11. ASSUME NEW p \in Procs, releasesleep(p) PROVE \A o \in Procs : Refers(o)'
  BY <1>11, Zenon DEF releasesleep, At
<1>12. ASSUME NEW p \in Procs, brelse(p) PROVE \A o \in Procs : Refers(o)'
  BY <1>12 DEF brelse, At, Goto
<1>13. CASE UNCHANGED bvars
  BY <1>13, Zenon DEF bvars, bufs
<1> HIDE DEF IInv, Types, Pcs, Holding, Refers
<1>14. QED
  <2>1. Types
    BY Zenon DEF IInv
  <2>2. ASSUME NEW p \in Procs, NEW n \in Blocks, bget(p, n) PROVE \A o \in Procs : Refers(o)'
    BY <1>1, <1>2, <1>3, <2>1, <2>2, GetIs, Zenon
  <2>3. ASSUME NEW p \in Procs, acquiresleep(p) PROVE \A o \in Procs : Refers(o)'
    BY <1>4, <1>5, <2>3, AcquireIs, Zenon
  <2>4. QED
    BY <1>6, <1>7, <1>8, <1>9, <1>10, <1>11, <1>12, <1>13, <2>2, <2>3, Zenon DEF BNext, Step

LEMMA OneBufferStep ==
  ASSUME IInv, Types', [BNext]_bvars
  PROVE  OneBuffer'
<1> USE DEF IInv, Types, OneBuffer
<1>1. ASSUME NEW p \in Procs, NEW n \in Blocks, NEW b \in Bufs, GetHit(p, n, b)
      PROVE  OneBuffer'
  BY <1>1, Zenon DEF GetHit, Goto
<1>2. ASSUME NEW p \in Procs, NEW n \in Blocks, NEW b \in Bufs, GetVictim(p, n, b)
      PROVE  OneBuffer'
  BY <1>2 DEF GetVictim, Goto
<1>3. ASSUME NEW p \in Procs, GetPanic(p) PROVE OneBuffer'
  BY <1>3, Zenon DEF GetPanic, Goto, bufs
<1>4. ASSUME NEW p \in Procs, Sleep(p) PROVE OneBuffer'
  BY <1>4, Zenon DEF Sleep, Goto, bufs
<1>5. ASSUME NEW p \in Procs, GetsLock(p) PROVE OneBuffer'
  BY <1>5, Zenon DEF GetsLock, Goto
<1>6. ASSUME NEW p \in Procs, bread(p) PROVE OneBuffer'
  BY <1>6, Zenon DEF bread, At, Goto
<1>7. ASSUME NEW p \in Procs, NEW v \in Vals, WriteThrough(p, v) PROVE OneBuffer'
  BY <1>7, Zenon DEF WriteThrough, At
<1>8. ASSUME NEW p \in Procs, NEW v \in Vals, Update(p, v) PROVE OneBuffer'
  BY <1>8, Zenon DEF Update, At
<1>9. ASSUME NEW p \in Procs, Install(p) PROVE OneBuffer'
  BY <1>9, Zenon DEF Install, At, Goto, bufs
<1>10. ASSUME NEW p \in Procs, bunpin(p) PROVE OneBuffer'
  BY <1>10, Zenon DEF bunpin, At, Goto
<1>11. ASSUME NEW p \in Procs, releasesleep(p) PROVE OneBuffer'
  BY <1>11, Zenon DEF releasesleep, At
<1>12. ASSUME NEW p \in Procs, brelse(p) PROVE OneBuffer'
  BY <1>12, Zenon DEF brelse, At, Goto
<1>13. CASE UNCHANGED bvars
  BY <1>13, Zenon DEF bvars, bufs
<1> HIDE DEF IInv, Types, OneBuffer
<1>14. QED
  <2>1. Types
    BY Zenon DEF IInv
  <2>2. ASSUME NEW p \in Procs, NEW n \in Blocks, bget(p, n) PROVE OneBuffer'
    BY <1>1, <1>2, <1>3, <2>1, <2>2, GetIs, Zenon
  <2>3. ASSUME NEW p \in Procs, acquiresleep(p) PROVE OneBuffer'
    BY <1>4, <1>5, <2>3, AcquireIs, Zenon
  <2>4. QED
    BY <1>6, <1>7, <1>8, <1>9, <1>10, <1>11, <1>12, <1>13, <2>2, <2>3, Zenon DEF BNext, Step

LEMMA LocksStep ==
  ASSUME IInv, Types', [BNext]_bvars
  PROVE  Locks'
<1> USE BioAssumption DEF IInv, Types, Holding, Pcs, Locks, Refers
<1>1. ASSUME NEW p \in Procs, NEW n \in Blocks, NEW b \in Bufs, GetHit(p, n, b)
      PROVE  Locks'
  BY <1>1 DEF GetHit, Goto
<1>2. ASSUME NEW p \in Procs, NEW n \in Blocks, NEW b \in Bufs, GetVictim(p, n, b)
      PROVE  Locks'
  BY <1>2 DEF GetVictim, Goto
<1>3. ASSUME NEW p \in Procs, GetPanic(p) PROVE Locks'
  BY <1>3 DEF GetPanic, Goto, bufs
<1>4. ASSUME NEW p \in Procs, Sleep(p) PROVE Locks'
  BY <1>4 DEF Sleep, Goto, bufs
<1>5. ASSUME NEW p \in Procs, GetsLock(p) PROVE Locks'
  BY <1>5 DEF GetsLock, Goto
<1>6. ASSUME NEW p \in Procs, bread(p) PROVE Locks'
  BY <1>6 DEF bread, At, Goto
<1>7. ASSUME NEW p \in Procs, NEW v \in Vals, WriteThrough(p, v) PROVE Locks'
  BY <1>7 DEF WriteThrough, At
<1>8. ASSUME NEW p \in Procs, NEW v \in Vals, Update(p, v) PROVE Locks'
  BY <1>8 DEF Update, At
<1>9. ASSUME NEW p \in Procs, Install(p) PROVE Locks'
  BY <1>9 DEF Install, At, Goto, bufs
<1>10. ASSUME NEW p \in Procs, bunpin(p) PROVE Locks'
  BY <1>10 DEF bunpin, At, Goto
<1>11. ASSUME NEW p \in Procs, releasesleep(p) PROVE Locks'
  BY <1>11 DEF releasesleep, At
<1>12. ASSUME NEW p \in Procs, brelse(p) PROVE Locks'
  BY <1>12 DEF brelse, At, Goto
<1>13. CASE UNCHANGED bvars
  BY <1>13, Zenon DEF bvars, bufs
<1> HIDE BioAssumption DEF IInv, Types, Holding, Pcs, Locks, Refers
<1>14. QED
  <2>1. Types
    BY Zenon DEF IInv
  <2>2. ASSUME NEW p \in Procs, NEW n \in Blocks, bget(p, n) PROVE Locks'
    BY <1>1, <1>2, <1>3, <2>1, <2>2, GetIs, Zenon
  <2>3. ASSUME NEW p \in Procs, acquiresleep(p) PROVE Locks'
    BY <1>4, <1>5, <2>3, AcquireIs, Zenon
  <2>4. QED
    BY <1>6, <1>7, <1>8, <1>9, <1>10, <1>11, <1>12, <1>13, <2>2, <2>3, Zenon DEF BNext, Step

LEMMA SleepersStep ==
  ASSUME IInv, Types', [BNext]_bvars
  PROVE  SleepersMustWait'
<1> USE BioAssumption DEF IInv, Types, Holding, Pcs, SleepersMustWait, Refers
<1>1. ASSUME NEW p \in Procs, NEW n \in Blocks, NEW b \in Bufs, GetHit(p, n, b)
      PROVE  SleepersMustWait'
  BY <1>1, Zenon DEF GetHit, Goto
<1>2. ASSUME NEW p \in Procs, NEW n \in Blocks, NEW b \in Bufs, GetVictim(p, n, b)
      PROVE  SleepersMustWait'
  BY <1>2 DEF GetVictim, Goto
<1>3. ASSUME NEW p \in Procs, GetPanic(p) PROVE SleepersMustWait'
  BY <1>3, Zenon DEF GetPanic, Goto, bufs
<1>4. ASSUME NEW p \in Procs, Sleep(p) PROVE SleepersMustWait'
  BY <1>4, Zenon DEF Sleep, Goto, bufs
<1>5. ASSUME NEW p \in Procs, GetsLock(p) PROVE SleepersMustWait'
  BY <1>5 DEF GetsLock, Goto
<1>6. ASSUME NEW p \in Procs, bread(p) PROVE SleepersMustWait'
  BY <1>6 DEF bread, At, Goto
<1>7. ASSUME NEW p \in Procs, NEW v \in Vals, WriteThrough(p, v) PROVE SleepersMustWait'
  BY <1>7, Zenon DEF WriteThrough, At
<1>8. ASSUME NEW p \in Procs, NEW v \in Vals, Update(p, v) PROVE SleepersMustWait'
  BY <1>8, Zenon DEF Update, At
<1>9. ASSUME NEW p \in Procs, Install(p) PROVE SleepersMustWait'
  BY <1>9, Zenon DEF Install, At, Goto, bufs
<1>10. ASSUME NEW p \in Procs, bunpin(p) PROVE SleepersMustWait'
  BY <1>10, Zenon DEF bunpin, At, Goto
<1>11. ASSUME NEW p \in Procs, releasesleep(p) PROVE SleepersMustWait'
  BY <1>11, Zenon DEF releasesleep, At
<1>12. ASSUME NEW p \in Procs, brelse(p) PROVE SleepersMustWait'
  BY <1>12, Zenon DEF brelse, At, Goto
<1>13. CASE UNCHANGED bvars
  BY <1>13, Zenon DEF bvars, bufs
<1> HIDE BioAssumption DEF IInv, Types, Holding, Pcs, SleepersMustWait, Refers
<1>14. QED
  <2>1. Types
    BY Zenon DEF IInv
  <2>2. ASSUME NEW p \in Procs, NEW n \in Blocks, bget(p, n) PROVE SleepersMustWait'
    BY <1>1, <1>2, <1>3, <2>1, <2>2, GetIs, Zenon
  <2>3. ASSUME NEW p \in Procs, acquiresleep(p) PROVE SleepersMustWait'
    BY <1>4, <1>5, <2>3, AcquireIs, Zenon
  <2>4. QED
    BY <1>6, <1>7, <1>8, <1>9, <1>10, <1>11, <1>12, <1>13, <2>2, <2>3, Zenon DEF BNext, Step

LEMMA UsersFinite ==
  ASSUME NEW b
  PROVE  IsFiniteSet(Users(b)) /\ Cardinality(Users(b)) \in Nat
<1>1. Users(b) \in SUBSET Procs
  BY Zenon DEF Users
<1>2. QED
  BY <1>1, FS_Subset, FS_CardinalityType, BioAssumption, Zenon

\* A process gets a buffer, or gives it back.
LEMMA UserAdded ==
  ASSUME Types, NEW p \in Procs, NEW b \in Bufs,
         buf[p] = NoBuf, buf' = [buf EXCEPT ![p] = b]
  PROVE  /\ Cardinality(Users(b)') = Cardinality(Users(b)) + 1
         /\ \A a \in Bufs \ {b} : Users(a)' = Users(a)
<1>1. Users(b)' = Users(b) \cup {p} /\ p \notin Users(b)
  BY BioAssumption DEF Users, Types
<1>2. Cardinality(Users(b)') = Cardinality(Users(b)) + 1
  BY <1>1, UsersFinite, FS_AddElement, Zenon
<1>3. \A a \in Bufs \ {b} : Users(a)' = Users(a)
  BY BioAssumption, Zenon DEF Users, Types
<1>4. QED
  BY <1>2, <1>3, Zenon

LEMMA UserRemoved ==
  ASSUME Types, NEW p \in Procs, NEW b \in Bufs,
         buf[p] = b, buf' = [buf EXCEPT ![p] = NoBuf]
  PROVE  /\ Cardinality(Users(b)') = Cardinality(Users(b)) - 1
         /\ \A a \in Bufs \ {b} : Users(a)' = Users(a)
<1>1. Users(b)' = Users(b) \ {p} /\ p \in Users(b)
  BY BioAssumption, Zenon DEF Users, Types
<1>2. Cardinality(Users(b)') = Cardinality(Users(b)) - 1
  BY <1>1, UsersFinite, FS_RemoveElement, Zenon
<1>3. \A a \in Bufs \ {b} : Users(a)' = Users(a)
  BY BioAssumption, Zenon DEF Users, Types
<1>4. QED
  BY <1>2, <1>3, Zenon

\* Nobody refers to a buffer that bget() takes away from its block.
LEMMA VictimFree ==
  ASSUME IInv, NEW b \in Bufs, refcnt[b] = 0
  PROVE  b \notin pinned /\ (\A q \in Procs : buf[q] # b) /\ Cardinality(Users(b)) = 0
<1>1. Counted(b)
  BY Zenon DEF IInv
<1>2. b \notin pinned /\ Cardinality(Users(b)) = 0
  BY <1>1, UsersFinite DEF Counted
<1>3. Users(b) = {}
  BY <1>2, UsersFinite, FS_EmptySet, Zenon
<1>4. QED
  BY <1>2, <1>3, Zenon DEF Users

LEMMA CountedStep ==
  ASSUME IInv, Types', [BNext]_bvars
  PROVE  \A c \in Bufs : Counted(c)'
<1> USE DEF IInv, Types, Counted
<1>1. ASSUME NEW p \in Procs, NEW n \in Blocks, NEW b \in Bufs, GetHit(p, n, b)
      PROVE  \A c \in Bufs : Counted(c)'
  <2>1. buf[p] = NoBuf
    BY <1>1, Zenon DEF GetHit, Refers
  <2>2. /\ Cardinality(Users(b)') = Cardinality(Users(b)) + 1
        /\ \A a \in Bufs \ {b} : Users(a)' = Users(a)
    BY <1>1, <2>1, UserAdded, Zenon DEF GetHit
  <2>3. QED
    BY <1>1, <2>2, UsersFinite, Zenon DEF GetHit
<1>2. ASSUME NEW p \in Procs, NEW n \in Blocks, NEW b \in Bufs, GetVictim(p, n, b)
      PROVE  \A c \in Bufs : Counted(c)'
  <2>1. buf[p] = NoBuf
    BY <1>2, Zenon DEF GetVictim, Refers
  <2>2. /\ Cardinality(Users(b)') = Cardinality(Users(b)) + 1
        /\ \A a \in Bufs \ {b} : Users(a)' = Users(a)
    BY <1>2, <2>1, UserAdded, Zenon DEF GetVictim
  <2>3. b \notin pinned /\ Cardinality(Users(b)) = 0
    BY <1>2, VictimFree, Zenon DEF GetVictim
  <2>4. QED
    BY <1>2, <2>2, <2>3, UsersFinite DEF GetVictim
<1>3. ASSUME NEW p \in Procs, GetPanic(p) PROVE \A c \in Bufs : Counted(c)'
  <2>1. UNCHANGED <<buf, refcnt, pinned>>
    BY <1>3, Zenon DEF GetPanic, bufs
  <2>2. QED
    BY <2>1, Zenon DEF Users
<1>4. ASSUME NEW p \in Procs, Sleep(p) PROVE \A c \in Bufs : Counted(c)'
  <2>1. UNCHANGED <<buf, refcnt, pinned>>
    BY <1>4, Zenon DEF Sleep, bufs
  <2>2. QED
    BY <2>1, Zenon DEF Users
<1>5. ASSUME NEW p \in Procs, GetsLock(p) PROVE \A c \in Bufs : Counted(c)'
  <2>1. UNCHANGED <<buf, refcnt, pinned>>
    BY <1>5, Zenon DEF GetsLock
  <2>2. QED
    BY <2>1, Zenon DEF Users
<1>6. ASSUME NEW p \in Procs, bread(p) PROVE \A c \in Bufs : Counted(c)'
  <2>1. UNCHANGED <<buf, refcnt, pinned>>
    BY <1>6, Zenon DEF bread
  <2>2. QED
    BY <2>1, Zenon DEF Users
<1>7. ASSUME NEW p \in Procs, NEW v \in Vals, WriteThrough(p, v)
      PROVE  \A c \in Bufs : Counted(c)'
  <2>1. UNCHANGED <<buf, refcnt, pinned>>
    BY <1>7, Zenon DEF WriteThrough
  <2>2. QED
    BY <2>1, Zenon DEF Users
<1>8. ASSUME NEW p \in Procs, NEW v \in Vals, Update(p, v)
      PROVE  \A c \in Bufs : Counted(c)'
  <2>0. /\ ppc[p] = "use" /\ buf' = buf /\ pinned' = pinned \cup {buf[p]}
        /\ refcnt' = [refcnt EXCEPT ![buf[p]] = IF buf[p] \in pinned THEN @ ELSE @ + 1]
    BY <1>8, Zenon DEF Update, At
  <2>1. buf[p] \in Bufs
    BY <2>0, BufOf, Zenon
  <2>2. \A a \in Bufs : Users(a)' = Users(a)
    BY <2>0, Zenon DEF Users
  <2>3. QED
    BY <2>0, <2>1, <2>2, UsersFinite, Zenon
<1>9. ASSUME NEW p \in Procs, Install(p) PROVE \A c \in Bufs : Counted(c)'
  <2>1. UNCHANGED <<buf, refcnt, pinned>>
    BY <1>9, Zenon DEF Install, bufs
  <2>2. QED
    BY <2>1, Zenon DEF Users
<1>10. ASSUME NEW p \in Procs, bunpin(p) PROVE \A c \in Bufs : Counted(c)'
  <2>0. /\ ppc[p] = "unpin" /\ buf' = buf /\ pinned' = pinned \ {buf[p]}
        /\ refcnt' = [refcnt EXCEPT ![buf[p]] = @ - 1]
    BY <1>10, Zenon DEF bunpin, At
  <2>1. buf[p] \in Bufs /\ buf[p] \in pinned
    BY <2>0, BufOf, Zenon DEF Written
  <2>2. \A a \in Bufs : Users(a)' = Users(a)
    BY <2>0, Zenon DEF Users
  <2>3. QED
    BY <2>0, <2>1, <2>2, UsersFinite
<1>11. ASSUME NEW p \in Procs, releasesleep(p) PROVE \A c \in Bufs : Counted(c)'
  <2>1. UNCHANGED <<buf, refcnt, pinned>>
    BY <1>11, Zenon DEF releasesleep
  <2>2. QED
    BY <2>1, Zenon DEF Users
<1>12. ASSUME NEW p \in Procs, brelse(p) PROVE \A c \in Bufs : Counted(c)'
  <2>0. ppc[p] = "put"
    BY <1>12, Zenon DEF brelse, At
  <2>1. PICK b \in Bufs : b = buf[p]
    BY <2>0, BufOf, Zenon
  <2>2. /\ pinned' = pinned /\ buf' = [buf EXCEPT ![p] = NoBuf]
        /\ refcnt' = [refcnt EXCEPT ![b] = refcnt[b] - 1]
    BY <1>12, <2>1, Zenon DEF brelse
  <2>3. /\ Cardinality(Users(b)') = Cardinality(Users(b)) - 1
        /\ \A a \in Bufs \ {b} : Users(a)' = Users(a)
    BY <2>1, <2>2, UserRemoved, Zenon
  <2>4. QED
    BY <2>2, <2>3, UsersFinite
<1>13. CASE UNCHANGED bvars
  BY <1>13, Zenon DEF bvars, bufs, Users
<1> HIDE DEF IInv, Types, Counted
<1>14. QED
  <2>1. Types
    BY Zenon DEF IInv
  <2>2. ASSUME NEW p \in Procs, NEW n \in Blocks, bget(p, n) PROVE \A c \in Bufs : Counted(c)'
    BY <1>1, <1>2, <1>3, <2>1, <2>2, GetIs, Zenon
  <2>3. ASSUME NEW p \in Procs, acquiresleep(p) PROVE \A c \in Bufs : Counted(c)'
    BY <1>4, <1>5, <2>3, AcquireIs, Zenon
  <2>4. QED
    BY <1>6, <1>7, <1>8, <1>9, <1>10, <1>11, <1>12, <1>13, <2>2, <2>3, Zenon DEF BNext, Step

LEMMA VictimCurrent ==
  ASSUME IInv, NEW p \in Procs, NEW n \in Blocks, NEW b \in Bufs,
         GetVictim(p, n, b)
  PROVE  Current'
<1>1. b \notin pinned /\ \A q \in Procs : buf[q] # b
  BY VictimFree, Zenon DEF GetVictim
<1>2. /\ blockno' = [blockno EXCEPT ![b] = n] /\ valid' = [valid EXCEPT ![b] = FALSE]
      /\ ppc' = [ppc EXCEPT ![p] = "lock"] /\ buf' = [buf EXCEPT ![p] = b]
      /\ UNCHANGED <<data, last, disk, pinned>>
  BY Zenon DEF GetVictim, Goto
<1>3. /\ valid \in [Bufs -> BOOLEAN] /\ blockno \in [Bufs -> Blocks \cup {NoBlock}]
      /\ pinned \in SUBSET Bufs /\ ppc \in [Procs -> Pcs] /\ buf \in [Procs -> Bufs \cup {NoBuf}]
  BY Zenon DEF IInv, Types
<1>4. /\ \A c \in Bufs \ {b} : blockno'[c] = blockno[c] /\ (valid'[c] <=> valid[c])
      /\ ~valid'[b]
  BY <1>2, <1>3, Zenon
<1>5. Current
  BY Zenon DEF IInv
<1>6. \A c \in Bufs : valid'[c] => blockno'[c] \in Blocks /\ data'[c] = last'[blockno'[c]]
  BY <1>2, <1>4, <1>5, Zenon DEF Current
<1>7. \A c \in pinned' : blockno'[c] = blockno[c] /\ valid'[c]
  BY <1>1, <1>2, <1>3, <1>4, <1>5, Zenon DEF Current
<1>8. ASSUME NEW q \in Procs, ppc'[q] \in {"use", "unpin"} PROVE valid'[buf'[q]]
  <2>1. q # p
    BY <1>2, <1>3, <1>8, Zenon
  <2>2. ppc[q] \in {"use", "unpin"} /\ buf'[q] = buf[q]
    BY <1>2, <1>3, <1>8, <2>1, Zenon
  <2>3. buf[q] \in Bufs \ {b} /\ valid[buf[q]]
    BY <1>1, <1>5, <2>2, BufOf, Zenon DEF Current
  <2>4. QED
    BY <1>4, <2>2, <2>3, Zenon
<1>9. ASSUME NEW m \in Blocks, \A c \in pinned' : blockno'[c] # m PROVE disk'[m] = last'[m]
  <2>1. \A c \in pinned : blockno[c] # m
    BY <1>2, <1>7, <1>9, Zenon
  <2>2. disk[m] = last[m]
    BY <1>5, <2>1, Zenon DEF Current
  <2>3. QED
    BY <1>2, <2>2, Zenon
<1>10. QED
  BY <1>6, <1>7, <1>8, <1>9, Zenon DEF Current

LEMMA CurrentStep ==
  ASSUME IInv, Types', [BNext]_bvars
  PROVE  Current'
<1> USE DEF IInv, Types, Holding, Pcs, Current, OneBuffer, Refers
<1>1. ASSUME NEW p \in Procs, NEW n \in Blocks, NEW b \in Bufs, GetHit(p, n, b)
      PROVE  Current'
  BY <1>1 DEF GetHit, Goto
<1>2. ASSUME NEW p \in Procs, NEW n \in Blocks, NEW b \in Bufs, GetVictim(p, n, b)
      PROVE  Current'
  BY <1>2, VictimCurrent, Zenon
<1>3. ASSUME NEW p \in Procs, GetPanic(p) PROVE Current'
  BY <1>3 DEF GetPanic, Goto, bufs
<1>4. ASSUME NEW p \in Procs, Sleep(p) PROVE Current'
  BY <1>4 DEF Sleep, Goto, bufs
<1>5. ASSUME NEW p \in Procs, GetsLock(p) PROVE Current'
  BY <1>5 DEF GetsLock, Goto
<1>6. ASSUME NEW p \in Procs, bread(p) PROVE Current'
  BY <1>6 DEF bread, At, Goto
<1>7. ASSUME NEW p \in Procs, NEW v \in Vals, WriteThrough(p, v) PROVE Current'
  BY <1>7 DEF WriteThrough, At
<1>8. ASSUME NEW p \in Procs, NEW v \in Vals, Update(p, v) PROVE Current'
  BY <1>8 DEF Update, At
<1>9. ASSUME NEW p \in Procs, Install(p) PROVE Current'
  BY <1>9 DEF Install, At, Goto, bufs
<1>10. ASSUME NEW p \in Procs, bunpin(p) PROVE Current'
  <2>0. /\ ppc[p] = "unpin" /\ pinned' = pinned \ {buf[p]} /\ ppc' = [ppc EXCEPT ![p] = "use"]
        /\ UNCHANGED <<disk, blockno, valid, data, buf, last>>
    BY <1>10, Zenon DEF bunpin, At, Goto
  <2>1. disk[blockno[buf[p]]] = last[blockno[buf[p]]]
    BY <2>0, Zenon DEF Written
  <2>2. \A n \in Blocks : (\A b \in pinned' : blockno[b] # n) => disk[n] = last[n]
    BY <2>0, <2>1
  <2>3. \A q \in Procs : ppc'[q] \in {"use", "unpin"} => valid[buf[q]]
    BY <2>0
  <2>4. QED
    BY <2>0, <2>2, <2>3
<1>11. ASSUME NEW p \in Procs, releasesleep(p) PROVE Current'
  BY <1>11 DEF releasesleep, At
<1>12. ASSUME NEW p \in Procs, brelse(p) PROVE Current'
  BY <1>12 DEF brelse, At, Goto
<1>13. CASE UNCHANGED bvars
  BY <1>13 DEF bvars, bufs
<1> HIDE DEF IInv, Types, Holding, Pcs, Current, OneBuffer, Refers
<1>14. QED
  <2>1. Types
    BY Zenon DEF IInv
  <2>2. ASSUME NEW p \in Procs, NEW n \in Blocks, bget(p, n) PROVE Current'
    BY <1>1, <1>2, <1>3, <2>1, <2>2, GetIs, Zenon
  <2>3. ASSUME NEW p \in Procs, acquiresleep(p) PROVE Current'
    BY <1>4, <1>5, <2>3, AcquireIs, Zenon
  <2>4. QED
    BY <1>6, <1>7, <1>8, <1>9, <1>10, <1>11, <1>12, <1>13, <2>2, <2>3, Zenon DEF BNext, Step

LEMMA WrittenStep ==
  ASSUME IInv, Types', [BNext]_bvars
  PROVE  Written'
<1> USE DEF IInv, Types, Holding, Pcs, Written, OneBuffer, Refers, Locks
<1>1. ASSUME NEW p \in Procs, NEW n \in Blocks, NEW b \in Bufs, GetHit(p, n, b)
      PROVE  Written'
  BY <1>1 DEF GetHit, Goto
<1>2. ASSUME NEW p \in Procs, NEW n \in Blocks, NEW b \in Bufs, GetVictim(p, n, b)
      PROVE  Written'
  <2>1. b \notin pinned /\ \A q \in Procs : buf[q] # b
    BY <1>2, VictimFree, Zenon DEF GetVictim
  <2>2. ASSUME NEW q \in Procs, ppc'[q] = "unpin"
        PROVE  q # p /\ ppc[q] = "unpin" /\ buf'[q] = buf[q] /\ buf[q] \in Bufs \ {b}
    BY <1>2, <2>1, <2>2 DEF GetVictim, Goto
  <2>3. UNCHANGED <<last, disk, pinned>> /\ \A c \in Bufs \ {b} : blockno'[c] = blockno[c]
    BY <1>2 DEF GetVictim
  <2>4. QED
    BY <2>2, <2>3
<1>3. ASSUME NEW p \in Procs, GetPanic(p) PROVE Written'
  BY <1>3, Zenon DEF GetPanic, Goto, bufs
<1>4. ASSUME NEW p \in Procs, Sleep(p) PROVE Written'
  BY <1>4, Zenon DEF Sleep, Goto, bufs
<1>5. ASSUME NEW p \in Procs, GetsLock(p) PROVE Written'
  BY <1>5 DEF GetsLock, Goto
<1>6. ASSUME NEW p \in Procs, bread(p) PROVE Written'
  BY <1>6 DEF bread, At, Goto
<1>7. ASSUME NEW p \in Procs, NEW v \in Vals, WriteThrough(p, v) PROVE Written'
  BY <1>7, Zenon DEF WriteThrough, At
<1>8. ASSUME NEW p \in Procs, NEW v \in Vals, Update(p, v) PROVE Written'
  BY <1>8 DEF Update, At
<1>9. ASSUME NEW p \in Procs, Install(p) PROVE Written'
  <2>0. /\ ppc[p] = "use" /\ buf[p] \in pinned /\ ppc' = [ppc EXCEPT ![p] = "unpin"]
        /\ disk' = [disk EXCEPT ![blockno[buf[p]]] = data[buf[p]]]
        /\ UNCHANGED <<pinned, buf, blockno, last>>
    BY <1>9, Zenon DEF Install, At, Goto, bufs
  <2>1. buf[p] \in Bufs /\ blockno[buf[p]] \in Blocks
    BY <2>0, BufOf, Zenon
  <2>2. data[buf[p]] = last[blockno[buf[p]]]
    BY <2>0, <2>1, Zenon DEF Current
  <2>3. \A n \in Blocks : disk[n] = last[n] => disk'[n] = last[n]
    BY <2>0, <2>1, <2>2, Zenon
  <2>4. disk'[blockno[buf[p]]] = last[blockno[buf[p]]]
    BY <2>0, <2>1, <2>2, Zenon
  <2>5. \A q \in Procs \ {p} : ppc'[q] = ppc[q]
    BY <2>0, Zenon
  <2>6. \A q \in Procs : ppc[q] = "unpin" => blockno[buf[q]] \in Blocks
    BY BufOf, Zenon
  <2>7. QED
    BY <2>0, <2>3, <2>4, <2>5, <2>6, Zenon
<1>10. ASSUME NEW p \in Procs, bunpin(p) PROVE Written'
  BY <1>10 DEF bunpin, At, Goto
<1>11. ASSUME NEW p \in Procs, releasesleep(p) PROVE Written'
  BY <1>11, Zenon DEF releasesleep, At
<1>12. ASSUME NEW p \in Procs, brelse(p) PROVE Written'
  BY <1>12 DEF brelse, At, Goto
<1>13. CASE UNCHANGED bvars
  BY <1>13, Zenon DEF bvars, bufs
<1> HIDE DEF IInv, Types, Holding, Pcs, Written, OneBuffer, Refers, Locks
<1>14. QED
  <2>1. Types
    BY Zenon DEF IInv
  <2>2. ASSUME NEW p \in Procs, NEW n \in Blocks, bget(p, n) PROVE Written'
    BY <1>1, <1>2, <1>3, <2>1, <2>2, GetIs, Zenon
  <2>3. ASSUME NEW p \in Procs, acquiresleep(p) PROVE Written'
    BY <1>4, <1>5, <2>3, AcquireIs, Zenon
  <2>4. QED
    BY <1>6, <1>7, <1>8, <1>9, <1>10, <1>11, <1>12, <1>13, <2>2, <2>3, Zenon DEF BNext, Step

-----------------------------------------------------------------------------
\* The invariant holds in every state of the buffer cache.
THEOREM BioInvariance ==
  BSpec => []IInv
<1>1. BInit => IInv
  BY InitInv, Zenon
<1>2. IInv /\ [BNext]_bvars => IInv'
  <2> SUFFICES ASSUME IInv, [BNext]_bvars PROVE IInv'
    OBVIOUS
  <2>1. Types'
    BY TypesStep, Zenon
  <2>2. QED
    BY <2>1, RefersStep, CountedStep, OneBufferStep, LocksStep, CurrentStep, WrittenStep,
       SleepersStep, Zenon DEF IInv
<1>3. QED
  BY <1>1, <1>2, PTL DEF BSpec

\* For any number of processes, blocks and buffers: the process that bread()
\* has given a buffer to is the only one that works on it, and finds in it
\* what was last written to the block, although buffers are recycled and the
\* log writes pinned blocks home later.
THEOREM BufferExclusive ==
  BSpec => []ReadsLast
<1>1. IInv => ReadsLast
  <2> SUFFICES ASSUME IInv, NEW p \in Procs, Holds(p)
               PROVE  holder[buf[p]] = p /\ data[buf[p]] = last[blockno[buf[p]]]
    BY Zenon DEF ReadsLast
  <2>1. ppc[p] \in {"use", "unpin"}
    BY Zenon DEF Holds
  <2>2. buf[p] \in Bufs
    BY <2>1, BufOf, Zenon
  <2>3. valid[buf[p]]
    BY <2>1, Zenon DEF IInv, Current
  <2>4. data[buf[p]] = last[blockno[buf[p]]]
    BY <2>2, <2>3, Zenon DEF IInv, Current
  <2>5. holder[buf[p]] = p
    BY <2>1, <2>2, Zenon DEF IInv, Locks, Holding
  <2>6. QED
    BY <2>4, <2>5, Zenon
<1>2. QED
  BY <1>1, BioInvariance, PTL

\* For any number of processes and buffers: whoever sleeps in acquiresleep()
\* sleeps on a lock that another process will release, and be woken.
THEOREM SleepLockWakes ==
  BSpec => []SleepersMustWait
<1>1. IInv => SleepersMustWait
  BY Zenon DEF IInv
<1>2. QED
  BY <1>1, BioInvariance, PTL
=============================================================================
