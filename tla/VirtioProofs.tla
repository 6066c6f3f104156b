---------------------------- MODULE VirtioProofs ----------------------------
(***************************************************************************)
(* Module Virtio for any number of processes and any size of the rings:    *)
(* driver and device agree on who owns a descriptor, a request returns     *)
(* only when its block has been transferred, and no completion is lost.    *)
(***************************************************************************)
EXTENDS Virtio, FiniteSetTheorems, TLAPS

Pcs == {"idle", "lock", "again", "woken", "alloc", "publish", "check", "sleep_b",
        "sleep_free", "done"}

Types ==
  /\ free \in SUBSET Desc /\ chain \in [Desc -> SUBSET Desc]
  /\ req \in [Desc -> Procs \cup {Nobody}] /\ info \in [Desc -> Procs \cup {Nobody}]
  /\ status \in [Desc -> {0, 255}]
  /\ avail \in [Desc -> Desc] /\ used \in [Desc -> Desc]
  /\ avail_idx \in 0 .. Wrap - 1 /\ seen \in 0 .. Wrap - 1
  /\ used_end \in 0 .. Wrap - 1 /\ used_idx \in 0 .. Wrap - 1
  /\ inflight \in SUBSET Desc /\ irq \in BOOLEAN
  /\ lock \in Procs \cup {Nobody, Handler}
  /\ busy \in [Procs -> BOOLEAN] /\ moved \in [Procs -> BOOLEAN]
  /\ pc \in [Procs -> Pcs] /\ head \in [Procs -> Desc]

LockHeld == \A p \in Procs : lock = p <=> pc[p] \in {"alloc", "publish", "check"}

\* A pending request has a chain of its own.
Owner(p) ==
  p \in Pending =>
    /\ head[p] \in chain[head[p]] /\ Cardinality(chain[head[p]]) = CHAIN
    /\ chain[head[p]] \cap free = {}
    /\ req[head[p]] = p /\ info[head[p]] = p
    /\ \A q \in Pending : q # p => chain[head[p]] \cap chain[head[q]] = {}

Covered == \A i \in Desc : i \in free \/ \E p \in Pending : i \in chain[head[p]]

\* b->disk is cleared only when the block has been transferred.
Moves(p) ==
  /\ pc[p] = "publish" => busy[p] /\ avail[avail_idx % NUM] = head[p]
  /\ p \in Pending => busy[p] \/ moved[p]
  /\ pc[p] = "done" => moved[p]

\* Chain h was handed to the device, and its request still waits.
Sent(h) ==
  /\ h \in Desc /\ info[h] \in Pending /\ head[info[h]] = h
  /\ pc[info[h]] # "publish" /\ busy[info[h]]

\* The entries of a ring between two indices, and that they differ.
Length(i, j) == (j - i + Wrap) % Wrap
Entry(ring, i, k) == ring[(i + k) % NUM]
Queue(ring, i, j) == {Entry(ring, i, k) : k \in 0 .. Length(i, j) - 1}
Apart(ring, i, j) ==
  \A k, l \in 0 .. Length(i, j) - 1 : Entry(ring, i, k) = Entry(ring, i, l) => k = l

ToDevice == Queue(avail, seen, avail_idx)
ToDriver == Queue(used, used_idx, used_end)

\* A chain that was sent is in one entry of the avail ring, with the device, or
\* in one entry of the used ring, and then the block has been transferred.
Rings ==
  /\ Apart(avail, seen, avail_idx) /\ Apart(used, used_idx, used_end)
  /\ \A h \in ToDevice : Sent(h) /\ h \notin inflight /\ h \notin ToDriver
  /\ \A h \in inflight : Sent(h)
  /\ \A h \in ToDriver : /\ Sent(h) /\ h \notin inflight
                        /\ status[h] = 0 /\ moved[info[h]]

\* The inductive invariant.
IInv ==
  /\ Types /\ LockHeld /\ Covered /\ Rings /\ NoLostWakeup
  /\ \A p \in Procs : Owner(p) /\ Moves(p)

-----------------------------------------------------------------------------
(* Arithmetic modulo m *)

LEMMA ModSplit ==
  ASSUME NEW m \in Int, m > 0, NEW x \in Int
  PROVE  x % m \in 0 .. m - 1 /\ \E q \in Int : x = m * q + (x % m)
<1>1. x = m * (x \div m) + (x % m)
  BY Z3
<1>2. (x \div m) \in Int /\ x % m \in 0 .. m - 1
  BY Z3
<1>3. QED
  BY <1>1, <1>2, Zenon

LEMMA ModUnique ==
  ASSUME NEW m \in Int, m > 0, NEW q \in Int, NEW r \in 0 .. m - 1
  PROVE  (m * q + r) % m = r
OBVIOUS

LEMMA ModApart ==
  ASSUME NEW m \in Int, m > 0, NEW x \in Int, NEW y \in Int, x < y, y < x + m
  PROVE  x % m # y % m
<1> SUFFICES ASSUME x % m = y % m PROVE FALSE
  OBVIOUS
<1>1. PICK a \in Int : x = m * a + (x % m)
  BY ModSplit, Zenon
<1>2. PICK b \in Int : y = m * b + (y % m)
  BY ModSplit, Zenon
<1>3. y - x = m * b - m * a
  <2>1. m * a \in Int /\ m * b \in Int /\ x % m \in Int
    BY Z3
  <2>2. QED
    BY <1>1, <1>2, <2>1
<1>4. m * b - m * a = m * (b - a)
  BY Z3
<1>5. CASE b - a <= 0
  <2>1. m * (b - a) <= 0
    BY <1>5, Z3
  <2>2. QED
    BY <1>3, <1>4, <2>1
<1>6. CASE b - a >= 1
  <2>1. m * (b - a) >= m
    BY <1>6, Z3
  <2>2. QED
    BY <1>3, <1>4, <2>1
<1>7. QED
  BY <1>5, <1>6

LEMMA ModMultiple ==
  ASSUME NEW m \in Int, m > 0, NEW x \in Int, NEW u \in Int, u % m = 0
  PROVE  (x + u) % m = x % m
<1>1. PICK a \in Int : x = m * a + (x % m)
  BY ModSplit, Zenon
<1>2. PICK b \in Int : u = m * b + (u % m)
  BY ModSplit, Zenon
<1>3. u = m * b
  <2>1. m * b \in Int
    BY Z3
  <2>2. QED
    BY <1>2, <2>1
<1>4. m * a + m * b = m * (a + b)
  BY Z3
<1>5. x + u = m * (a + b) + (x % m)
  <2>1. m * a \in Int /\ m * b \in Int /\ x % m \in Int
    BY Z3
  <2>2. QED
    BY <1>1, <1>3, <1>4, <2>1
<1>6. a + b \in Int /\ x % m \in 0 .. m - 1
  BY ModSplit
<1>7. (m * (a + b) + (x % m)) % m = x % m
  BY <1>6, ModUnique, Zenon
<1>8. QED
  BY <1>5, <1>7, Zenon

LEMMA ModSmall ==
  ASSUME NEW m \in Nat, NEW x \in Int, 0 <= x, x < m
  PROVE  x % m = x
OBVIOUS

LEMMA ModOver ==
  ASSUME NEW m \in Nat, NEW x \in Int, m <= x, x < m + m
  PROVE  x % m = x - m
OBVIOUS

-----------------------------------------------------------------------------
(* The rings *)

LEMMA Sizes ==
  /\ NUM \in Int /\ NUM > 1 /\ NUM > 0 /\ NUM \in Nat /\ Wrap \in Int /\ Wrap > 0 /\ Wrap \in Nat
  /\ Wrap % NUM = 0 /\ NUM <= Wrap
<1>1. /\ NUM \in Int /\ NUM > 1 /\ NUM > 0 /\ NUM \in Nat /\ Wrap \in Int /\ Wrap > 0 /\ Wrap \in Nat
      /\ Wrap % NUM = 0
  BY VirtioAssumption
<1>2. ASSUME Wrap < NUM PROVE FALSE
  <2>1. Wrap % NUM = Wrap
    BY <1>1, <1>2, ModSmall
  <2>2. QED
    BY <1>1, <2>1
<1>3. QED
  BY <1>1, <1>2

LEMMA WrapAround ==
  ASSUME NEW x \in Int
  PROVE  (x + Wrap) % NUM = x % NUM
<1>1. NUM \in Int /\ NUM > 0 /\ Wrap \in Int /\ Wrap % NUM = 0
  BY Sizes, Zenon
<1>2. QED
  BY <1>1, ModMultiple, Zenon

LEMMA LengthIs ==
  ASSUME NEW i \in 0 .. Wrap - 1, NEW j \in 0 .. Wrap - 1
  PROVE  Length(i, j) = IF i <= j THEN j - i ELSE j - i + Wrap
<1>1. CASE i <= j
  <2> DEFINE x == j - i + Wrap
  <2>1. x \in Int /\ Wrap <= x /\ x < Wrap + Wrap /\ x - Wrap = j - i
    BY <1>1, Sizes
  <2> HIDE DEF x
  <2>2. x % Wrap = j - i
    BY <2>1, Sizes, ModOver, Zenon
  <2>3. QED
    BY <1>1, <2>2, Zenon DEF x, Length
<1>2. CASE j < i
  <2>1. (j - i + Wrap) % Wrap = j - i + Wrap
    BY <1>2, Sizes, ModSmall
  <2>2. QED
    BY <1>2, <2>1 DEF Length
<1>3. QED
  BY <1>1, <1>2, Sizes

LEMMA Successor ==
  ASSUME NEW i \in 0 .. Wrap - 1
  PROVE  /\ (i + 1) % Wrap = IF i + 1 = Wrap THEN 0 ELSE i + 1
         /\ (i + 1) % Wrap \in 0 .. Wrap - 1
<1>1. CASE i + 1 = Wrap
  <2>1. Wrap % Wrap = Wrap - Wrap
    BY Sizes, ModOver
  <2>2. QED
    BY <1>1, <2>1, Sizes
<1>2. CASE i + 1 # Wrap
  <2>1. (i + 1) % Wrap = i + 1
    BY <1>2, Sizes, ModSmall
  <2>2. QED
    BY <1>2, <2>1, Sizes
<1>3. QED
  BY <1>1, <1>2, Zenon

LEMMA LengthType ==
  ASSUME NEW i \in 0 .. Wrap - 1, NEW j \in 0 .. Wrap - 1
  PROVE  /\ Length(i, j) \in Nat /\ Length(i, j) < Wrap
         /\ Length(i, j) = 0 <=> i = j
<1>1. CASE i <= j
  <2>1. Length(i, j) = j - i
    BY <1>1, LengthIs, Zenon
  <2>2. QED
    BY <1>1, <2>1, Sizes
<1>2. CASE ~(i <= j)
  <2>1. Length(i, j) = j - i + Wrap
    BY <1>2, LengthIs, Zenon
  <2>2. QED
    BY <1>2, <2>1, Sizes
<1>3. QED
  BY <1>1, <1>2, Zenon

\* An entry is added to the ring, or taken from it.
LEMMA LengthGrows ==
  ASSUME NEW i \in 0 .. Wrap - 1, NEW j \in 0 .. Wrap - 1, Length(i, j) + 1 < Wrap
  PROVE  Length(i, (j + 1) % Wrap) = Length(i, j) + 1
<1>1. PICK n \in 0 .. Wrap - 1 : n = (j + 1) % Wrap
  BY Successor, Zenon
<1>2. n = IF j + 1 = Wrap THEN 0 ELSE j + 1
  BY <1>1, Successor, Zenon
<1>3. /\ Length(i, j) = IF i <= j THEN j - i ELSE j - i + Wrap
      /\ Length(i, n) = IF i <= n THEN n - i ELSE n - i + Wrap
  BY LengthIs, Zenon
<1>4. Length(i, n) = Length(i, j) + 1
  BY <1>2, <1>3, Sizes
<1>5. QED
  BY <1>1, <1>4, Zenon

LEMMA LengthShrinks ==
  ASSUME NEW i \in 0 .. Wrap - 1, NEW j \in 0 .. Wrap - 1, i # j
  PROVE  Length((i + 1) % Wrap, j) = Length(i, j) - 1 /\ Length(i, j) > 0
<1>1. PICK n \in 0 .. Wrap - 1 : n = (i + 1) % Wrap
  BY Successor, Zenon
<1>2. n = IF i + 1 = Wrap THEN 0 ELSE i + 1
  BY <1>1, Successor, Zenon
<1>3. /\ Length(i, j) = IF i <= j THEN j - i ELSE j - i + Wrap
      /\ Length(n, j) = IF n <= j THEN j - n ELSE j - n + Wrap
  BY LengthIs, Zenon
<1>4. Length(n, j) = Length(i, j) - 1 /\ Length(i, j) > 0
  BY <1>2, <1>3, Sizes
<1>5. QED
  BY <1>1, <1>4, Zenon

LEMMA SlotType ==
  ASSUME NEW x \in Int
  PROVE  x % NUM \in Desc
BY Sizes, ModSplit, Zenon DEF Desc

LEMMA EntryType ==
  ASSUME NEW ring \in [Desc -> Desc], NEW i \in Int, NEW k \in Int
  PROVE  (i + k) % NUM \in Desc /\ Entry(ring, i, k) \in Desc
<1>1. i + k \in Int
  OBVIOUS
<1>2. (i + k) % NUM \in Desc
  BY <1>1, SlotType, Zenon
<1>3. QED
  BY <1>2, Zenon DEF Entry

\* The entry after the first one is the first one of what is left.
LEMMA EntryNext ==
  ASSUME NEW ring, NEW i \in 0 .. Wrap - 1, NEW k \in Int
  PROVE  Entry(ring, (i + 1) % Wrap, k) = Entry(ring, i, k + 1)
<1>1. CASE i + 1 = Wrap
  <2>1. (i + 1) % Wrap = 0
    BY <1>1, Successor, Zenon
  <2>2. (k + Wrap) % NUM = k % NUM
    BY WrapAround, Zenon
  <2>3. i + (k + 1) = k + Wrap /\ ((i + 1) % Wrap) + k = k
    BY <1>1, <2>1, Sizes
  <2>4. QED
    BY <2>2, <2>3, Zenon DEF Entry
<1>2. CASE i + 1 # Wrap
  <2>1. (i + 1) % Wrap = i + 1
    BY <1>2, Successor, Zenon
  <2>2. ((i + 1) % Wrap) + k = i + (k + 1)
    BY <2>1
  <2>3. QED
    BY <2>2, Zenon DEF Entry
<1>3. QED
  BY <1>1, <1>2, Zenon

\* The place after the last entry.
LEMMA EntryEnd ==
  ASSUME NEW i \in 0 .. Wrap - 1, NEW j \in 0 .. Wrap - 1
  PROVE  (i + Length(i, j)) % NUM = j % NUM
<1>1. CASE i <= j
  <2>1. i + Length(i, j) = j
    BY <1>1, LengthIs
  <2>2. QED
    BY <2>1, Zenon
<1>2. CASE ~(i <= j)
  <2>1. i + Length(i, j) = j + Wrap
    BY <1>2, LengthIs, Sizes
  <2>2. (j + Wrap) % NUM = j % NUM
    BY WrapAround
  <2>3. QED
    BY <2>1, <2>2, Zenon
<1>3. QED
  BY <1>1, <1>2, Zenon

\* Entries that differ are no more than what they name.
LEMMA RingBound ==
  ASSUME NEW n \in Nat, NEW ring, NEW i, NEW S, IsFiniteSet(S),
         \A k \in 0 .. n - 1 : Entry(ring, i, k) \in S,
         \A j, k \in 0 .. n - 1 : Entry(ring, i, j) = Entry(ring, i, k) => j = k
  PROVE  n <= Cardinality(S)
<1> DEFINE f == [k \in 0 .. n - 1 |-> Entry(ring, i, k)]
<1>1. f \in Injection(0 .. n - 1, S)
  BY Zenon DEF Injection, IsInjective
<1>2. IsFiniteSet(0 .. n - 1) /\ Cardinality(0 .. n - 1) = n
  BY FS_Interval
<1>3. Cardinality(0 .. n - 1) <= Cardinality(S)
  BY <1>1, FS_Injection, Zenon
<1>4. QED
  BY <1>2, <1>3, Zenon

LEMMA DescFinite == IsFiniteSet(Desc) /\ Cardinality(Desc) = NUM
BY Sizes, FS_Interval DEF Desc

LEMMA TwoLess ==
  ASSUME NEW a \in Desc, NEW b \in Desc, a # b
  PROVE  IsFiniteSet(Desc \ {a, b}) /\ Cardinality(Desc \ {a, b}) = NUM - 2
<1>1. IsFiniteSet(Desc \ {a}) /\ Cardinality(Desc \ {a}) = NUM - 1
  BY DescFinite, FS_RemoveElement, Zenon
<1>2. b \in Desc \ {a} /\ Desc \ {a, b} = (Desc \ {a}) \ {b}
  OBVIOUS
<1>3. IsFiniteSet((Desc \ {a}) \ {b}) /\ Cardinality((Desc \ {a}) \ {b}) = NUM - 1 - 1
  BY <1>1, <1>2, FS_RemoveElement, Zenon
<1>4. QED
  BY <1>2, <1>3, Sizes

\* There is room in a ring for a chain of two or more of which no entry tells.
LEMMA Room ==
  ASSUME NEW ring \in [Desc -> Desc], NEW i \in 0 .. Wrap - 1, NEW j \in 0 .. Wrap - 1,
         Apart(ring, i, j), NEW a \in Desc, NEW b \in Desc, a # b,
         a \notin Queue(ring, i, j), b \notin Queue(ring, i, j)
  PROVE  Length(i, j) + 1 < NUM /\ Length(i, j) + 1 < Wrap
<1>1. Length(i, j) \in Nat
  BY LengthType, Zenon
<1>2. \A k \in 0 .. Length(i, j) - 1 : Entry(ring, i, k) \in Desc \ {a, b}
  BY EntryType DEF Queue
<1>3. Length(i, j) <= Cardinality(Desc \ {a, b})
  BY <1>1, <1>2, TwoLess, RingBound, Zenon DEF Apart
<1>4. Cardinality(Desc \ {a, b}) = NUM - 2
  BY TwoLess, Zenon
<1>5. QED
  BY <1>1, <1>3, <1>4, Sizes

Put(ring, j, h) == [ring EXCEPT ![j % NUM] = h]

\* Writing after the last entry changes no entry, as long as there is room.
LEMMA QueueWrite ==
  ASSUME NEW ring \in [Desc -> Desc], NEW i \in 0 .. Wrap - 1, NEW j \in 0 .. Wrap - 1,
         Apart(ring, i, j), Length(i, j) + 1 < NUM,
         NEW h \in Desc
  PROVE  /\ Queue(Put(ring, j, h), i, j) = Queue(ring, i, j) /\ Apart(Put(ring, j, h), i, j)
         /\ Put(ring, j, h) \in [Desc -> Desc] /\ Put(ring, j, h)[j % NUM] = h
<1> DEFINE new == Put(ring, j, h)
<1> USE DEF Put
<1>0. Length(i, j) \in Nat /\ (i + Length(i, j)) % NUM = j % NUM
  BY EntryEnd, LengthType, Zenon
<1>1. j % NUM \in Desc
  <2>1. j \in Int
    OBVIOUS
  <2>2. QED
    BY <2>1, SlotType, Zenon
<1>2. ASSUME NEW k \in 0 .. Length(i, j) - 1 PROVE Entry(new, i, k) = Entry(ring, i, k)
  <2>1. /\ i + k \in Int /\ i + Length(i, j) \in Int
        /\ i + k < i + Length(i, j) /\ i + Length(i, j) < (i + k) + NUM
    BY <1>0, Sizes
  <2>2. (i + k) % NUM # (i + Length(i, j)) % NUM
    BY <2>1, Sizes, ModApart, Zenon
  <2>3. (i + k) % NUM # j % NUM /\ (i + k) % NUM \in Desc
    BY <1>0, <2>1, <2>2, SlotType, Zenon
  <2>4. QED
    BY <2>3, Zenon DEF Entry
<1>3. Apart(new, i, j)
  BY <1>2, Zenon DEF Apart
<1>4. Queue(new, i, j) = Queue(ring, i, j)
  BY <1>2, Zenon DEF Queue
<1>5. QED
  BY <1>1, <1>3, <1>4, Zenon

\* Publishing the entry after the last one.
LEMMA QueueGrows ==
  ASSUME NEW ring \in [Desc -> Desc], NEW i \in 0 .. Wrap - 1, NEW j \in 0 .. Wrap - 1,
         Apart(ring, i, j), Length(i, j) + 1 < Wrap,
         ring[j % NUM] \notin Queue(ring, i, j)
  PROVE  /\ Queue(ring, i, (j + 1) % Wrap) = Queue(ring, i, j) \cup {ring[j % NUM]}
         /\ Apart(ring, i, (j + 1) % Wrap)
<1> DEFINE n == Length(i, j)
<1>1. n \in Nat /\ Length(i, (j + 1) % Wrap) = n + 1
  BY LengthType, LengthGrows, Zenon
<1>2. Entry(ring, i, n) = ring[j % NUM]
  BY EntryEnd, Zenon DEF Entry
<1>3. 0 .. n = (0 .. n - 1) \cup {n} /\ Length(i, (j + 1) % Wrap) - 1 = n
  BY <1>1
<1>4. Queue(ring, i, j) = {Entry(ring, i, k) : k \in 0 .. n - 1}
  BY Zenon DEF Queue
<1>5. Queue(ring, i, (j + 1) % Wrap) = {Entry(ring, i, k) : k \in 0 .. n}
  BY <1>3, Zenon DEF Queue
<1>6. /\ \A k, l \in 0 .. n - 1 : Entry(ring, i, k) = Entry(ring, i, l) => k = l
      /\ \A k \in 0 .. n - 1 : Entry(ring, i, k) # Entry(ring, i, n)
  BY <1>2, <1>4, Zenon DEF Apart
<1> HIDE DEF n
<1>7. Queue(ring, i, (j + 1) % Wrap) = Queue(ring, i, j) \cup {ring[j % NUM]}
  <2>1. ASSUME NEW x PROVE x \in Queue(ring, i, (j + 1) % Wrap)
                           <=> x \in Queue(ring, i, j) \cup {ring[j % NUM]}
    BY <1>2, <1>3, <1>4, <1>5, Zenon
  <2>2. QED
    BY <2>1, Zenon
<1>8. \A k, l \in 0 .. n : Entry(ring, i, k) = Entry(ring, i, l) => k = l
  BY <1>3, <1>6, Zenon
<1>9. QED
  BY <1>3, <1>7, <1>8, Zenon DEF Apart

\* Taking the first entry.
LEMMA QueueShrinks ==
  ASSUME NEW ring \in [Desc -> Desc], NEW i \in 0 .. Wrap - 1, NEW j \in 0 .. Wrap - 1,
         Apart(ring, i, j), i # j
  PROVE  /\ ring[i % NUM] \in Queue(ring, i, j)
         /\ Queue(ring, (i + 1) % Wrap, j) = Queue(ring, i, j) \ {ring[i % NUM]}
         /\ Apart(ring, (i + 1) % Wrap, j)
<1> DEFINE n == Length(i, j)
           m == (i + 1) % Wrap
<1>1. n \in Nat /\ n > 0 /\ Length(m, j) = n - 1
  BY LengthType, LengthShrinks, Zenon
<1>2. Entry(ring, i, 0) = ring[i % NUM]
  <2>1. i + 0 = i
    OBVIOUS
  <2>2. QED
    BY <2>1, Zenon DEF Entry
<1>3. \A k \in 0 .. n - 2 : Entry(ring, m, k) = Entry(ring, i, k + 1)
  BY EntryNext
<1>4. Queue(ring, i, j) = {Entry(ring, i, k) : k \in 0 .. n - 1}
  BY Zenon DEF Queue
<1>5. n - 1 - 1 = n - 2
  BY <1>1
<1>6. Queue(ring, m, j) = {Entry(ring, m, k) : k \in 0 .. n - 2}
  BY <1>1, <1>5, Zenon DEF Queue
<1>7. \A k, l \in 0 .. n - 1 : Entry(ring, i, k) = Entry(ring, i, l) => k = l
  BY Zenon DEF Apart
<1> HIDE DEF n, m
<1>8. /\ 0 \in 0 .. n - 1
      /\ \A k \in 0 .. n - 2 : k + 1 \in 0 .. n - 1 /\ k + 1 # 0
      /\ \A k \in 0 .. n - 1 : k # 0 => k - 1 \in 0 .. n - 2 /\ k = (k - 1) + 1
      /\ \A k, l \in 0 .. n - 2 : k + 1 = l + 1 => k = l
  BY <1>1
<1>9. ring[i % NUM] \in Queue(ring, i, j)
  BY <1>2, <1>4, <1>8, Zenon
<1>10. Queue(ring, m, j) = Queue(ring, i, j) \ {ring[i % NUM]}
  <2>1. ASSUME NEW x \in Queue(ring, m, j) PROVE x \in Queue(ring, i, j) \ {ring[i % NUM]}
    <3>1. PICK k \in 0 .. n - 2 : x = Entry(ring, i, k + 1)
      BY <1>3, <1>6, <2>1, Zenon
    <3>2. QED
      BY <1>2, <1>4, <1>7, <1>8, <3>1, Zenon
  <2>2. ASSUME NEW x \in Queue(ring, i, j) \ {ring[i % NUM]} PROVE x \in Queue(ring, m, j)
    <3>1. PICK k \in 0 .. n - 1 : x = Entry(ring, i, k)
      BY <1>4, <2>2, Zenon
    <3>2. k # 0
      BY <1>2, <2>2, <3>1, Zenon
    <3>3. PICK l \in 0 .. n - 2 : k = l + 1
      BY <1>8, <3>2, Zenon
    <3>4. QED
      BY <1>3, <1>6, <3>1, <3>3, Zenon
  <2>3. QED
    BY <2>1, <2>2, Zenon
<1>11. \A k, l \in 0 .. n - 2 : Entry(ring, m, k) = Entry(ring, m, l) => k = l
  BY <1>3, <1>7, <1>8, Zenon
<1>12. Apart(ring, m, j)
  BY <1>1, <1>5, <1>11, Zenon DEF Apart
<1>13. QED
  BY <1>9, <1>10, <1>12, Zenon DEF m

-----------------------------------------------------------------------------
(* What the steps do *)

LEMMA WakeFreeIs ==
  ASSUME NEW f \in [Procs -> Pcs]
  PROVE  /\ WakeFree(f) \in [Procs -> Pcs]
         /\ \A q \in Procs : f[q] # "sleep_free" => WakeFree(f)[q] = f[q]
         /\ \A q \in Procs : WakeFree(f)[q] # "sleep_free"
         /\ \A q \in Procs : f[q] = "sleep_free" => WakeFree(f)[q] = "again"
BY Zenon DEF WakeFree, Pcs

LEMMA FailWakes ==
  ASSUME Types, NEW p \in Procs, allocFails(p)
  PROVE  /\ pc[p] = "alloc" /\ pc'[p] = "sleep_free"
         /\ \A q \in Procs : q # p =>
              pc'[q] = pc[q] \/ (pc[q] = "sleep_free" /\ pc'[q] = "again")
<1> DEFINE w == IF free = {} THEN pc ELSE WakeFree(pc)
<1>1. pc \in [Procs -> Pcs] /\ pc' = [w EXCEPT ![p] = "sleep_free"] /\ pc[p] = "alloc"
  BY Zenon DEF allocFails, Types
<1>2. /\ w \in [Procs -> Pcs]
      /\ \A q \in Procs : w[q] = pc[q] \/ (pc[q] = "sleep_free" /\ w[q] = "again")
  BY <1>1, WakeFreeIs, Zenon
<1> HIDE DEF w
<1>3. QED
  BY <1>1, <1>2, Zenon

LEMMA FinishWakes ==
  ASSUME Types, NEW p \in Procs, Finish(p)
  PROVE  /\ pc[p] = "check" /\ pc'[p] = "done"
         /\ \A q \in Procs : q # p =>
              \/ pc'[q] = pc[q] /\ pc[q] # "sleep_free"
              \/ pc[q] = "sleep_free" /\ pc'[q] = "again"
<1> DEFINE w == WakeFree(pc)
<1>1. pc \in [Procs -> Pcs] /\ pc' = [w EXCEPT ![p] = "done"] /\ pc[p] = "check"
  BY Zenon DEF Finish, Types
<1>2. /\ w \in [Procs -> Pcs]
      /\ \A q \in Procs : \/ w[q] = pc[q] /\ pc[q] # "sleep_free"
                          \/ pc[q] = "sleep_free" /\ w[q] = "again"
  BY <1>1, WakeFreeIs, Zenon
<1> HIDE DEF w
<1>3. QED
  BY <1>1, <1>2, Zenon

\* alloc3_desc() takes CHAIN descriptors T that are free, of which h is the first.
AllocWith(p, T, h) ==
  /\ pc[p] = "alloc" /\ pc' = [pc EXCEPT ![p] = "publish"]
  /\ Cardinality(T) = CHAIN
  /\ free' = free \ T
  /\ chain' = [chain EXCEPT ![h] = T]
  /\ req' = [req EXCEPT ![h] = p] /\ info' = [info EXCEPT ![h] = p]
  /\ status' = [status EXCEPT ![h] = 255]
  /\ avail' = [avail EXCEPT ![avail_idx % NUM] = h]
  /\ head' = [head EXCEPT ![p] = h]
  /\ busy' = [busy EXCEPT ![p] = TRUE]
  /\ UNCHANGED <<dev, irq, avail_idx, used_idx, lock, moved>>

LEMMA AllocIs ==
  ASSUME NEW p, alloc(p)
  PROVE  \E T \in SUBSET free : \E h \in T : AllocWith(p, T, h)
<1>1. PICK T \in Lowest(free, CHAIN) : \E h \in T :
           /\ free' = free \ T
           /\ chain' = [chain EXCEPT ![h] = T]
           /\ req' = [req EXCEPT ![h] = p]
           /\ status' = [status EXCEPT ![h] = 255]
           /\ info' = [info EXCEPT ![h] = p]
           /\ avail' = [avail EXCEPT ![avail_idx % NUM] = h]
           /\ head' = [head EXCEPT ![p] = h]
  BY Zenon DEF alloc
<1>2. T \in SUBSET free /\ Cardinality(T) = CHAIN
  BY Zenon DEF Lowest, kSubset
<1>3. /\ pc[p] = "alloc" /\ pc' = [pc EXCEPT ![p] = "publish"]
      /\ busy' = [busy EXCEPT ![p] = TRUE]
      /\ UNCHANGED <<dev, irq, avail_idx, used_idx, lock, moved>>
  BY Zenon DEF alloc, Goto
<1>4. \E h \in T : AllocWith(p, T, h)
  BY <1>1, <1>2, <1>3, Zenon DEF AllocWith
<1>5. QED
  BY <1>2, <1>4, Zenon

LEMMA IndexTypes ==
  ASSUME Types
  PROVE  /\ avail_idx % NUM \in Desc /\ seen % NUM \in Desc
         /\ used_end % NUM \in Desc /\ used_idx % NUM \in Desc
         /\ (avail_idx + 1) % Wrap \in 0 .. Wrap - 1 /\ (seen + 1) % Wrap \in 0 .. Wrap - 1
         /\ (used_end + 1) % Wrap \in 0 .. Wrap - 1 /\ (used_idx + 1) % Wrap \in 0 .. Wrap - 1
<1>1. /\ avail_idx \in Int /\ seen \in Int /\ used_end \in Int /\ used_idx \in Int
      /\ avail_idx \in 0 .. Wrap - 1 /\ seen \in 0 .. Wrap - 1
      /\ used_end \in 0 .. Wrap - 1 /\ used_idx \in 0 .. Wrap - 1
  BY DEF Types
<1>2. QED
  BY <1>1, SlotType, Successor, Zenon

LEMMA ZeroIn == 0 \in Desc /\ 0 \in 0 .. Wrap - 1
BY Sizes DEF Desc

\* What virtio_disk_intr() finds in the used ring, and the device in the other.
LEMMA NextUsed ==
  ASSUME Types, Rings, used_idx # used_end
  PROVE  used[used_idx % NUM] \in ToDriver
<1>1. /\ used \in [Desc -> Desc] /\ used_idx \in 0 .. Wrap - 1 /\ used_end \in 0 .. Wrap - 1
      /\ Apart(used, used_idx, used_end)
  BY Zenon DEF Types, Rings
<1>2. QED
  BY <1>1, QueueShrinks, Zenon DEF ToDriver

LEMMA NextAvail ==
  ASSUME Types, Rings, seen # avail_idx
  PROVE  avail[seen % NUM] \in ToDevice
<1>1. /\ avail \in [Desc -> Desc] /\ seen \in 0 .. Wrap - 1 /\ avail_idx \in 0 .. Wrap - 1
      /\ Apart(avail, seen, avail_idx)
  BY Zenon DEF Types, Rings
<1>2. QED
  BY <1>1, QueueShrinks, Zenon DEF ToDevice

LEMMA SentIs ==
  ASSUME Types, NEW h, Sent(h)
  PROVE  /\ h \in Desc /\ info[h] \in Procs /\ info[h] \in Pending /\ head[info[h]] = h
         /\ pc[info[h]] \in {"check", "sleep_b", "woken"} /\ busy[info[h]]
BY Zenon DEF Sent, Pending, Types

LEMMA SentStays ==
  ASSUME NEW h \in Desc, NEW q \in Procs, info'[h] = q, head'[q] = h,
         pc'[q] \in {"check", "sleep_b", "woken"}, busy'[q]
  PROVE  Sent(h)'
BY Zenon DEF Sent, Pending

\* The entry that IntrLoop looks at, and its buffer.
LEMMA LoopBuffer ==
  ASSUME Types, Rings, IntrLoop
  PROVE  /\ used[used_idx % NUM] \in ToDriver /\ Sent(used[used_idx % NUM])
         /\ used[used_idx % NUM] \in Desc /\ info[used[used_idx % NUM]] \in Procs
<1>1. used[used_idx % NUM] \in ToDriver
  BY NextUsed, Zenon DEF IntrLoop
<1>2. Sent(used[used_idx % NUM])
  BY <1>1, Zenon DEF Rings
<1>3. QED
  BY <1>1, <1>2, SentIs, Zenon

LEMMA TypesStep ==
  ASSUME Types, Rings, [Next]_vars
  PROVE  Types'
<1> USE VirtioAssumption
<1>1. ASSUME NEW p \in Procs, Request(p) PROVE Types'
  BY <1>1, Zenon DEF Request, Goto, Types, Pcs, dev, desc
<1>2. ASSUME NEW p \in Procs, Lock(p) PROVE Types'
  BY <1>2, Zenon DEF Lock, Goto, Types, Pcs, dev, desc
<1>3. ASSUME NEW p \in Procs, alloc(p) PROVE Types'
  <2>1. PICK T \in SUBSET free : \E h \in T : AllocWith(p, T, h)
    BY <1>3, AllocIs, Zenon
  <2>2. PICK h \in T : AllocWith(p, T, h)
    BY <2>1, Zenon
  <2>3. T \in SUBSET Desc /\ h \in Desc /\ avail_idx % NUM \in Desc
    BY IndexTypes, Zenon DEF Types
  <2>4. avail' \in [Desc -> Desc]
    BY <2>2, <2>3, Zenon DEF AllocWith, Types
  <2>5. QED
    BY <2>2, <2>3, <2>4 DEF AllocWith, Types, Pcs, dev
<1>4. ASSUME NEW p \in Procs, allocFails(p) PROVE Types'
  <2>1. WakeFree(pc) \in [Procs -> Pcs]
    BY WakeFreeIs, Zenon DEF Types
  <2>2. pc' \in [Procs -> Pcs]
    BY <1>4, <2>1, Zenon DEF allocFails, Types, Pcs
  <2>3. QED
    BY <1>4, <2>2, Zenon DEF allocFails, Types, dev, desc
<1>5. ASSUME NEW p \in Procs, Publish(p) PROVE Types'
  BY <1>5, IndexTypes, Zenon DEF Publish, Goto, Types, Pcs, dev, desc
<1>6. ASSUME NEW p \in Procs, Check(p) PROVE Types'
  BY <1>6, Zenon DEF Check, Goto, Types, Pcs, dev, desc
<1>7. ASSUME NEW p \in Procs, Finish(p) PROVE Types'
  <2>1. WakeFree(pc) \in [Procs -> Pcs]
    BY WakeFreeIs, Zenon DEF Types
  <2>2. pc' \in [Procs -> Pcs]
    BY <1>7, <2>1, Zenon DEF Finish, Pcs
  <2>3. QED
    BY <1>7, <2>2, Zenon DEF Finish, Types, dev
<1>8. ASSUME NEW p \in Procs, Return(p) PROVE Types'
  BY <1>8, ZeroIn, Zenon DEF Return, Goto, Types, Pcs, dev, desc
<1>9. CASE IntrEnter
  BY <1>9, Zenon DEF IntrEnter, Types, dev, desc
<1>10. CASE IntrLoop
  <2>1. used[used_idx % NUM] \in Desc /\ info[used[used_idx % NUM]] \in Procs
    BY <1>10, LoopBuffer, Zenon
  <2>2. QED
    BY <1>10, <2>1, IndexTypes, Zenon DEF IntrLoop, Types, Pcs, dev, desc
<1>11. CASE IntrExit
  BY <1>11, Zenon DEF IntrExit, Types, dev, desc
<1>12. CASE Fetch
  BY <1>12, IndexTypes DEF Fetch, Types, desc
<1>13. ASSUME NEW h \in Desc, Complete(h) PROVE Types'
  <2>1. used' \in [Desc -> Desc] /\ used_end' \in 0 .. Wrap - 1
    BY <1>13, IndexTypes, Zenon DEF Complete, Types
  <2>2. moved' \in [Procs -> BOOLEAN]
    BY <1>13, Zenon DEF Complete, Types
  <2>3. QED
    BY <1>13, <2>1, <2>2 DEF Complete, Types, desc
<1>14. CASE UNCHANGED vars
  BY <1>14, Zenon DEF Types, vars, dev, desc
<1>15. QED
  BY <1>1, <1>2, <1>3, <1>4, <1>5, <1>6, <1>7, <1>8, <1>9, <1>10, <1>11, <1>12, <1>13, <1>14,
     Zenon DEF Next, Driver, Intr, Device

LEMMA LockHeldStep ==
  ASSUME Types, Rings, LockHeld, [Next]_vars
  PROVE  LockHeld'
<1>0. Nobody \notin Procs /\ Handler \notin Procs /\ Nobody # Handler
  BY VirtioAssumption, Zenon
<1>1. ASSUME NEW p \in Procs, Request(p) PROVE LockHeld'
  BY <1>1 DEF Request, Goto, Types, LockHeld
<1>2. ASSUME NEW p \in Procs, Lock(p) PROVE LockHeld'
  BY <1>0, <1>2 DEF Lock, Goto, Types, LockHeld
<1>3. ASSUME NEW p \in Procs, alloc(p) PROVE LockHeld'
  BY <1>3 DEF alloc, Goto, Types, LockHeld
<1>4. ASSUME NEW p \in Procs, allocFails(p) PROVE LockHeld'
  <2>1. ASSUME NEW q \in Procs
        PROVE  pc'[q] \in {"alloc", "publish", "check"}
               <=> q # p /\ pc[q] \in {"alloc", "publish", "check"}
    BY <1>4, FailWakes, Zenon
  <2>2. QED
    BY <1>0, <1>4, <2>1, Zenon DEF allocFails, LockHeld
<1>5. ASSUME NEW p \in Procs, Publish(p) PROVE LockHeld'
  BY <1>5 DEF Publish, Goto, Types, LockHeld
<1>6. ASSUME NEW p \in Procs, Check(p) PROVE LockHeld'
  BY <1>0, <1>6 DEF Check, Goto, Types, LockHeld
<1>7. ASSUME NEW p \in Procs, Finish(p) PROVE LockHeld'
  <2>1. ASSUME NEW q \in Procs
        PROVE  pc'[q] \in {"alloc", "publish", "check"}
               <=> q # p /\ pc[q] \in {"alloc", "publish", "check"}
    BY <1>7, FinishWakes, Zenon
  <2>2. QED
    BY <1>0, <1>7, <2>1, Zenon DEF Finish, LockHeld
<1>8. ASSUME NEW p \in Procs, Return(p) PROVE LockHeld'
  BY <1>8 DEF Return, Goto, Types, LockHeld
<1>9. CASE IntrEnter
  BY <1>0, <1>9, Zenon DEF IntrEnter, LockHeld
<1>10. CASE IntrLoop
  <2>1. PICK b \in Procs : pc' = [pc EXCEPT ![b] = IF @ = "sleep_b" THEN "woken" ELSE @]
    BY <1>10, LoopBuffer, Zenon DEF IntrLoop
  <2>2. QED
    BY <1>10, <2>1 DEF IntrLoop, Types, LockHeld
<1>11. CASE IntrExit
  BY <1>0, <1>11, Zenon DEF IntrExit, LockHeld
<1>12. CASE UNCHANGED <<lock, pc>>
  BY <1>12, Zenon DEF LockHeld
<1>13. CASE Device \/ UNCHANGED vars
  BY <1>12, <1>13, Zenon DEF Device, Fetch, Complete, vars
<1>14. QED
  BY <1>1, <1>2, <1>3, <1>4, <1>5, <1>6, <1>7, <1>8, <1>9, <1>10, <1>11, <1>13,
     Zenon DEF Next, Driver, Intr

\* The steps in which no descriptor changes hands.
Quiet ==
  \/ IntrEnter \/ IntrLoop \/ IntrExit \/ Fetch \/ (\E h \in Desc : Complete(h))
  \/ (\E p \in Procs : Request(p) \/ Lock(p) \/ allocFails(p) \/ Publish(p) \/ Check(p)
                       \/ Return(p))
  \/ UNCHANGED vars

LEMMA QuietIs ==
  ASSUME Types, Rings, Quiet
  PROVE  /\ UNCHANGED desc /\ Pending' = Pending
         /\ \A q \in Pending : head'[q] = head[q]
<1>1. ASSUME NEW p \in Procs, Request(p) \/ Lock(p) \/ Publish(p) \/ Check(p)
      PROVE  UNCHANGED <<desc, head>> /\ Pending' = Pending
  BY <1>1 DEF Request, Lock, Publish, Check, Goto, Types, Pending
<1>2. ASSUME NEW p \in Procs, allocFails(p)
      PROVE  UNCHANGED <<desc, head>> /\ Pending' = Pending
  <2>1. ASSUME NEW q \in Procs
        PROVE  pc'[q] \in {"publish", "check", "sleep_b", "woken"}
               <=> pc[q] \in {"publish", "check", "sleep_b", "woken"}
    BY <1>2, FailWakes, Zenon
  <2>2. QED
    BY <1>2, <2>1, Zenon DEF allocFails, Pending
<1>3. ASSUME NEW p \in Procs, Return(p)
      PROVE  /\ UNCHANGED desc /\ Pending' = Pending
             /\ \A q \in Pending : head'[q] = head[q]
  BY <1>3 DEF Return, Goto, Types, Pending
<1>4. CASE IntrLoop
  <2>1. PICK b \in Procs : pc' = [pc EXCEPT ![b] = IF @ = "sleep_b" THEN "woken" ELSE @]
    BY <1>4, LoopBuffer, Zenon DEF IntrLoop
  <2>2. QED
    BY <1>4, <2>1 DEF IntrLoop, Types, Pending
<1>5. CASE UNCHANGED <<desc, head, pc>>
  BY <1>5, Zenon DEF Pending
<1>6. CASE IntrEnter \/ IntrExit \/ Fetch \/ (\E h \in Desc : Complete(h)) \/ UNCHANGED vars
  BY <1>5, <1>6, Zenon DEF IntrEnter, IntrExit, Fetch, Complete, vars
<1>7. QED
  BY <1>1, <1>2, <1>3, <1>4, <1>6, Zenon DEF Quiet

LEMMA OwnersQuiet ==
  ASSUME Types, Covered, \A p \in Procs : Owner(p), UNCHANGED desc, Pending' = Pending,
         \A q \in Pending : head'[q] = head[q]
  PROVE  Covered' /\ \A p \in Procs : Owner(p)'
<1>1. free' = free /\ chain' = chain /\ req' = req /\ info' = info
  BY Zenon DEF desc
<1>2. Covered'
  BY <1>1, Zenon DEF Covered
<1>3. ASSUME NEW p \in Procs PROVE Owner(p)'
  BY <1>1, <1>3, Zenon DEF Owner
<1>4. QED
  BY <1>2, <1>3, Zenon

\* In alloc() a request gets its chain, in Finish() it gives it back.
LEMMA OwnersAlloc ==
  ASSUME Types, Types', Covered, \A q \in Procs : Owner(q), NEW p \in Procs,
         NEW T \in SUBSET free, NEW h \in T, AllocWith(p, T, h)
  PROVE  Covered' /\ \A q \in Procs : Owner(q)'
<1>1. Pending' = Pending \cup {p} /\ p \notin Pending /\ Pending \subseteq Procs
  BY DEF Pending, AllocWith, Types
<1>2. /\ free' = free \ T /\ chain'[h] = T /\ req'[h] = p /\ info'[h] = p
      /\ head'[p] = h /\ h \in Desc /\ T \subseteq Desc /\ Cardinality(T) = CHAIN
      /\ \A i \in Desc : i # h => chain'[i] = chain[i] /\ req'[i] = req[i] /\ info'[i] = info[i]
      /\ \A q \in Procs : q # p => head'[q] = head[q]
  BY DEF AllocWith, Types
<1>3. ASSUME NEW q \in Pending
      PROVE  /\ q # p /\ q \in Procs /\ head'[q] = head[q] /\ head[q] \in Desc /\ head[q] # h
             /\ chain'[head[q]] = chain[head[q]] /\ chain[head[q]] \cap T = {}
             /\ req'[head[q]] = q /\ info'[head[q]] = q
             /\ head[q] \in chain[head[q]] /\ Cardinality(chain[head[q]]) = CHAIN
             /\ chain[head[q]] \cap free = {}
  BY <1>1, <1>2 DEF Owner, Types
<1>4. ASSUME NEW i \in Desc PROVE i \in free' \/ \E q \in Pending' : i \in chain'[head'[q]]
  <2>1. CASE i \in T
    <3>1. p \in Pending' /\ chain'[head'[p]] = T
      BY <1>1, <1>2, Zenon
    <3>2. QED
      BY <2>1, <3>1, Zenon
  <2>2. CASE i \in free /\ i \notin T
    BY <1>2, <2>2, Zenon
  <2>3. CASE i \notin free
    <3>1. PICK q \in Pending : i \in chain[head[q]]
      BY <2>3, Zenon DEF Covered
    <3>2. q \in Pending' /\ chain'[head'[q]] = chain[head[q]]
      BY <1>1, <1>3, Zenon
    <3>3. QED
      BY <3>1, <3>2, Zenon
  <2>4. QED
    BY <2>1, <2>2, <2>3, Zenon
<1>5. ASSUME NEW q \in Procs, q \in Pending PROVE Owner(q)'
  <2>1. \A r \in Pending : r # q => chain[head[q]] \cap chain[head[r]] = {}
    BY <1>5, Zenon DEF Owner
  <2>2. chain'[head'[q]] = chain[head[q]] /\ head'[q] = head[q]
    BY <1>3, <1>5, Zenon
  <2>3. /\ head'[q] \in chain'[head'[q]] /\ Cardinality(chain'[head'[q]]) = CHAIN
        /\ req'[head'[q]] = q /\ info'[head'[q]] = q
    BY <1>3, <1>5, <2>2, Zenon
  <2>4. chain'[head'[q]] \cap free' = {}
    BY <1>2, <1>3, <1>5, <2>2, Zenon
  <2>5. ASSUME NEW r \in Pending', r # q PROVE chain'[head'[q]] \cap chain'[head'[r]] = {}
    <3>1. CASE r = p
      BY <1>2, <1>3, <1>5, <2>2, <3>1, Zenon
    <3>2. CASE r \in Pending
      <4>1. chain'[head'[r]] = chain[head[r]]
        BY <1>3, <3>2, Zenon
      <4>2. QED
        BY <2>1, <2>2, <2>5, <3>2, <4>1, Zenon
    <3>3. QED
      BY <1>1, <2>5, <3>1, <3>2, Zenon
  <2>6. QED
    BY <2>3, <2>4, <2>5, Zenon DEF Owner
<1>6. Owner(p)'
  <2>1. chain'[head'[p]] = T /\ head'[p] = h
    BY <1>2, Zenon
  <2>2. ASSUME NEW r \in Pending', r # p PROVE chain'[head'[p]] \cap chain'[head'[r]] = {}
    <3>1. r \in Pending
      BY <1>1, <2>2, Zenon
    <3>2. QED
      BY <1>3, <2>1, <3>1
  <2>3. T \cap free' = {}
    BY <1>2, Zenon
  <2>4. QED
    BY <1>2, <2>1, <2>2, <2>3, Zenon DEF Owner
<1>7. ASSUME NEW q \in Procs PROVE Owner(q)'
  <2>1. CASE q \notin Pending'
    BY <2>1, Zenon DEF Owner
  <2>2. QED
    BY <1>1, <1>5, <1>6, <2>1, Zenon
<1>8. QED
  BY <1>4, <1>7, Zenon DEF Covered

LEMMA OwnersFinish ==
  ASSUME Types, Types', Covered, \A q \in Procs : Owner(q), NEW p \in Procs, Finish(p)
  PROVE  Covered' /\ \A q \in Procs : Owner(q)'
<1>0. pc'[p] = "done" /\ \A q \in Procs : q # p =>
        (pc'[q] \in {"publish", "check", "sleep_b", "woken"}
           <=> pc[q] \in {"publish", "check", "sleep_b", "woken"})
  BY FinishWakes, Zenon
<1>1. Pending' = Pending \ {p} /\ p \in Pending /\ Pending \subseteq Procs
  BY <1>0, Zenon DEF Pending, Finish
<1>2. /\ free' = free \cup chain[head[p]] /\ head' = head /\ head[p] \in Desc
      /\ \A i \in Desc : i # head[p] => chain'[i] = chain[i] /\ req'[i] = req[i] /\ info'[i] = info[i]
  BY DEF Finish, Types
<1>3. ASSUME NEW q \in Pending, q # p
      PROVE  /\ head[q] \in Desc /\ head[q] # head[p]
             /\ chain'[head[q]] = chain[head[q]] /\ chain[head[q]] \cap chain[head[p]] = {}
             /\ req'[head[q]] = q /\ info'[head[q]] = q
             /\ head[q] \in chain[head[q]] /\ Cardinality(chain[head[q]]) = CHAIN
             /\ chain[head[q]] \cap free = {}
  BY <1>1, <1>2, <1>3, Zenon DEF Owner, Types
<1>4. Covered'
  BY <1>1, <1>2, <1>3, Zenon DEF Covered
<1>5. ASSUME NEW q \in Procs, q \in Pending, q # p PROVE Owner(q)'
  <2>1. \A r \in Pending : r # q => chain[head[q]] \cap chain[head[r]] = {}
    BY <1>5, Zenon DEF Owner
  <2>2. QED
    BY <1>1, <1>2, <1>3, <1>5, <2>1, Zenon DEF Owner
<1>6. QED
  BY <1>1, <1>4, <1>5, Zenon DEF Owner

LEMMA OwnersStep ==
  ASSUME Types, Types', Rings, Covered, \A q \in Procs : Owner(q), [Next]_vars
  PROVE  Covered' /\ \A q \in Procs : Owner(q)'
<1>1. CASE Quiet
  BY <1>1, QuietIs, OwnersQuiet, Zenon
<1>2. ASSUME NEW p \in Procs, alloc(p) PROVE Covered' /\ \A q \in Procs : Owner(q)'
  BY <1>2, AllocIs, OwnersAlloc, Zenon
<1>3. ASSUME NEW p \in Procs, Finish(p) PROVE Covered' /\ \A q \in Procs : Owner(q)'
  BY <1>3, OwnersFinish, Zenon
<1>4. QED
  BY <1>1, <1>2, <1>3, Zenon DEF Quiet, Next, Driver, Intr, Device

\* No chain is sent or comes back in these steps.
LEMMA RingsSame ==
  ASSUME Types, Rings, UNCHANGED <<dev, avail, avail_idx, used_idx, status>>,
         \A h \in Desc : Sent(h) => Sent(h)' /\ info'[h] = info[h]
                                    /\ (moved[info[h]] => moved'[info[h]])
  PROVE  Rings'
<1>1. /\ seen' = seen /\ inflight' = inflight /\ used' = used /\ used_end' = used_end
      /\ avail' = avail /\ avail_idx' = avail_idx /\ used_idx' = used_idx /\ status' = status
  BY Zenon DEF dev
<1>2. ToDevice' = ToDevice /\ ToDriver' = ToDriver
  BY <1>1, Zenon DEF ToDevice, ToDriver
<1>3. \A h : Sent(h) => h \in Desc
  BY Zenon DEF Sent
<1>4. QED
  BY <1>1, <1>2, <1>3, Zenon DEF Rings

LEMMA RingsQuiet ==
  ASSUME Types, Rings, \A q \in Procs : Owner(q),
         \/ IntrEnter \/ IntrExit \/ UNCHANGED vars
         \/ \E p \in Procs : \/ Request(p) \/ Lock(p) \/ allocFails(p) \/ Check(p)
                             \/ Finish(p) \/ Return(p)
  PROVE  Rings'
<1>0. UNCHANGED <<dev, avail, avail_idx, used_idx, status>>
  BY Zenon DEF IntrEnter, IntrExit, vars, Request, Lock, allocFails, Check, Finish, Return
<1>1. SUFFICES ASSUME NEW h \in Desc, Sent(h)
               PROVE  Sent(h)' /\ info'[h] = info[h] /\ (moved[info[h]] => moved'[info[h]])
  BY <1>0, RingsSame, Zenon
<1> DEFINE q == info[h]
<1>2. /\ q \in Procs /\ q \in Pending /\ head[q] = h
      /\ pc[q] \in {"check", "sleep_b", "woken"} /\ busy[q]
  BY <1>1, SentIs, Zenon
<1> HIDE DEF q
<1>3. CASE IntrEnter \/ IntrExit \/ UNCHANGED vars
  <2>1. UNCHANGED <<info, head, pc, busy, moved>>
    BY <1>3, Zenon DEF IntrEnter, IntrExit, vars, desc
  <2>2. QED
    BY <1>1, <1>2, <2>1, SentStays, Zenon DEF q
<1>4. ASSUME NEW p \in Procs, Request(p) \/ Return(p)
      PROVE  Sent(h)' /\ info'[h] = info[h] /\ (moved[q] => moved'[q])
  <2>1. p # q
    BY <1>2, <1>4, Zenon DEF Request, Return
  <2>2. head'[q] = head[q] /\ pc'[q] = pc[q]
    BY <1>2, <1>4, <2>1 DEF Request, Return, Goto, Types
  <2>3. moved'[q] = moved[q] /\ busy' = busy /\ info' = info
    BY <1>2, <1>4, <2>1, Zenon DEF Request, Return, Types, desc
  <2>4. QED
    BY <1>1, <1>2, <2>2, <2>3, SentStays, Zenon DEF q
<1>5. ASSUME NEW p \in Procs, Lock(p) \/ Check(p)
      PROVE  Sent(h)' /\ info'[h] = info[h] /\ (moved[q] => moved'[q])
  <2>1. pc'[q] \in {"check", "sleep_b", "woken"}
    BY <1>2, <1>5 DEF Lock, Check, Goto, Types
  <2>2. info' = info /\ head' = head /\ busy' = busy /\ moved' = moved
    BY <1>5, Zenon DEF Lock, Check, desc
  <2>3. QED
    BY <1>1, <1>2, <2>1, <2>2, SentStays, Zenon DEF q
<1>6. ASSUME NEW p \in Procs, allocFails(p)
      PROVE  Sent(h)' /\ info'[h] = info[h] /\ (moved[q] => moved'[q])
  <2>1. pc'[q] = pc[q]
    BY <1>2, <1>6, FailWakes, Zenon
  <2>2. info' = info /\ head' = head /\ busy' = busy /\ moved' = moved
    BY <1>6, Zenon DEF allocFails, desc
  <2>3. QED
    BY <1>1, <1>2, <2>1, <2>2, SentStays, Zenon DEF q
<1>7. ASSUME NEW p \in Procs, Finish(p)
      PROVE  Sent(h)' /\ info'[h] = info[h] /\ (moved[q] => moved'[q])
  <2>1. p # q
    BY <1>2, <1>7, Zenon DEF Finish
  <2>2. pc'[q] = pc[q]
    BY <1>2, <1>7, <2>1, FinishWakes, Zenon
  <2>3. p \in Pending
    BY <1>7, Zenon DEF Finish, Pending
  <2>4. info[head[p]] = p
    BY <2>3, Zenon DEF Owner
  <2>5. h # head[p]
    BY <2>1, <2>4, Zenon DEF q
  <2>6. info'[h] = info[h]
    BY <1>7, <2>5, Zenon DEF Finish, Types
  <2>7. head' = head /\ busy' = busy /\ moved' = moved
    BY <1>7, Zenon DEF Finish
  <2>8. QED
    BY <1>1, <1>2, <2>2, <2>6, <2>7, SentStays, Zenon DEF q
<1>8. QED
  BY <1>3, <1>4, <1>5, <1>6, <1>7, Zenon DEF q

\* A chain has a second descriptor.
LEMMA Second ==
  ASSUME NEW T \in SUBSET Desc, Cardinality(T) = CHAIN, NEW h \in T
  PROVE  \E i \in T : i # h
<1>1. Cardinality({h}) = 1
  BY FS_Singleton, Zenon
<1>2. CASE T = {h}
  BY <1>1, <1>2, VirtioAssumption
<1>3. QED
  BY <1>2, Zenon

\* A chain that belongs to a request leaves room in a ring that only tells of
\* the chains of others.
LEMMA RoomForChain ==
  ASSUME Types, \A q \in Procs : Owner(q), NEW p \in Pending,
         NEW ring \in [Desc -> Desc], NEW i \in 0 .. Wrap - 1, NEW j \in 0 .. Wrap - 1,
         Apart(ring, i, j),
         \A h \in Queue(ring, i, j) : Sent(h) /\ h # head[p]
  PROVE  Length(i, j) + 1 < NUM /\ Length(i, j) + 1 < Wrap
<1>1. /\ p \in Procs /\ head[p] \in Desc /\ chain[head[p]] \in SUBSET Desc
      /\ head[p] \in chain[head[p]] /\ Cardinality(chain[head[p]]) = CHAIN
  BY Zenon DEF Types, Owner, Pending
<1>2. PICK b \in chain[head[p]] : b # head[p]
  BY <1>1, Second, Zenon
<1>3. ASSUME b \in Queue(ring, i, j) PROVE FALSE
  <2>1. Sent(b) /\ info[b] \in Pending /\ head[info[b]] = b /\ info[b] \in Procs
    BY <1>3, SentIs, Zenon
  <2>2. info[b] # p
    BY <1>2, <2>1, Zenon
  <2>3. b \in chain[b] /\ chain[b] \cap chain[head[p]] = {}
    <3>1. PICK q \in Procs : q = info[b]
      BY <2>1, Zenon
    <3>2. q \in Pending /\ head[q] = b /\ q # p
      BY <2>1, <2>2, <3>1, Zenon
    <3>3. head[q] \in chain[head[q]] /\ chain[head[q]] \cap chain[head[p]] = {}
      BY <3>2, Zenon DEF Owner
    <3>4. QED
      BY <3>2, <3>3, Zenon
  <2>4. QED
    BY <1>2, <2>3, Zenon
<1>4. head[p] \notin Queue(ring, i, j)
  OBVIOUS
<1>5. b \in Desc
  BY <1>1, <1>2, Zenon
<1>6. QED
  BY <1>1, <1>2, <1>3, <1>4, <1>5, Room, Zenon

LEMMA RingsAlloc ==
  ASSUME Types, Rings, \A q \in Procs : Owner(q), NEW p \in Procs,
         NEW T \in SUBSET free, NEW h \in T, AllocWith(p, T, h)
  PROVE  Rings'
<1>1. /\ seen' = seen /\ inflight' = inflight /\ used' = used /\ used_end' = used_end
      /\ avail_idx' = avail_idx /\ used_idx' = used_idx /\ moved' = moved
      /\ avail' = [avail EXCEPT ![avail_idx % NUM] = h]
  BY Zenon DEF AllocWith, dev
<1>2. T \in SUBSET Desc /\ h \in Desc /\ Cardinality(T) = CHAIN
  BY Zenon DEF Types, AllocWith
<1>3. /\ avail \in [Desc -> Desc] /\ seen \in 0 .. Wrap - 1 /\ avail_idx \in 0 .. Wrap - 1
      /\ Apart(avail, seen, avail_idx)
  BY Zenon DEF Types, Rings
<1>4. ASSUME NEW e, Sent(e) PROVE e \notin free
  <2>1. info[e] \in Procs /\ info[e] \in Pending /\ head[info[e]] = e
    BY <1>4, SentIs, Zenon
  <2>2. PICK q \in Procs : q \in Pending /\ head[q] = e
    BY <2>1, Zenon
  <2>3. head[q] \in chain[head[q]] /\ chain[head[q]] \cap free = {}
    BY <2>2, Zenon DEF Owner
  <2>4. QED
    BY <2>2, <2>3, Zenon
<1>5. Length(seen, avail_idx) + 1 < NUM
  <2>1. \A e \in Queue(avail, seen, avail_idx) : e \notin T
    BY <1>4, Zenon DEF Rings, ToDevice
  <2>2. PICK b \in T : b # h
    BY <1>2, Second, Zenon
  <2>3. /\ b \in Desc /\ h \notin Queue(avail, seen, avail_idx)
        /\ b \notin Queue(avail, seen, avail_idx)
    BY <1>2, <2>1, Zenon
  <2>4. QED
    BY <1>2, <1>3, <2>2, <2>3, Room, Zenon
<1>6. Queue(avail', seen, avail_idx) = Queue(avail, seen, avail_idx)
      /\ Apart(avail', seen, avail_idx)
  <2> DEFINE new == avail'
  <2>1. new = Put(avail, avail_idx, h)
    BY <1>1, Zenon DEF Put
  <2> HIDE DEF new
  <2>2. Queue(new, seen, avail_idx) = Queue(avail, seen, avail_idx)
        /\ Apart(new, seen, avail_idx)
    BY <1>2, <1>3, <1>5, <2>1, QueueWrite, Zenon
  <2>3. QED
    BY <2>2, Zenon DEF new
<1>7. ToDevice' = ToDevice /\ ToDriver' = ToDriver
  BY <1>1, <1>6, Zenon DEF ToDevice, ToDriver
<1>8. ASSUME NEW e, Sent(e)
      PROVE  Sent(e)' /\ status'[e] = status[e] /\ info'[e] = info[e]
  <2>1. /\ e \in Desc /\ info[e] \in Procs /\ head[info[e]] = e
        /\ pc[info[e]] \in {"check", "sleep_b", "woken"} /\ busy[info[e]]
    BY <1>8, SentIs, Zenon
  <2>2. PICK q \in Procs : q = info[e]
    BY <2>1, Zenon
  <2>3. e # h
    BY <1>4, <1>8, Zenon
  <2>4. q # p
    BY <2>1, <2>2, Zenon DEF AllocWith
  <2>5. info'[e] = info[e] /\ status'[e] = status[e]
    BY <2>1, <2>3, Zenon DEF AllocWith, Types
  <2>6. pc'[q] = pc[q] /\ head'[q] = head[q]
    BY <2>4 DEF AllocWith, Types
  <2>8. busy'[q] = busy[q]
    BY <2>4, Zenon DEF AllocWith, Types
  <2>7. QED
    BY <2>1, <2>2, <2>5, <2>6, <2>8, SentStays, Zenon
<1>9. QED
  BY <1>1, <1>6, <1>7, <1>8, Zenon DEF Rings

LEMMA RingsPublish ==
  ASSUME Types, Rings, \A q \in Procs : Owner(q) /\ Moves(q), NEW p \in Procs, Publish(p)
  PROVE  Rings'
<1>1. /\ seen' = seen /\ inflight' = inflight /\ used' = used /\ used_end' = used_end
      /\ avail_idx' = (avail_idx + 1) % Wrap /\ used_idx' = used_idx /\ moved' = moved
      /\ avail' = avail /\ status' = status /\ info' = info /\ head' = head /\ busy' = busy
  BY Zenon DEF Publish, dev, desc
<1>2. pc[p] = "publish" /\ pc'[p] = "check" /\ \A q \in Procs : q # p => pc'[q] = pc[q]
  BY DEF Publish, Goto, Types
<1>3. p \in Pending
  BY <1>2, Zenon DEF Pending
<1>4. head[p] \in Desc /\ info[head[p]] = p /\ avail[avail_idx % NUM] = head[p] /\ busy[p]
  BY <1>2, <1>3, Zenon DEF Owner, Moves, Types
<1>5. ~ Sent(head[p])
  BY <1>2, <1>4, Zenon DEF Sent
<1>6. ASSUME NEW e, Sent(e) PROVE Sent(e)'
  <2>1. /\ e \in Desc /\ info[e] \in Procs /\ head[info[e]] = e
        /\ pc[info[e]] \in {"check", "sleep_b", "woken"} /\ busy[info[e]]
    BY <1>6, SentIs, Zenon
  <2>2. info[e] # p
    BY <1>2, <2>1, Zenon
  <2>3. pc'[info[e]] = pc[info[e]]
    BY <1>2, <2>1, <2>2, Zenon
  <2>4. QED
    BY <1>1, <2>1, <2>3, SentStays, Zenon
<1>7. Sent(head[p])'
  BY <1>1, <1>2, <1>4, SentStays, Zenon
<1>8. /\ avail \in [Desc -> Desc] /\ seen \in 0 .. Wrap - 1 /\ avail_idx \in 0 .. Wrap - 1
      /\ Apart(avail, seen, avail_idx)
      /\ \A e \in Queue(avail, seen, avail_idx) : Sent(e) /\ e # head[p]
  <2>1. \A e \in ToDevice : Sent(e) /\ e # head[p]
    BY <1>5, Zenon DEF Rings
  <2>2. QED
    BY <2>1, Zenon DEF Types, Rings, ToDevice
<1>9. Length(seen, avail_idx) + 1 < Wrap
  BY <1>3, <1>8, RoomForChain, Zenon
<1>10. avail[avail_idx % NUM] \notin Queue(avail, seen, avail_idx)
  BY <1>4, <1>8, Zenon
<1>11. /\ Queue(avail, seen, (avail_idx + 1) % Wrap)
            = Queue(avail, seen, avail_idx) \cup {avail[avail_idx % NUM]}
       /\ Apart(avail, seen, (avail_idx + 1) % Wrap)
  BY <1>8, <1>9, <1>10, QueueGrows, Zenon
<1>12. ToDevice' = ToDevice \cup {head[p]} /\ ToDriver' = ToDriver
  BY <1>1, <1>4, <1>11, Zenon DEF ToDevice, ToDriver
<1>13. Apart(avail', seen', avail_idx') /\ Apart(used', used_idx', used_end')
  BY <1>1, <1>11, Zenon DEF Rings
<1>14. head[p] \notin inflight /\ head[p] \notin ToDriver
  BY <1>5, Zenon DEF Rings
<1>15. QED
  BY <1>1, <1>6, <1>7, <1>12, <1>13, <1>14, Zenon DEF Rings

LEMMA RingsFetch ==
  ASSUME Types, Rings, Fetch
  PROVE  Rings'
<1>1. /\ inflight' = inflight \cup {avail[seen % NUM]} /\ seen' = (seen + 1) % Wrap
      /\ seen # avail_idx
      /\ UNCHANGED <<avail, avail_idx, used, used_end, used_idx, status, moved>>
      /\ UNCHANGED <<info, head, busy, pc>>
  BY Zenon DEF Fetch, desc
<1>2. /\ avail \in [Desc -> Desc] /\ seen \in 0 .. Wrap - 1 /\ avail_idx \in 0 .. Wrap - 1
      /\ Apart(avail, seen, avail_idx)
  BY Zenon DEF Types, Rings
<1>3. /\ avail[seen % NUM] \in Queue(avail, seen, avail_idx)
      /\ Queue(avail, (seen + 1) % Wrap, avail_idx)
            = Queue(avail, seen, avail_idx) \ {avail[seen % NUM]}
      /\ Apart(avail, (seen + 1) % Wrap, avail_idx)
  BY <1>1, <1>2, QueueShrinks, Zenon
<1>4. /\ avail[seen % NUM] \in ToDevice /\ ToDevice' = ToDevice \ {avail[seen % NUM]}
      /\ ToDriver' = ToDriver
  BY <1>1, <1>3, Zenon DEF ToDevice, ToDriver
<1>5. Apart(avail', seen', avail_idx') /\ Apart(used', used_idx', used_end')
  BY <1>1, <1>3, Zenon DEF Rings
<1>6. \A e : Sent(e) => Sent(e)'
  BY <1>1, Zenon DEF Sent, Pending
<1>7. QED
  BY <1>1, <1>4, <1>5, <1>6, Zenon DEF Rings

LEMMA RingsLoop ==
  ASSUME Types, Rings, IntrLoop
  PROVE  Rings'
<1> DEFINE id == used[used_idx % NUM]
           b == info[id]
<1>1. /\ used_idx' = (used_idx + 1) % Wrap /\ used_idx # used_end
      /\ busy' = [busy EXCEPT ![b] = FALSE]
      /\ pc' = [pc EXCEPT ![b] = IF @ = "sleep_b" THEN "woken" ELSE @]
      /\ UNCHANGED <<avail, avail_idx, seen, inflight, used, used_end, status, moved>>
      /\ UNCHANGED <<info, head>>
  BY Zenon DEF IntrLoop, dev, desc
<1>2. /\ used \in [Desc -> Desc] /\ used_idx \in 0 .. Wrap - 1 /\ used_end \in 0 .. Wrap - 1
      /\ Apart(used, used_idx, used_end)
  BY Zenon DEF Types, Rings
<1>3. /\ id \in Queue(used, used_idx, used_end)
      /\ Queue(used, (used_idx + 1) % Wrap, used_end) = Queue(used, used_idx, used_end) \ {id}
      /\ Apart(used, (used_idx + 1) % Wrap, used_end)
  BY <1>1, <1>2, QueueShrinks, Zenon
<1> HIDE DEF id
<1>4. id \in ToDriver /\ ToDriver' = ToDriver \ {id} /\ ToDevice' = ToDevice
  BY <1>1, <1>3, Zenon DEF ToDevice, ToDriver
<1>5. Apart(avail', seen', avail_idx') /\ Apart(used', used_idx', used_end')
  BY <1>1, <1>3, Zenon DEF Rings
<1>6. id \in Desc /\ b \in Procs /\ head[b] = id
  BY <1>4, SentIs, Zenon DEF Rings
<1> HIDE DEF b
<1>7. ASSUME NEW e, Sent(e), e # id PROVE Sent(e)'
  <2>1. /\ e \in Desc /\ info[e] \in Procs /\ head[info[e]] = e
        /\ pc[info[e]] \in {"check", "sleep_b", "woken"} /\ busy[info[e]]
    BY <1>7, SentIs, Zenon
  <2>2. info[e] # b
    BY <1>6, <1>7, <2>1, Zenon
  <2>3. pc'[info[e]] = pc[info[e]] /\ busy'[info[e]] = busy[info[e]]
    BY <1>1, <2>1, <2>2, Zenon DEF Types
  <2>4. QED
    BY <1>1, <2>1, <2>3, SentStays, Zenon
<1>8. QED
  BY <1>1, <1>4, <1>5, <1>7, Zenon DEF Rings

LEMMA RingsComplete ==
  ASSUME Types, Rings, \A q \in Procs : Owner(q), NEW h \in Desc, Complete(h)
  PROVE  Rings'
<1>1. /\ inflight' = inflight \ {h} /\ moved' = [moved EXCEPT ![req[h]] = TRUE]
      /\ status' = [status EXCEPT ![h] = 0] /\ used' = [used EXCEPT ![used_end % NUM] = h]
      /\ used_end' = (used_end + 1) % Wrap
      /\ UNCHANGED <<seen, avail, avail_idx, used_idx>> /\ UNCHANGED <<info, head, busy, pc>>
      /\ h \in inflight
  BY Zenon DEF Complete, desc
<1>2. Sent(h)
  BY <1>1, Zenon DEF Rings
<1>3. PICK p \in Procs : p = info[h] /\ p \in Pending /\ head[p] = h
  BY <1>2, SentIs, Zenon
<1>4. req[h] = p
  BY <1>3, Zenon DEF Owner
<1>5. /\ used \in [Desc -> Desc] /\ used_idx \in 0 .. Wrap - 1 /\ used_end \in 0 .. Wrap - 1
      /\ Apart(used, used_idx, used_end)
      /\ \A e \in Queue(used, used_idx, used_end) : Sent(e) /\ e # h
  <2>1. \A e \in ToDriver : Sent(e) /\ e # h
    BY <1>1, Zenon DEF Rings
  <2>2. QED
    BY <2>1, Zenon DEF Types, Rings, ToDriver
<1>6. Length(used_idx, used_end) + 1 < NUM /\ Length(used_idx, used_end) + 1 < Wrap
  BY <1>3, <1>5, RoomForChain, Zenon
<1> DEFINE new == used'
<1>7. new = Put(used, used_end, h)
  BY <1>1, Zenon DEF Put
<1> HIDE DEF new
<1>8. /\ Queue(new, used_idx, used_end) = Queue(used, used_idx, used_end)
      /\ Apart(new, used_idx, used_end) /\ new \in [Desc -> Desc] /\ new[used_end % NUM] = h
  <2>1. /\ used \in [Desc -> Desc] /\ used_idx \in 0 .. Wrap - 1
        /\ used_end \in 0 .. Wrap - 1 /\ Apart(used, used_idx, used_end)
        /\ Length(used_idx, used_end) + 1 < NUM
    BY <1>5, <1>6, Zenon
  <2>2. /\ Queue(Put(used, used_end, h), used_idx, used_end) = Queue(used, used_idx, used_end)
        /\ Apart(Put(used, used_end, h), used_idx, used_end)
        /\ Put(used, used_end, h) \in [Desc -> Desc] /\ Put(used, used_end, h)[used_end % NUM] = h
    BY <2>1, QueueWrite
  <2>3. QED
    BY <1>7, <2>2, Zenon
<1>9. new[used_end % NUM] \notin Queue(new, used_idx, used_end)
  BY <1>5, <1>8, Zenon
<1>10. /\ Queue(new, used_idx, (used_end + 1) % Wrap)
            = Queue(new, used_idx, used_end) \cup {new[used_end % NUM]}
       /\ Apart(new, used_idx, (used_end + 1) % Wrap)
  BY <1>5, <1>6, <1>8, <1>9, QueueGrows, Zenon
<1>11. /\ ToDevice' = ToDevice
       /\ ToDriver' = Queue(new, used_idx, (used_end + 1) % Wrap)
  BY <1>1, Zenon DEF ToDevice, ToDriver, new
<1>12. ToDriver' = ToDriver \cup {h}
  BY <1>8, <1>10, <1>11, Zenon DEF ToDriver
<1>13. Apart(avail', seen', avail_idx') /\ Apart(used', used_idx', used_end')
  BY <1>1, <1>10, Zenon DEF Rings, new
<1>14. \A e : Sent(e) => Sent(e)'
  BY <1>1, Zenon DEF Sent, Pending
<1>15. status'[h] = 0 /\ moved'[info[h]]
  <2>1. status'[h] = 0
    BY <1>1 DEF Types
  <2>2. moved'[p] = TRUE
    BY <1>1, <1>4, Zenon DEF Types
  <2>3. QED
    BY <1>3, <2>1, <2>2, Zenon
<1>16. ASSUME NEW e \in ToDriver PROVE status'[e] = 0 /\ moved'[info[e]]
  <2>1. e \in Desc /\ status[e] = 0 /\ info[e] \in Procs /\ moved[info[e]]
    BY <1>16, SentIs, Zenon DEF Rings
  <2>2. status'[e] = 0
    BY <1>1, <2>1, Zenon DEF Types
  <2>3. moved'[info[e]]
    BY <1>1, <2>1, Zenon DEF Types
  <2>4. QED
    BY <2>2, <2>3, Zenon
<1>17. h \notin ToDevice
  BY <1>1, Zenon DEF Rings
<1>18. QED
  BY <1>1, <1>2, <1>12, <1>11, <1>13, <1>14, <1>15, <1>16, <1>17, Zenon DEF Rings

LEMMA RingsStep ==
  ASSUME Types, Rings, \A q \in Procs : Owner(q) /\ Moves(q), [Next]_vars
  PROVE  Rings'
<1>1. \A q \in Procs : Owner(q)
  OBVIOUS
<1>2. ASSUME NEW p \in Procs, alloc(p) PROVE Rings'
  BY <1>1, <1>2, AllocIs, RingsAlloc, Zenon
<1>3. ASSUME NEW p \in Procs, Publish(p) PROVE Rings'
  BY <1>3, RingsPublish, Zenon
<1>4. CASE IntrLoop
  BY <1>4, RingsLoop, Zenon
<1>5. CASE Fetch
  BY <1>5, RingsFetch, Zenon
<1>6. ASSUME NEW h \in Desc, Complete(h) PROVE Rings'
  BY <1>1, <1>6, RingsComplete, Zenon
<1>7. CASE \/ IntrEnter \/ IntrExit \/ UNCHANGED vars
           \/ \E p \in Procs : \/ Request(p) \/ Lock(p) \/ allocFails(p) \/ Check(p)
                               \/ Finish(p) \/ Return(p)
  BY <1>1, <1>7, RingsQuiet, Zenon
<1>8. QED
  BY <1>2, <1>3, <1>4, <1>5, <1>6, <1>7, Zenon DEF Next, Driver, Intr, Device

\* Only one process is at work on the avail ring.
LEMMA OnePublishes ==
  ASSUME LockHeld, NEW p \in Procs, NEW q \in Procs, pc[p] \in {"alloc", "publish", "check"},
         pc[q] \in {"alloc", "publish", "check"}
  PROVE  q = p
BY Zenon DEF LockHeld

LEMMA MovesSame ==
  ASSUME NEW q \in Procs, Moves(q), pc'[q] = pc[q], busy'[q] = busy[q], moved'[q] = moved[q],
         head'[q] = head[q], UNCHANGED <<avail, avail_idx>>
  PROVE  Moves(q)'
BY Zenon DEF Moves, Pending

\* The lines of Moves by the place that the process is at.
LEMMA MovesIs ==
  ASSUME NEW q \in Procs
  PROVE  /\ pc'[q] \in {"check", "sleep_b", "woken"} /\ (busy'[q] \/ moved'[q]) => Moves(q)'
         /\ pc'[q] \in {"idle", "lock", "again", "alloc", "sleep_free"} => Moves(q)'
         /\ pc'[q] = "done" /\ moved'[q] => Moves(q)'
         /\ pc'[q] = "publish" /\ busy'[q] /\ avail'[avail_idx' % NUM] = head'[q] => Moves(q)'
BY Zenon DEF Moves, Pending

LEMMA MovesPublisher ==
  ASSUME Types, LockHeld, \A q \in Procs : Moves(q), NEW p \in Procs, NEW q \in Procs, q # p,
         pc[p] \in {"alloc", "publish", "check"}, pc'[q] = pc[q], busy'[q] = busy[q],
         moved'[q] = moved[q]
  PROVE  Moves(q)'
<1>1. pc[q] # "publish"
  BY OnePublishes, Zenon
<1>2. QED
  BY <1>1, Zenon DEF Moves, Pending

LEMMA MovesStep ==
  ASSUME Types, LockHeld, Rings, \A q \in Procs : Moves(q), [Next]_vars, NEW q \in Procs
  PROVE  Moves(q)'
<1>0. Moves(q)
  OBVIOUS
<1>1. ASSUME NEW p \in Procs, Request(p) PROVE Moves(q)'
  <2>1. CASE q = p
    <3>1. pc'[q] = "lock"
      BY <1>1, <2>1 DEF Request, Goto, Types
    <3>2. QED
      BY <3>1, MovesIs, Zenon
  <2>2. CASE q # p
    <3>1. pc'[q] = pc[q]
      BY <1>1, <2>2 DEF Request, Goto, Types
    <3>2. moved'[q] = moved[q] /\ busy' = busy /\ head' = head /\ UNCHANGED <<avail, avail_idx>>
      BY <1>1, <2>2, Zenon DEF Request, Types
    <3>3. QED
      BY <1>0, <3>1, <3>2, MovesSame, Zenon
  <2>3. QED
    BY <2>1, <2>2, Zenon
<1>2. ASSUME NEW p \in Procs, Lock(p) \/ Check(p) PROVE Moves(q)'
  <2>0. moved' = moved /\ busy' = busy /\ head' = head /\ UNCHANGED <<avail, avail_idx>>
    BY <1>2, Zenon DEF Lock, Check
  <2>1. CASE pc[q] \in {"check", "woken"} /\ q = p
    <3>1. pc'[q] \in {"check", "sleep_b"}
      BY <1>2, <2>1 DEF Lock, Check, Goto, Types
    <3>2. busy[q] \/ moved[q]
      BY <1>0, <2>1, Zenon DEF Moves, Pending
    <3>3. QED
      BY <2>0, <3>1, <3>2, MovesIs, Zenon
  <2>2. CASE pc[q] \notin {"check", "woken"} /\ q = p
    <3>1. pc'[q] = "alloc"
      BY <1>2, <2>2 DEF Lock, Check, Goto, Types
    <3>2. QED
      BY <3>1, MovesIs, Zenon
  <2>3. CASE q # p
    <3>1. pc'[q] = pc[q]
      BY <1>2, <2>3, Zenon DEF Lock, Check, Goto, Types
    <3>2. QED
      BY <1>0, <2>0, <3>1, MovesSame, Zenon
  <2>4. QED
    BY <2>1, <2>2, <2>3, Zenon
<1>3. ASSUME NEW p \in Procs, alloc(p) PROVE Moves(q)'
  <2>1. PICK T \in SUBSET free : \E h \in T : AllocWith(p, T, h)
    BY <1>3, AllocIs, Zenon
  <2>2. PICK h \in T : AllocWith(p, T, h)
    BY <2>1, Zenon
  <2>3. pc[p] = "alloc" /\ pc'[p] = "publish" /\ (q # p => pc'[q] = pc[q])
    BY <2>2 DEF AllocWith, Types
  <2>4. CASE q = p
    <3>0. busy' = [busy EXCEPT ![p] = TRUE] /\ busy \in [Procs -> BOOLEAN]
      BY <2>2, Zenon DEF AllocWith, Types
    <3>1. busy'[p] = TRUE
      BY <3>0, Zenon
    <3>2. avail'[avail_idx' % NUM] = h /\ head'[p] = h
      BY <2>2, IndexTypes DEF AllocWith, Types
    <3>3. QED
      BY <2>3, <2>4, <3>1, <3>2, MovesIs, Zenon
  <2>5. CASE q # p
    <3>1. busy'[q] = busy[q] /\ moved' = moved
      BY <2>2, <2>5, Zenon DEF AllocWith, Types
    <3>2. QED
      BY <2>3, <2>5, <3>1, MovesPublisher, Zenon
  <2>6. QED
    BY <2>4, <2>5, Zenon
<1>4. ASSUME NEW p \in Procs, allocFails(p) PROVE Moves(q)'
  <2>0. moved' = moved /\ busy' = busy /\ head' = head /\ UNCHANGED <<avail, avail_idx>>
    BY <1>4, Zenon DEF allocFails
  <2>1. pc'[q] = pc[q] \/ pc'[q] \in {"again", "sleep_free"}
    BY <1>4, FailWakes, Zenon
  <2>2. CASE pc'[q] = pc[q]
    BY <1>0, <2>0, <2>2, MovesSame, Zenon
  <2>3. QED
    BY <2>1, <2>2, MovesIs, Zenon
<1>5. ASSUME NEW p \in Procs, Publish(p) PROVE Moves(q)'
  <2>0. moved' = moved /\ busy' = busy /\ head' = head
    BY <1>5, Zenon DEF Publish
  <2>1. pc[p] = "publish" /\ pc'[p] = "check" /\ (q # p => pc'[q] = pc[q])
    BY <1>5 DEF Publish, Goto, Types
  <2>2. CASE q = p
    <3>1. busy[q]
      BY <1>0, <2>1, <2>2, Zenon DEF Moves
    <3>2. QED
      BY <2>0, <2>1, <2>2, <3>1, MovesIs, Zenon
  <2>3. QED
    BY <2>0, <2>1, <2>2, MovesPublisher, Zenon
<1>6. ASSUME NEW p \in Procs, Finish(p) PROVE Moves(q)'
  <2>0. moved' = moved /\ busy' = busy /\ head' = head /\ UNCHANGED <<avail, avail_idx>>
    BY <1>6, Zenon DEF Finish
  <2>1. CASE q = p
    <3>1. moved[q]
      BY <1>0, <1>6, <2>1, Zenon DEF Moves, Pending, Finish
    <3>2. pc'[q] = "done"
      BY <1>6, <2>1, FinishWakes, Zenon
    <3>3. QED
      BY <2>0, <3>1, <3>2, MovesIs, Zenon
  <2>2. CASE q # p
    <3>1. pc'[q] = pc[q] \/ pc'[q] = "again"
      BY <1>6, <2>2, FinishWakes, Zenon
    <3>2. CASE pc'[q] = pc[q]
      BY <1>0, <2>0, <3>2, MovesSame, Zenon
    <3>3. QED
      BY <3>1, <3>2, MovesIs, Zenon
  <2>3. QED
    BY <2>1, <2>2, Zenon
<1>7. ASSUME NEW p \in Procs, Return(p) PROVE Moves(q)'
  <2>0. moved' = moved /\ busy' = busy /\ UNCHANGED <<avail, avail_idx>>
    BY <1>7, Zenon DEF Return
  <2>1. CASE q = p
    <3>1. pc'[q] = "idle"
      BY <1>7, <2>1 DEF Return, Goto, Types
    <3>2. QED
      BY <3>1, MovesIs, Zenon
  <2>2. CASE q # p
    <3>1. pc'[q] = pc[q] /\ head'[q] = head[q]
      BY <1>7, <2>2 DEF Return, Goto, Types
    <3>2. QED
      BY <1>0, <2>0, <3>1, MovesSame, Zenon
  <2>3. QED
    BY <2>1, <2>2, Zenon
<1>8. CASE IntrLoop
  <2> DEFINE id == used[used_idx % NUM]
             b == info[id]
  <2>1. /\ id \in ToDriver /\ Sent(id) /\ id \in Desc /\ b \in Procs
    BY <1>8, LoopBuffer, Zenon
  <2>2. /\ busy' = [busy EXCEPT ![b] = FALSE]
        /\ pc' = [pc EXCEPT ![b] = IF @ = "sleep_b" THEN "woken" ELSE @]
        /\ moved' = moved /\ head' = head /\ UNCHANGED <<avail, avail_idx>>
    BY <1>8, Zenon DEF IntrLoop
  <2>3. moved[b] /\ pc[b] \in {"check", "sleep_b", "woken"}
    BY <2>1, SentIs, Zenon DEF Rings
  <2> HIDE DEF b, id
  <2>4. CASE q = b
    <3>1. pc'[q] \in {"check", "sleep_b", "woken"}
      BY <2>1, <2>2, <2>3, <2>4 DEF Types
    <3>2. QED
      BY <2>2, <2>3, <2>4, <3>1, MovesIs, Zenon
  <2>5. CASE q # b
    <3>1. pc'[q] = pc[q]
      BY <2>2, <2>5 DEF Types
    <3>2. busy'[q] = busy[q]
      BY <2>2, <2>5, Zenon DEF Types
    <3>3. QED
      BY <1>0, <2>2, <3>1, <3>2, MovesSame, Zenon
  <2>6. QED
    BY <2>4, <2>5, Zenon
<1>9. ASSUME NEW h \in Desc, Complete(h) PROVE Moves(q)'
  <2>1. moved' = [moved EXCEPT ![req[h]] = TRUE] /\ UNCHANGED <<avail, avail_idx, pc, busy, head>>
    BY <1>9, Zenon DEF Complete
  <2>2. moved[q] => moved'[q]
    BY <2>1, Zenon DEF Types
  <2>3. QED
    BY <1>0, <2>1, <2>2, Zenon DEF Moves, Pending
<1>10. CASE IntrEnter \/ IntrExit \/ Fetch \/ UNCHANGED vars
  <2>1. UNCHANGED <<avail, avail_idx, pc, busy, head, moved>>
    BY <1>10, Zenon DEF IntrEnter, IntrExit, Fetch, vars
  <2>2. QED
    BY <1>0, <2>1, MovesSame, Zenon
<1>11. QED
  BY <1>1, <1>2, <1>3, <1>4, <1>5, <1>6, <1>7, <1>8, <1>9, <1>10,
     Zenon DEF Next, Driver, Intr, Device

\* Lock is the process's when it gives it up.
LEMMA NotHandler ==
  ASSUME LockHeld, NEW p \in Procs, pc[p] \in {"alloc", "publish", "check"}
  PROVE  lock # Handler
BY VirtioAssumption, Zenon DEF LockHeld

LEMMA EnoughFree ==
  ASSUME Types, NEW T \in SUBSET free, Cardinality(T) = CHAIN
  PROVE  ~(Cardinality(free) < CHAIN)
<1>1. IsFiniteSet(free)
  BY DescFinite, FS_Subset, Zenon DEF Types
<1>2. Cardinality(T) <= Cardinality(free) /\ Cardinality(free) \in Nat
  BY <1>1, FS_Subset, FS_CardinalityType, Zenon
<1>3. QED
  BY <1>2, VirtioAssumption

LEMMA WakeupStep ==
  ASSUME Types, LockHeld, Rings, NoLostWakeup, [Next]_vars
  PROVE  NoLostWakeup'
<1> DEFINE Seen == used_idx # used_end => irq \/ lock = Handler
           Sleeps(q) == /\ pc[q] = "sleep_b" => busy[q]
                        /\ pc[q] = "sleep_free" => Cardinality(free) < CHAIN
<1>0. Seen /\ \A q \in Procs : Sleeps(q)
  BY Zenon DEF NoLostWakeup
<1>1. ASSUME NEW p \in Procs,
             Request(p) \/ Lock(p) \/ Publish(p) \/ Check(p) \/ Return(p) \/ allocFails(p) \/ Finish(p)
      PROVE  Seen'
  <2>1. irq' = irq /\ used_idx' = used_idx /\ used_end' = used_end
    BY <1>1, Zenon DEF Request, Lock, Publish, Check, Return, allocFails, Finish, dev
  <2>2. lock' = lock \/ lock # Handler
    BY <1>1, NotHandler, VirtioAssumption, Zenon
       DEF Request, Lock, Publish, Check, Return, allocFails, Finish
  <2>3. QED
    BY <1>0, <2>1, <2>2, Zenon
<1>2. ASSUME NEW p \in Procs, Request(p) \/ Lock(p) \/ Publish(p) \/ Return(p), NEW q \in Procs
      PROVE  Sleeps(q)'
  <2>1. free' = free /\ busy' = busy
    BY <1>2, Zenon DEF Request, Lock, Publish, Return, desc
  <2>2. pc'[q] = pc[q] \/ pc'[q] \notin {"sleep_b", "sleep_free"}
    BY <1>2 DEF Request, Lock, Publish, Return, Goto, Types
  <2>3. QED
    BY <1>0, <1>2, <2>1, <2>2, Zenon
<1>3. ASSUME NEW p \in Procs, Check(p), NEW q \in Procs PROVE Sleeps(q)'
  <2>1. free' = free /\ busy' = busy /\ busy[p]
    BY <1>3, Zenon DEF Check, desc
  <2>2. IF q = p THEN pc'[q] = "sleep_b" ELSE pc'[q] = pc[q]
    BY <1>3, Zenon DEF Check, Goto, Types
  <2>3. QED
    BY <1>0, <1>3, <2>1, <2>2, Zenon
<1>4. ASSUME NEW p \in Procs, allocFails(p), NEW q \in Procs PROVE Sleeps(q)'
  <2>1. free' = free /\ busy' = busy /\ Cardinality(free) < CHAIN
    BY <1>4, Zenon DEF allocFails, desc
  <2>2. pc'[q] = "sleep_b" => pc[q] = "sleep_b"
    BY <1>4, FailWakes, Zenon
  <2>3. QED
    BY <1>0, <1>4, <2>1, <2>2, Zenon
<1>5. ASSUME NEW p \in Procs, Finish(p), NEW q \in Procs PROVE Sleeps(q)'
  <2>1. busy' = busy
    BY <1>5, Zenon DEF Finish
  <2>2. pc'[q] # "sleep_free" /\ (pc'[q] = "sleep_b" => pc[q] = "sleep_b")
    BY <1>5, FinishWakes, Zenon
  <2>3. QED
    BY <1>0, <1>5, <2>1, <2>2, Zenon
<1>6. ASSUME NEW p \in Procs, alloc(p) PROVE NoLostWakeup'
  <2>1. PICK T \in SUBSET free : \E h \in T : AllocWith(p, T, h)
    BY <1>6, AllocIs, Zenon
  <2>2. PICK h \in T : AllocWith(p, T, h)
    BY <2>1, Zenon
  <2>3. UNCHANGED <<irq, used_idx, used_end, lock>> /\ Cardinality(T) = CHAIN
    BY <2>2, Zenon DEF AllocWith, dev
  <2>4. ASSUME NEW q \in Procs PROVE Sleeps(q)'
    <3>1. pc'[q] = "publish" \/ (pc'[q] = pc[q] /\ q # p)
      BY <2>2 DEF AllocWith, Types
    <3>2. pc[q] # "sleep_free"
      BY <1>0, <2>3, <2>4, EnoughFree, Zenon
    <3>3. q # p => busy'[q] = busy[q]
      BY <2>2, Zenon DEF AllocWith, Types
    <3>4. QED
      BY <1>0, <2>4, <3>1, <3>2, <3>3, Zenon
  <2>5. Seen'
    BY <1>0, <2>3, Zenon
  <2>6. QED
    BY <2>4, <2>5, Zenon DEF NoLostWakeup
<1>7. CASE IntrLoop
  <2> DEFINE b == info[used[used_idx % NUM]]
  <2>1. b \in Procs
    BY <1>7, LoopBuffer, Zenon
  <2>2. /\ busy' = [busy EXCEPT ![b] = FALSE]
        /\ pc' = [pc EXCEPT ![b] = IF @ = "sleep_b" THEN "woken" ELSE @]
        /\ free' = free /\ lock = Handler /\ lock' = lock
    BY <1>7, Zenon DEF IntrLoop, desc
  <2> HIDE DEF b
  <2>3. ASSUME NEW q \in Procs PROVE Sleeps(q)'
    <3>1. CASE q = b
      <4>1. pc'[q] # "sleep_b" /\ (pc'[q] = "sleep_free" => pc[q] = "sleep_free")
        BY <2>1, <2>2, <3>1, Zenon DEF Types
      <4>2. QED
        BY <1>0, <2>2, <2>3, <4>1, Zenon
    <3>2. CASE q # b
      <4>1. pc'[q] = pc[q]
        BY <2>2, <3>2 DEF Types
      <4>2. busy'[q] = busy[q]
        BY <2>2, <3>2, Zenon DEF Types
      <4>3. QED
        BY <1>0, <2>2, <2>3, <4>1, <4>2, Zenon
    <3>3. QED
      BY <3>1, <3>2, Zenon
  <2>4. QED
    BY <2>2, <2>3, Zenon DEF NoLostWakeup
<1>8. CASE IntrEnter \/ IntrExit \/ Fetch \/ (\E h \in Desc : Complete(h)) \/ UNCHANGED vars
  <2>1. UNCHANGED <<pc, busy, free>>
    BY <1>8, Zenon DEF IntrEnter, IntrExit, Fetch, Complete, vars, desc
  <2>2. Seen'
    <3>1. CASE IntrEnter
      BY <3>1, Zenon DEF IntrEnter
    <3>2. CASE IntrExit
      BY <3>2, Zenon DEF IntrExit, dev
    <3>3. CASE Fetch \/ UNCHANGED vars
      <4>1. UNCHANGED <<used_idx, used_end, irq, lock>>
        BY <3>3, Zenon DEF Fetch, vars, dev
      <4>2. QED
        BY <1>0, <4>1, Zenon
    <3>4. CASE \E h \in Desc : Complete(h)
      BY <3>4, Zenon DEF Complete
    <3>5. QED
      BY <1>8, <3>1, <3>2, <3>3, <3>4, Zenon
  <2>3. QED
    BY <1>0, <2>1, <2>2, Zenon DEF NoLostWakeup
<1>9. ASSUME NEW p \in Procs,
             Request(p) \/ Lock(p) \/ Publish(p) \/ Check(p) \/ Return(p) \/ allocFails(p) \/ Finish(p)
      PROVE  NoLostWakeup'
  <2>1. \A q \in Procs : Sleeps(q)'
    BY <1>2, <1>3, <1>4, <1>5, <1>9, Zenon
  <2>2. Seen'
    BY <1>1, <1>9, Zenon
  <2>3. QED
    BY <2>1, <2>2, Zenon DEF NoLostWakeup
<1>10. QED
  BY <1>6, <1>7, <1>8, <1>9, Zenon DEF Next, Driver, Intr, Device

-----------------------------------------------------------------------------
(* The theorems *)

LEMMA InitEstablishes == Init => IInv
<1> SUFFICES ASSUME Init PROVE IInv
  OBVIOUS
<1>1. Types
  BY ZeroIn, Zenon DEF Init, Types, Pcs
<1>2. Pending = {} /\ \A p \in Procs : pc[p] = "idle"
  BY Zenon DEF Init, Pending
<1>3. LockHeld
  BY VirtioAssumption, Zenon DEF Init, LockHeld
<1>4. Covered
  BY Zenon DEF Init, Covered
<1>5. Rings
  <2>1. 0 \in 0 .. Wrap - 1
    BY ZeroIn, Zenon
  <2>2. Length(0, 0) = 0
    BY <2>1, LengthType, Zenon
  <2>3. 0 .. Length(0, 0) - 1 = {}
    BY <2>2
  <2>4. ToDevice = {} /\ ToDriver = {}
    BY <2>3, Zenon DEF Init, ToDevice, ToDriver, Queue
  <2>5. Apart(avail, seen, avail_idx) /\ Apart(used, used_idx, used_end)
    BY <2>3, Zenon DEF Init, Apart
  <2>6. QED
    BY <2>4, <2>5, Zenon DEF Init, Rings
<1>6. NoLostWakeup
  BY <1>2, Zenon DEF Init, NoLostWakeup
<1>7. ASSUME NEW p \in Procs PROVE Owner(p) /\ Moves(p)
  BY <1>2, Zenon DEF Owner, Moves
<1>8. QED
  BY <1>1, <1>3, <1>4, <1>5, <1>6, <1>7, Zenon DEF IInv

\* The invariant of the disk driver: virtio_disk_rw(), virtio_disk_intr() and the
\* device keep the descriptors, the two rings and the flags b->disk consistent.
THEOREM VirtioInvariance == Spec => []IInv
<1>1. Init => IInv
  BY InitEstablishes, Zenon
<1>2. IInv /\ [Next]_vars => IInv'
  <2> SUFFICES ASSUME IInv, [Next]_vars PROVE IInv'
    OBVIOUS
  <2>1. /\ Types /\ LockHeld /\ Covered /\ Rings /\ NoLostWakeup
        /\ \A p \in Procs : Owner(p) /\ Moves(p)
    BY Zenon DEF IInv
  <2>2. Types'
    BY <2>1, TypesStep, Zenon
  <2>3. LockHeld'
    BY <2>1, LockHeldStep, Zenon
  <2>4. Covered' /\ \A p \in Procs : Owner(p)'
    BY <2>1, <2>2, OwnersStep, Zenon
  <2>5. Rings'
    BY <2>1, RingsStep, Zenon
  <2>6. NoLostWakeup'
    BY <2>1, WakeupStep, Zenon
  <2>7. \A p \in Procs : Moves(p)'
    BY <2>1, MovesStep, Zenon
  <2>8. QED
    BY <2>2, <2>3, <2>4, <2>5, <2>6, <2>7, Zenon DEF IInv
<1>3. QED
  BY <1>1, <1>2, PTL DEF Spec

LEMMA IInvOwned == IInv => DescriptorsOwned
<1> SUFFICES ASSUME IInv PROVE DescriptorsOwned
  OBVIOUS
<1>1. /\ Types /\ Covered /\ Rings /\ \A p \in Procs : Owner(p)
      /\ Pending \subseteq Procs /\ free \subseteq Desc
  BY Zenon DEF IInv, Types, Pending
<1>2. ASSUME NEW p \in Pending
      PROVE  /\ Cardinality(chain[head[p]]) = CHAIN /\ chain[head[p]] \cap free = {}
             /\ \A q \in Pending : q # p => chain[head[p]] \cap chain[head[q]] = {}
             /\ info[head[p]] = p /\ req[head[p]] = p
  BY <1>1, Zenon DEF Owner
<1>3. free = Desc \ UNION {chain[head[p]] : p \in Pending}
  <2>1. ASSUME NEW i \in free PROVE i \in Desc \ UNION {chain[head[p]] : p \in Pending}
    BY <1>1, <1>2
  <2>2. ASSUME NEW i \in Desc \ UNION {chain[head[p]] : p \in Pending} PROVE i \in free
    BY <1>1, Zenon DEF Covered
  <2>3. QED
    BY <2>1, <2>2, Zenon
<1>4. ASSUME NEW h, Sent(h)
      PROVE  \E p \in Pending : head[p] = h /\ req[h] = p /\ info[h] = p /\ busy[p]
  <2>1. info[h] \in Pending /\ head[info[h]] = h /\ busy[info[h]]
    BY <1>4, Zenon DEF Sent
  <2>2. PICK p \in Pending : p = info[h]
    BY <2>1, Zenon
  <2>3. req[h] = p
    BY <1>2, <2>1, <2>2, Zenon
  <2>4. QED
    BY <2>1, <2>2, <2>3, Zenon
<1>5. ASSUME NEW k \in 0 .. ((used_end - used_idx + Wrap) % Wrap) - 1
      PROVE  /\ status[used[(used_idx + k) % NUM]] = 0
             /\ \E p \in Pending : /\ info[used[(used_idx + k) % NUM]] = p
                                   /\ head[p] = used[(used_idx + k) % NUM] /\ busy[p]
  <2>1. used[(used_idx + k) % NUM] \in ToDriver
    BY <1>5, Zenon DEF ToDriver, Queue, Entry, Length
  <2>2. Sent(used[(used_idx + k) % NUM]) /\ status[used[(used_idx + k) % NUM]] = 0
    BY <1>1, <2>1, Zenon DEF Rings
  <2>3. QED
    BY <1>4, <2>2, Zenon
<1>6. \A h \in inflight : Sent(h)
  BY <1>1, Zenon DEF Rings
<1>7. /\ \A p \in Pending : Cardinality(chain[head[p]]) = CHAIN
      /\ \A p, q \in Pending : p # q => chain[head[p]] \cap chain[head[q]] = {}
  BY <1>2, Zenon
<1>8. \A h \in inflight :
        \E p \in Pending : head[p] = h /\ req[h] = p /\ info[h] = p /\ busy[p]
  BY <1>4, <1>6, Zenon
<1>9. QED
  BY <1>3, <1>5, <1>7, <1>8, Zenon DEF DescriptorsOwned

\* A descriptor is free or belongs to one request, and whatever the device or the
\* rings name is a chain whose request still waits for it.
THEOREM ChainsOwned == Spec => []DescriptorsOwned
BY VirtioInvariance, IInvOwned, PTL

\* virtio_disk_rw() returns only when the device has transferred the block.
THEOREM ReturnsTransferred == Spec => []Transferred
<1>1. IInv => Transferred
  BY Zenon DEF IInv, Moves, Transferred
<1>2. QED
  BY <1>1, VirtioInvariance, PTL

\* No completion is overlooked by virtio_disk_intr(), and nobody sleeps for a
\* buffer or a descriptor that is there already.
THEOREM CompletionsSeen == Spec => []NoLostWakeup
<1>1. IInv => NoLostWakeup
  BY Zenon DEF IInv
<1>2. QED
  BY <1>1, VirtioInvariance, PTL
=============================================================================
