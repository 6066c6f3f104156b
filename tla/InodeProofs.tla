---------------------------- MODULE InodeProofs -----------------------------
(***************************************************************************)
(* Module Inode for any number of processes and inodes, any file system to *)
(* start from and any system calls: ip->ref counts the pointers to an      *)
(* inode.                                                                  *)
(***************************************************************************)
EXTENDS Inode, FiniteSetTheorems, WellFoundedInduction, TLAPS

-----------------------------------------------------------------------------
(* Sets and sequences *)

\* A non-empty set of numbers has a smallest one.
LEMMA Least ==
  ASSUME NEW S \in SUBSET Nat, S # {}
  PROVE  \E x \in S : \A y \in S : x <= y
<1>1. PICK x \in S : \A y \in S : ~(<<y, x>> \in OpToRel(<, Nat))
  BY NatLessThanWellFounded, WFMin, Zenon
<1>2. ASSUME NEW y \in S PROVE x <= y
  <2>1. ASSUME y < x PROVE <<y, x>> \in OpToRel(<, Nat)
    BY <2>1, Zenon DEF OpToRel
  <2>2. ~(y < x)
    BY <1>1, <2>1, Zenon
  <2>3. QED
    BY <2>2
<1>3. QED
  BY <1>2, Zenon

LEMMA MinIn ==
  ASSUME NEW S \in SUBSET Nat, S # {}
  PROVE  Min(S) \in S
BY Least, Zenon DEF Min

\* The pairs <<p, 1>>, ..., <<p, h[p]>> for every p: as many as the sum of h.
Units(h) == UNION {{p} \X (1 .. h[p]) : p \in Procs}

LEMMA InUnits ==
  ASSUME NEW h \in [Procs -> Nat]
  PROVE  \A x : x \in Units(h) <=> \E p \in Procs : \E k \in 1 .. h[p] : x = <<p, k>>
<1>1. ASSUME NEW x, x \in Units(h)
      PROVE  \E p \in Procs : \E k \in 1 .. h[p] : x = <<p, k>>
  <2>1. PICK p \in Procs : x \in {p} \X (1 .. h[p])
    BY <1>1, Zenon DEF Units
  <2>2. QED
    BY <2>1
<1>2. ASSUME NEW p \in Procs, NEW k \in 1 .. h[p] PROVE <<p, k>> \in Units(h)
  <2>1. <<p, k>> \in {p} \X (1 .. h[p])
    OBVIOUS
  <2>2. QED
    BY <2>1, Zenon DEF Units
<1>3. QED
  BY <1>1, <1>2, Zenon

LEMMA UnitsUp ==
  ASSUME NEW h \in [Procs -> Nat], NEW g \in [Procs -> Nat], NEW p \in Procs,
         g[p] = h[p] + 1, \A q \in Procs : q # p => g[q] = h[q],
         IsFiniteSet(Units(h))
  PROVE  IsFiniteSet(Units(g)) /\ Cardinality(Units(g)) = Cardinality(Units(h)) + 1
<1>h. \A y : y \in Units(h) <=> \E q \in Procs : \E k \in 1 .. h[q] : y = <<q, k>>
  BY InUnits, Zenon
<1>g. \A y : y \in Units(g) <=> \E q \in Procs : \E k \in 1 .. g[q] : y = <<q, k>>
  BY InUnits, Zenon
<1> DEFINE x == <<p, g[p]>>
<1>0. h[p] \in Nat /\ g[p] \in 1 .. g[p] /\ g[p] \notin 1 .. h[p]
  OBVIOUS
<1>1. x \notin Units(h)
  <2> SUFFICES ASSUME x \in Units(h) PROVE FALSE
    OBVIOUS
  <2>a. PICK q \in Procs : \E k \in 1 .. h[q] : x = <<q, k>>
    BY <1>h, Zenon
  <2>1. PICK k \in 1 .. h[q] : x = <<q, k>>
    BY <2>a, Zenon
  <2>2. q = p /\ k = g[p]
    BY <2>1, Zenon
  <2>3. QED
    BY <1>0, <2>2, Zenon
<1>2. Units(g) = Units(h) \cup {x}
  <2>1. ASSUME NEW y \in Units(g) PROVE y \in Units(h) \cup {x}
    <3>a. PICK q \in Procs : \E k \in 1 .. g[q] : y = <<q, k>>
      BY <1>g, Zenon
    <3>1. PICK k \in 1 .. g[q] : y = <<q, k>>
      BY <3>a, Zenon
    <3>2. CASE q = p /\ k = g[p]
      BY <3>1, <3>2, Zenon
    <3>3. CASE q = p /\ k # g[p]
      <4>1. k \in 1 .. h[q]
        BY <1>0, <3>3
      <4>2. QED
        BY <3>1, <4>1, <1>h, Zenon
    <3>4. CASE q # p
      <4>1. k \in 1 .. h[q]
        BY <3>4, Zenon
      <4>2. QED
        BY <3>1, <4>1, <1>h, Zenon
    <3>5. QED
      BY <3>2, <3>3, <3>4, Zenon
  <2>2. ASSUME NEW y \in Units(h) PROVE y \in Units(g)
    <3>a. PICK q \in Procs : \E k \in 1 .. h[q] : y = <<q, k>>
      BY <1>h, Zenon
    <3>1. PICK k \in 1 .. h[q] : y = <<q, k>>
      BY <3>a, Zenon
    <3>2. k \in 1 .. g[q]
      <4>1. g[q] = h[q] \/ g[q] = h[q] + 1
        OBVIOUS
      <4>2. h[q] \in Nat
        OBVIOUS
      <4>3. QED
        BY <4>1, <4>2
    <3>3. QED
      BY <3>1, <3>2, <1>g, Zenon
  <2>3. x \in Units(g)
    BY <1>0, <1>g, Zenon
  <2>4. QED
    BY <2>1, <2>2, <2>3, Zenon
<1> HIDE DEF x
<1>3. QED
  BY <1>1, <1>2, FS_AddElement

LEMMA UnitsDown ==
  ASSUME NEW h \in [Procs -> Nat], NEW g \in [Procs -> Nat], NEW p \in Procs,
         h[p] = g[p] + 1, \A q \in Procs : q # p => g[q] = h[q],
         IsFiniteSet(Units(h))
  PROVE  IsFiniteSet(Units(g)) /\ Cardinality(Units(g)) = Cardinality(Units(h)) - 1
<1>1. Units(g) \subseteq Units(h)
  <2> SUFFICES ASSUME NEW y \in Units(g) PROVE y \in Units(h)
    OBVIOUS
  <2>0. \A x : x \in Units(g) <=> \E q \in Procs : \E k \in 1 .. g[q] : x = <<q, k>>
    BY InUnits, Zenon
  <2>a. PICK q \in Procs : \E k \in 1 .. g[q] : y = <<q, k>>
    BY <2>0, Zenon
  <2>1. PICK k \in 1 .. g[q] : y = <<q, k>>
    BY <2>a, Zenon
  <2>2. h[q] = g[q] \/ h[q] = g[q] + 1
    OBVIOUS
  <2>3. g[q] \in Nat
    OBVIOUS
  <2>4. k \in 1 .. h[q]
    BY <2>2, <2>3
  <2>5. QED
    BY <2>1, <2>4, InUnits, Zenon
<1>2. IsFiniteSet(Units(g))
  BY <1>1, FS_Subset, Zenon
<1>3. \A q \in Procs : q # p => h[q] = g[q]
  OBVIOUS
<1>4. Cardinality(Units(h)) = Cardinality(Units(g)) + 1
  BY <1>2, <1>3, UnitsUp, Zenon
<1>5. QED
  BY <1>2, <1>4, FS_CardinalityType

-----------------------------------------------------------------------------
(* The invariant *)

\* STRING, with the literals of the model: that these are strings is not a fact
\* the provers have.
Str == STRING \cup {"none", ".", "..", "free", "link", "unlink", "create", "open", "chdir"}

Inum0 == 0 .. NINODES
Entries == [name : Str, inum : Inum0]
Nodes == [Inums -> [type : Str, nlink : Int, ents : Seq(Entries)]]
Cores == [Inums -> [ref : Int, valid : BOOLEAN, lock : Procs \cup {NoProc},
                    type : Str, nlink : Int]]
Pcs == {"user", "namex", "found", "link_bad", "unlink_ip", "unlink_dec", "create_old",
        "create_new", "created", "end_op"}
Pending == [inum : Inums, unlock : BOOLEAN]
Recs == [pc : Pcs, op : Str, type : Str, path : Seq(Str), new : Seq(Str),
         name : Str, w : Inum0, ip : Inum0, dp : Inum0, puts : Seq(Pending),
         at : {"none", "free", "drop"}, up : BOOLEAN]
Calls == [op : {"link", "unlink", "create", "open", "chdir"}, type : Str,
          path : Seq(Str), new : Seq(Str)]

Types ==
  /\ disk \in Nodes /\ committed \in Nodes /\ core \in Cores
  /\ proc \in [Procs -> Recs]
  /\ cwd \in [Procs -> Inums] /\ ofile \in [Procs -> Inum0]
  /\ \A c \in calls : c \in Calls

\* Which of its pointers a process has set, by where it is.
Shape(r) ==
  /\ Len(r.puts) <= 2 /\ (r.at # "none" => r.puts # <<>>)
  /\ r.w # 0 <=> r.pc \in {"namex", "found"}
  /\ r.dp # 0 <=> r.pc \in {"unlink_ip", "create_new"}
  /\ r.pc \in {"link_bad", "unlink_ip", "unlink_dec", "create_old", "create_new", "created"}
       => r.ip # 0
  /\ r.pc \in {"namex", "found"} /\ r.ip # 0 => r.op = "link"
  /\ r.pc = "user" => r.ip = 0 /\ r.puts = <<>>
  /\ r.pc = "namex" => r.path # <<>>

\* Holds(p, i) in terms of the state of p.
PutCount(s, i) ==
  (IF 1 <= Len(s) THEN One(s[1].inum, i) ELSE 0) + (IF 2 <= Len(s) THEN One(s[2].inum, i) ELSE 0)

HoldsOf(r, c, o, i) ==
  PutCount(r.puts, i) + One(r.w, i) + One(r.ip, i) + One(r.dp, i)
  + (IF r.pc = "end_op" /\ r.ip # 0 THEN 0 ELSE One(c, i)) + One(o, i)

\* The inductive invariant.
IInv ==
  /\ Types
  /\ \A p \in Procs : Shape(proc[p])
  /\ \A i \in Inums : IsFiniteSet(Pointers(i)) /\ core[i].ref = Cardinality(Pointers(i))

LEMMA Literals ==
  {"none", ".", "..", "free", "link", "unlink", "create", "open", "chdir"} \subseteq Str
BY Zenon DEF Str

LEMMA OneType ==
  ASSUME NEW x, NEW i
  PROVE  One(x, i) \in {0, 1}
BY Zenon DEF One

LEMMA OneNone ==
  ASSUME NEW i \in Inums
  PROVE  One(0, i) = 0
BY DEF One, Inums

LEMMA Sizes ==
  Cardinality({}) = 0 /\ Cardinality({1}) = 1 /\ Cardinality({2}) = 1 /\ Cardinality({1, 2}) = 2
<1>1. Cardinality({}) = 0
  BY FS_EmptySet, Zenon
<1>2. IsFiniteSet({1}) /\ Cardinality({1}) = 1 /\ Cardinality({2}) = 1
  BY FS_Singleton, Zenon
<1>3. 2 \notin {1} /\ {1, 2} = {1} \cup {2}
  OBVIOUS
<1>4. Cardinality({1} \cup {2}) = Cardinality({1}) + 1
  BY <1>2, <1>3, FS_AddElement, Zenon
<1>5. QED
  BY <1>1, <1>2, <1>3, <1>4

LEMMA UpToTwo ==
  ASSUME NEW n \in Nat, n <= 2
  PROVE  n = 0 \/ n = 1 \/ n = 2
OBVIOUS

LEMMA OneOrTwo ==
  ASSUME NEW n \in Nat, n # 0, n <= 2
  PROVE  n \in 1 .. 2
OBVIOUS

LEMMA Lengths ==
  0 <= 1 /\ 0 <= 2 /\ 1 <= 1 /\ 1 <= 2 /\ 2 <= 2
OBVIOUS

LEMMA HeadTail ==
  ASSUME NEW S, NEW s \in Seq(S), s # <<>>, Len(s) <= 2
  PROVE  /\ s[1] \in S /\ Tail(s) \in Seq(S) /\ Len(Tail(s)) = Len(s) - 1
         /\ Len(s) = 2 => Tail(s)[1] = s[2]
OBVIOUS

LEMMA IdleRec == Idle \in Recs
<1>1. /\ "user" \in Pcs /\ "none" \in Str /\ <<>> \in Seq(Str) /\ FALSE \in BOOLEAN
      /\ "none" \in {"none", "free", "drop"} /\ 0 \in Inum0 /\ <<>> \in Seq(Pending)
  <2>1. 0 \in Inum0
    BY InodeAssumption DEF Inum0
  <2>2. QED
    BY <2>1, Literals DEF Pcs
<1>2. QED
  BY <1>1, Zenon DEF Recs, Idle

\* Records of a process that differ in some fields.
LEMMA SetFields ==
  ASSUME NEW r \in Recs, NEW pc \in Pcs, NEW w \in Inum0, NEW path \in Seq(Str),
         NEW s \in Seq(Pending)
  PROVE  [r EXCEPT !.pc = pc, !.w = w, !.path = path, !.puts = s] \in Recs
BY Zenon DEF Recs

LEMMA PutsCounted ==
  ASSUME NEW s \in Seq(Pending), Len(s) <= 2, NEW i
  PROVE  Cardinality({k \in DOMAIN s : s[k].inum = i}) = PutCount(s, i)
<1> DEFINE K == {k \in DOMAIN s : s[k].inum = i}
<1>1. DOMAIN s = 1 .. Len(s)
  OBVIOUS
<1>0. Len(s) \in Nat
  OBVIOUS
<1>2. CASE Len(s) = 0
  <2>1. K = {}
    BY <1>1, <1>2
  <2>2. PutCount(s, i) = 0
    BY <1>2 DEF PutCount
  <2> HIDE DEF K
  <2>3. Cardinality(K) = PutCount(s, i)
    BY <2>1, <2>2, Sizes, Zenon
  <2>4. QED
    BY <2>3, Zenon DEF K
<1>3. CASE Len(s) = 1
  <2>1. PutCount(s, i) = One(s[1].inum, i)
    BY <1>3, OneType DEF PutCount
  <2>2. K = IF s[1].inum = i THEN {1} ELSE {}
    BY <1>1, <1>3
  <2> HIDE DEF K
  <2>3. Cardinality(K) = PutCount(s, i)
    BY <2>1, <2>2, Sizes, Zenon DEF One
  <2>4. QED
    BY <2>3, Zenon DEF K
<1>4. CASE Len(s) = 2
  <2>1. PutCount(s, i) = One(s[1].inum, i) + One(s[2].inum, i)
    BY <1>4, OneType DEF PutCount
  <2>2. K = (IF s[1].inum = i THEN {1} ELSE {}) \cup (IF s[2].inum = i THEN {2} ELSE {})
    BY <1>1, <1>4
  <2> HIDE DEF K
  <2>3. 1 + 1 = 2 /\ 1 + 0 = 1 /\ 0 + 1 = 1 /\ 0 + 0 = 0
    OBVIOUS
  <2>4. CASE s[1].inum = i /\ s[2].inum = i
    <3>1. K = {1, 2}
      BY <2>2, <2>4, Zenon
    <3>2. One(s[1].inum, i) = 1 /\ One(s[2].inum, i) = 1
      BY <2>4, Zenon DEF One
    <3>3. Cardinality(K) = PutCount(s, i)
      BY <2>1, <2>3, <3>1, <3>2, Sizes, Zenon
    <3>4. QED
      BY <3>3, Zenon DEF K
  <2>5. CASE s[1].inum = i /\ s[2].inum # i
    <3>1. K = {1}
      BY <2>2, <2>5, Zenon
    <3>2. One(s[1].inum, i) = 1 /\ One(s[2].inum, i) = 0
      BY <2>5, Zenon DEF One
    <3>3. Cardinality(K) = PutCount(s, i)
      BY <2>1, <2>3, <3>1, <3>2, Sizes, Zenon
    <3>4. QED
      BY <3>3, Zenon DEF K
  <2>6. CASE s[1].inum # i /\ s[2].inum = i
    <3>1. K = {2}
      BY <2>2, <2>6, Zenon
    <3>2. One(s[1].inum, i) = 0 /\ One(s[2].inum, i) = 1
      BY <2>6, Zenon DEF One
    <3>3. Cardinality(K) = PutCount(s, i)
      BY <2>1, <2>3, <3>1, <3>2, Sizes, Zenon
    <3>4. QED
      BY <3>3, Zenon DEF K
  <2>7. CASE s[1].inum # i /\ s[2].inum # i
    <3>1. K = {}
      BY <2>2, <2>7, Zenon
    <3>2. One(s[1].inum, i) = 0 /\ One(s[2].inum, i) = 0
      BY <2>7, Zenon DEF One
    <3>3. Cardinality(K) = PutCount(s, i)
      BY <2>1, <2>3, <3>1, <3>2, Sizes, Zenon
    <3>4. QED
      BY <3>3, Zenon DEF K
  <2>8. QED
    BY <2>4, <2>5, <2>6, <2>7, Zenon
<1>5. Len(s) = 0 \/ Len(s) = 1 \/ Len(s) = 2
  BY <1>0, UpToTwo, Zenon
<1>6. QED
  BY <1>2, <1>3, <1>4, <1>5, Zenon

LEMMA HoldsType ==
  ASSUME NEW r, NEW c, NEW o, NEW i
  PROVE  HoldsOf(r, c, o, i) \in Nat
<1>1. PutCount(r.puts, i) \in Nat
  BY OneType DEF PutCount
<1>2. QED
  BY <1>1, OneType DEF HoldsOf

\* A step of p that changes p's pointers as it changes the counts, by one
\* reference at most.
Moves(p, r, c, o, up, down) ==
  /\ r \in Recs /\ Shape(r) /\ proc' = [proc EXCEPT ![p] = r]
  /\ c \in Inums /\ cwd' = [cwd EXCEPT ![p] = c]
  /\ o \in Inum0 /\ ofile' = [ofile EXCEPT ![p] = o]
  /\ disk' \in Nodes /\ committed' \in Nodes /\ core' \in Cores /\ calls' = calls
  /\ up \in Inum0 /\ down \in Inum0 /\ (up = 0 \/ down = 0)
  /\ \A i \in Inums : core'[i].ref = core[i].ref + One(up, i) - One(down, i)
  /\ \A i \in Inums : HoldsOf(r, c, o, i) =
       HoldsOf(proc[p], cwd[p], ofile[p], i) + One(up, i) - One(down, i)

LEMMA Moved ==
  ASSUME IInv, NEW p \in Procs, NEW r, NEW c, NEW o, NEW up, NEW down, Moves(p, r, c, o, up, down)
  PROVE  IInv'
<1>0. /\ r \in Recs /\ Shape(r) /\ proc' = [proc EXCEPT ![p] = r]
      /\ c \in Inums /\ cwd' = [cwd EXCEPT ![p] = c]
      /\ o \in Inum0 /\ ofile' = [ofile EXCEPT ![p] = o]
      /\ disk' \in Nodes /\ committed' \in Nodes /\ core' \in Cores /\ calls' = calls
      /\ up \in Inum0 /\ down \in Inum0 /\ (up = 0 \/ down = 0)
      /\ \A i \in Inums : core'[i].ref = core[i].ref + One(up, i) - One(down, i)
      /\ \A i \in Inums : HoldsOf(r, c, o, i) =
           HoldsOf(proc[p], cwd[p], ofile[p], i) + One(up, i) - One(down, i)
  BY Zenon DEF Moves
<1> USE <1>0
<1>1. /\ proc \in [Procs -> Recs] /\ cwd \in [Procs -> Inums] /\ ofile \in [Procs -> Inum0]
      /\ core \in Cores /\ \A q \in Procs : Shape(proc[q])
  BY Zenon DEF IInv, Types
<1>2. Types'
  <2>1. proc' \in [Procs -> Recs] /\ cwd' \in [Procs -> Inums] /\ ofile' \in [Procs -> Inum0]
    BY <1>1, Zenon
  <2>2. \A x \in calls' : x \in Calls
    BY Zenon DEF IInv, Types
  <2>3. QED
    BY <2>1, <2>2, Zenon DEF Types
<1>3. ASSUME NEW q \in Procs
      PROVE  /\ proc'[q] = (IF q = p THEN r ELSE proc[q])
             /\ cwd'[q] = (IF q = p THEN c ELSE cwd[q])
             /\ ofile'[q] = (IF q = p THEN o ELSE ofile[q])
  BY <1>1, Zenon
<1>4. ASSUME NEW q \in Procs PROVE Shape(proc[q])'
  BY <1>1, <1>3, Zenon
<1>5. ASSUME NEW i \in Inums
      PROVE  IsFiniteSet(Pointers(i)') /\ core'[i].ref = Cardinality(Pointers(i)')
  <2> DEFINE h == [q \in Procs |-> HoldsOf(proc[q], cwd[q], ofile[q], i)]
             g == [q \in Procs |-> HoldsOf(proc'[q], cwd'[q], ofile'[q], i)]
  <2>1. Pointers(i) = Units(h)
    <3>1. ASSUME NEW q \in Procs PROVE Holds(q, i) = h[q]
      <4>1. proc[q].puts \in Seq(Pending) /\ Len(proc[q].puts) <= 2
        BY <1>1, Zenon DEF Recs, Shape
      <4>2. Cardinality({k \in DOMAIN proc[q].puts : proc[q].puts[k].inum = i})
              = PutCount(proc[q].puts, i)
        BY <4>1, PutsCounted, Zenon
      <4>3. QED
        BY <4>2, Zenon DEF Holds, HoldsOf
    <3>2. QED
      BY <3>1, Zenon DEF Pointers, Units
  <2>2. Pointers(i)' = Units(g)
    <3>1. ASSUME NEW q \in Procs PROVE Holds(q, i)' = g[q]
      <4>1. proc'[q].puts \in Seq(Pending) /\ Len(proc'[q].puts) <= 2
        BY <1>2, <1>4, Zenon DEF Types, Recs, Shape
      <4>2. Cardinality({k \in DOMAIN proc'[q].puts : proc'[q].puts[k].inum = i})
              = PutCount(proc'[q].puts, i)
        BY <4>1, PutsCounted, Zenon
      <4>3. Holds(q, i)' = HoldsOf(proc'[q], cwd'[q], ofile'[q], i)
        BY <4>2, Zenon DEF Holds, HoldsOf, One
      <4>4. QED
        BY <4>3, Zenon
    <3>2. QED
      BY <3>1, Zenon DEF Pointers, Units
  <2>3. h \in [Procs -> Nat] /\ g \in [Procs -> Nat]
    BY HoldsType, Zenon
  <2>a. h[p] = HoldsOf(proc[p], cwd[p], ofile[p], i)
    BY Zenon
  <2>b. proc'[p] = r /\ cwd'[p] = c /\ ofile'[p] = o
    BY <1>3, Zenon
  <2>c. g[p] = HoldsOf(r, c, o, i)
    BY <2>b, Zenon
  <2>d. ASSUME NEW q \in Procs, q # p PROVE g[q] = h[q]
    <3>1. proc'[q] = proc[q] /\ cwd'[q] = cwd[q] /\ ofile'[q] = ofile[q]
      BY <1>3, <2>d, Zenon
    <3>2. g[q] = HoldsOf(proc'[q], cwd'[q], ofile'[q], i)
      BY Zenon
    <3>3. h[q] = HoldsOf(proc[q], cwd[q], ofile[q], i)
      BY Zenon
    <3> HIDE DEF g, h
    <3>4. QED
      BY <3>1, <3>2, <3>3, Zenon
  <2>5. g[p] = h[p] + One(up, i) - One(down, i)
    BY <2>a, <2>c, Zenon
  <2> HIDE DEF h, g
  <2>6. IsFiniteSet(Units(h)) /\ core[i].ref = Cardinality(Units(h)) /\ core[i].ref \in Int
    <3>1. core[i].ref \in Int
      BY <1>1, Zenon DEF Cores
    <3>2. QED
      BY <2>1, <3>1, Zenon DEF IInv
  <2>7. core'[i].ref = core[i].ref + One(up, i) - One(down, i)
    OBVIOUS
  <2>0. h[p] \in Nat /\ g[p] \in Nat
    BY <2>3, Zenon
  <2>8. CASE One(up, i) = 1 /\ One(down, i) = 0
    <3>1. g[p] = h[p] + 1 /\ core'[i].ref = core[i].ref + 1
      BY <2>0, <2>5, <2>6, <2>7, <2>8
    <3>2. IsFiniteSet(Units(g)) /\ Cardinality(Units(g)) = Cardinality(Units(h)) + 1
      BY <2>3, <2>d, <2>6, <3>1, UnitsUp, Zenon
    <3>3. QED
      BY <2>2, <2>6, <3>1, <3>2, Zenon
  <2>9. CASE One(up, i) = 0 /\ One(down, i) = 1
    <3>1. h[p] = g[p] + 1 /\ core'[i].ref = core[i].ref - 1
      BY <2>0, <2>5, <2>6, <2>7, <2>9
    <3>2. IsFiniteSet(Units(g)) /\ Cardinality(Units(g)) = Cardinality(Units(h)) - 1
      BY <2>3, <2>d, <2>6, <3>1, UnitsDown, Zenon
    <3>3. QED
      BY <2>2, <2>6, <3>1, <3>2, Zenon
  <2>10. CASE One(up, i) = 0 /\ One(down, i) = 0
    <3>1. g[p] = h[p] /\ core'[i].ref = core[i].ref
      BY <2>0, <2>5, <2>6, <2>7, <2>10
    <3>2. \A q \in Procs : g[q] = h[q]
      BY <2>d, <3>1, Zenon
    <3>3. Units(g) = Units(h)
      BY <3>2, Zenon DEF Units
    <3>4. QED
      BY <2>2, <2>6, <3>1, <3>3, Zenon
  <2>11. QED
    BY <2>8, <2>9, <2>10, OneType, OneNone, Zenon
<1>6. QED
  BY <1>2, <1>4, <1>5, Zenon DEF IInv

-----------------------------------------------------------------------------
(* The operators of the model *)

CoreRec == [ref : Int, valid : BOOLEAN, lock : Procs \cup {NoProc}, type : Str, nlink : Int]

LEMMA RefSet ==
  ASSUME NEW y \in CoreRec, NEW n \in Int, NEW b \in BOOLEAN
  PROVE  [y EXCEPT !.ref = n, !.valid = b] \in CoreRec /\ [y EXCEPT !.ref = n, !.valid = b].ref = n
BY Zenon DEF CoreRec

LEMMA IgetIs ==
  ASSUME NEW c \in Cores, NEW i \in Inums
  PROVE  iget(c, i) \in Cores /\ \A j \in Inums : iget(c, i)[j].ref = c[j].ref + One(i, j)
<1> DEFINE n == c[i].ref + 1
           b == c[i].valid /\ c[i].ref > 0
           x == [c[i] EXCEPT !.ref = n, !.valid = b]
<1>0. c[i] \in CoreRec
  BY Zenon DEF Cores, CoreRec
<1>1. iget(c, i) = [c EXCEPT ![i] = x]
  BY Zenon DEF iget, Cores
<1>2. n \in Int /\ b \in BOOLEAN
  BY <1>0 DEF CoreRec
<1> HIDE DEF n, b
<1>3. x \in CoreRec /\ x.ref = n
  BY <1>0, <1>2, RefSet, Zenon
<1> HIDE DEF x
<1>4. iget(c, i) \in Cores
  BY <1>1, <1>3, Zenon DEF Cores, CoreRec
<1>5. ASSUME NEW j \in Inums PROVE iget(c, i)[j].ref = c[j].ref + One(i, j)
  <2>1. c[j].ref \in Int
    BY Zenon DEF Cores
  <2>2. iget(c, i)[j] = IF j = i THEN x ELSE c[j]
    BY <1>1, Zenon DEF Cores
  <2>3. QED
    BY <1>3, <2>1, <2>2 DEF One, n
<1>6. QED
  BY <1>4, <1>5, Zenon

SameRefs(c, d) == \A j \in Inums : d[j].ref = c[j].ref

LEMMA IlockIs ==
  ASSUME disk \in Nodes, NEW c \in Cores, NEW i \in Inums, NEW p \in Procs
  PROVE  ilock(c, i, p) \in Cores /\ SameRefs(c, ilock(c, i, p))
<1> DEFINE x == IF c[i].valid THEN [c[i] EXCEPT !.lock = p]
                ELSE [c[i] EXCEPT !.lock = p, !.valid = TRUE, !.type = disk[i].type,
                                  !.nlink = disk[i].nlink]
<1>1. ilock(c, i, p) = [c EXCEPT ![i] = x]
  BY Zenon DEF ilock, Cores
<1>2. x \in [ref : Int, valid : BOOLEAN, lock : Procs \cup {NoProc}, type : Str, nlink : Int]
      /\ x.ref = c[i].ref
  BY Zenon DEF Cores, Nodes
<1> HIDE DEF x
<1>3. QED
  BY <1>1, <1>2, Zenon DEF Cores, SameRefs

LEMMA IunlockIs ==
  ASSUME NEW c \in Cores, NEW i \in Inums
  PROVE  iunlock(c, i) \in Cores /\ SameRefs(c, iunlock(c, i))
BY Zenon DEF iunlock, Cores, SameRefs

LEMMA NlinkIs ==
  ASSUME NEW c \in Cores, NEW i \in Inums, NEW n \in Int
  PROVE  nlink(c, i, n) \in Cores /\ SameRefs(c, nlink(c, i, n))
BY DEF nlink, Cores, SameRefs

NodeRec == [type : Str, nlink : Int, ents : Seq(Entries)]

LEMMA NodeSet ==
  ASSUME NEW d \in Nodes, NEW i \in Inums, NEW x \in NodeRec
  PROVE  [d EXCEPT ![i] = x] \in Nodes
BY Zenon DEF Nodes, NodeRec

LEMMA IupdateIs ==
  ASSUME NEW d \in Nodes, NEW c \in Cores, NEW i \in Inums
  PROVE  iupdate(d, c, i) \in Nodes
<1> DEFINE x == [d[i] EXCEPT !.type = c[i].type, !.nlink = c[i].nlink]
<1>1. d[i] \in NodeRec /\ c[i].type \in Str /\ c[i].nlink \in Int
  BY Zenon DEF Nodes, NodeRec, Cores
<1>2. x \in NodeRec
  BY <1>1, Zenon DEF NodeRec
<1>3. iupdate(d, c, i) = [d EXCEPT ![i] = x]
  BY Zenon DEF iupdate, Nodes
<1> HIDE DEF x
<1>4. QED
  BY <1>2, <1>3, NodeSet, Zenon

LEMMA NewEnts ==
  ASSUME NEW d \in Nodes, NEW i \in Inums, NEW s \in Seq(Entries)
  PROVE  [d EXCEPT ![i].ents = s] \in Nodes
<1> DEFINE x == [d[i] EXCEPT !.ents = s]
<1>1. d[i] \in NodeRec
  BY Zenon DEF Nodes, NodeRec
<1>2. x \in NodeRec
  BY <1>1, Zenon DEF NodeRec
<1>3. [d EXCEPT ![i].ents = s] = [d EXCEPT ![i] = x]
  BY Zenon DEF Nodes
<1> HIDE DEF x
<1>4. QED
  BY <1>2, <1>3, NodeSet, Zenon

\* What a look-up finds is an inode.
LEMMA LookupIs ==
  ASSUME disk \in Nodes, NEW d \in Inums, NEW name, dirlookup(d, name) # 0
  PROVE  disk[d].ents[dirlookup(d, name)].inum \in Inums
<1> DEFINE s == disk[d].ents
           I == {k \in DOMAIN s : s[k].inum # 0 /\ s[k].name = name}
<1>1. s \in Seq(Entries)
  BY Zenon DEF Nodes
<1>2. dirlookup(d, name) = IF I = {} THEN 0 ELSE Min(I)
  BY Zenon DEF dirlookup, First
<1>3. I \in SUBSET Nat
  BY <1>1
<1> HIDE DEF I
<1>4. dirlookup(d, name) \in I
  BY <1>2, <1>3, MinIn, Zenon
<1>5. PICK k \in DOMAIN s : k = dirlookup(d, name) /\ s[k].inum # 0
  BY <1>4, Zenon DEF I
<1>a. s[k] \in Entries
  BY <1>1, <1>5
<1>6. s[k].inum \in Inum0
  BY <1>a, Zenon DEF Entries
<1>7. QED
  BY <1>5, <1>6 DEF Inum0, Inums

LEMMA EmptySlotIs ==
  ASSUME disk \in Nodes, NEW d \in Inums, EmptySlot(d) # 0
  PROVE  EmptySlot(d) \in DOMAIN disk[d].ents
<1> DEFINE s == disk[d].ents
           I == {k \in DOMAIN s : s[k].inum = 0}
<1>1. DOMAIN s \in SUBSET Nat
  BY DEF Nodes
<1>2. EmptySlot(d) = IF I = {} THEN 0 ELSE Min(I)
  BY Zenon DEF EmptySlot, First
<1>3. I \in SUBSET Nat
  BY <1>1, Zenon
<1> HIDE DEF I
<1>4. EmptySlot(d) \in I
  BY <1>2, <1>3, MinIn, Zenon
<1>5. QED
  BY <1>4, Zenon DEF I

LEMMA DirlinkIs ==
  ASSUME disk \in Nodes, NEW d \in Inums, NEW name \in Str, NEW i \in Inums
  PROVE  dirlink(d, name, i) \in Seq(Entries)
<1>1. disk[d].ents \in Seq(Entries)
  BY Zenon DEF Nodes
<1>2. Entry(name, i) \in Entries
  BY DEF Entry, Entries, Inum0, Inums
<1>3. CASE EmptySlot(d) = 0
  BY <1>1, <1>2, <1>3 DEF dirlink
<1>4. CASE EmptySlot(d) # 0
  <2>1. EmptySlot(d) \in DOMAIN disk[d].ents
    BY <1>4, EmptySlotIs, Zenon
  <2>2. dirlink(d, name, i) = [disk[d].ents EXCEPT ![EmptySlot(d)] = Entry(name, i)]
    BY <1>4, Zenon DEF dirlink
  <2>3. QED
    BY <1>1, <1>2, <2>1, <2>2
<1>5. QED
  BY <1>3, <1>4, Zenon

LEMMA IallocIs ==
  ASSUME NEW d \in Nodes, ialloc(d) # 0
  PROVE  ialloc(d) \in Inums
<1> DEFINE I == {i \in Inums : d[i].type = "free"}
<1>1. ialloc(d) = IF I = {} THEN 0 ELSE Min(I)
  BY Zenon DEF ialloc, First
<1>2. I \in SUBSET Nat
  BY DEF Inums
<1> HIDE DEF I
<1>3. ialloc(d) \in I
  BY <1>1, <1>2, MinIn, Zenon
<1>4. QED
  BY <1>3, Zenon DEF I

\* An entry is cleared.
LEMMA ClearIs ==
  ASSUME NEW d \in Nodes, NEW i \in Inums, NEW k
  PROVE  [d EXCEPT ![i].ents[k] = Entry("none", 0)] \in Nodes
<1> DEFINE s == [d[i].ents EXCEPT ![k] = Entry("none", 0)]
<1>1. d[i].ents \in Seq(Entries)
  BY Zenon DEF Nodes
<1>2. 0 \in Inum0
  BY InodeAssumption DEF Inum0
<1>3. Entry("none", 0) \in Entries
  BY <1>2, Literals, Zenon DEF Entry, Entries
<1>4. s \in Seq(Entries)
  <2>1. d[i].ents \in [1 .. Len(d[i].ents) -> Entries] /\ Len(d[i].ents) \in Nat
    BY <1>1
  <2>2. s \in [1 .. Len(d[i].ents) -> Entries]
    BY <1>3, <2>1, Zenon
  <2>3. QED
    BY <2>1, <2>2
<1>5. [d EXCEPT ![i].ents[k] = Entry("none", 0)] = [d EXCEPT ![i].ents = s]
  BY Zenon DEF Nodes
<1> HIDE DEF s
<1>6. QED
  BY <1>4, <1>5, NewEnts, Zenon

LEMMA PutIs ==
  ASSUME NEW i \in Inums
  PROVE  /\ Put(i) \in Pending /\ Put(i).inum = i
         /\ UnlockPut(i) \in Pending /\ UnlockPut(i).inum = i
BY Zenon DEF Put, UnlockPut, Pending

\* The pending puts that the operations leave.
LEMMA NoPuts == \A j : PutCount(<<>>, j) = 0 /\ <<>> \in Seq(Pending) /\ Len(<<>>) = 0
BY DEF PutCount

LEMMA OnePut ==
  ASSUME NEW x \in Inums
  PROVE  /\ <<Put(x)>> \in Seq(Pending) /\ Len(<<Put(x)>>) = 1
         /\ \A j : PutCount(<<Put(x)>>, j) = One(x, j)
<1>1. Put(x) \in Pending /\ Put(x).inum = x
  BY PutIs, Zenon
<1>2. ASSUME NEW a \in Pending, a.inum = x
      PROVE  <<a>> \in Seq(Pending) /\ Len(<<a>>) = 1 /\ \A j : PutCount(<<a>>, j) = One(x, j)
  BY <1>2, OneType DEF PutCount
<1>3. QED
  BY <1>1, <1>2, Zenon

LEMMA TwoPuts ==
  ASSUME NEW a \in Pending, NEW b \in Pending
  PROVE  /\ <<a, b>> \in Seq(Pending) /\ Len(<<a, b>>) = 2
         /\ \A j : PutCount(<<a, b>>, j) = One(a.inum, j) + One(b.inum, j)
BY OneType DEF PutCount

LEMMA PutAhead ==
  ASSUME NEW x \in Inums, NEW s \in Seq(Pending), Len(s) <= 1
  PROVE  /\ <<Put(x)>> \o s \in Seq(Pending) /\ Len(<<Put(x)>> \o s) <= 2
         /\ \A j : PutCount(<<Put(x)>> \o s, j) = One(x, j) + PutCount(s, j)
<1>1. Put(x) \in Pending /\ Put(x).inum = x
  BY PutIs, Zenon
<1>2. ASSUME NEW a \in Pending, a.inum = x
      PROVE  /\ <<a>> \o s \in Seq(Pending) /\ Len(<<a>> \o s) <= 2
             /\ \A j : PutCount(<<a>> \o s, j) = One(x, j) + PutCount(s, j)
  <2>1. <<a>> \o s \in Seq(Pending) /\ Len(<<a>> \o s) = 1 + Len(s) /\ Len(s) \in Nat
    OBVIOUS
  <2>2. (<<a>> \o s)[1] = a /\ (Len(s) = 1 => (<<a>> \o s)[2] = s[1])
    OBVIOUS
  <2>3. ASSUME NEW j PROVE PutCount(<<a>> \o s, j) = One(x, j) + PutCount(s, j)
    BY <1>2, <2>1, <2>2, OneType DEF PutCount
  <2>4. QED
    BY <2>1, <2>3
<1>3. QED
  BY <1>1, <1>2, Zenon

LEMMA PutDone ==
  ASSUME NEW s \in Seq(Pending), Len(s) <= 2, s # <<>>
  PROVE  /\ s[1] \in Pending /\ Tail(s) \in Seq(Pending) /\ Len(Tail(s)) <= 2
         /\ \A j : PutCount(Tail(s), j) = PutCount(s, j) - One(s[1].inum, j)
<1>0. Len(s) \in Nat /\ Len(s) # 0
  OBVIOUS
<1>1. Len(s) \in 1 .. 2
  BY <1>0, OneOrTwo, Zenon
<1>2. s[1] \in Pending /\ Tail(s) \in Seq(Pending) /\ Len(Tail(s)) = Len(s) - 1
  BY HeadTail, Zenon
<1>3. Len(s) = 2 => Tail(s)[1] = s[2]
  BY HeadTail, Zenon
<1>4. ASSUME NEW j PROVE PutCount(Tail(s), j) = PutCount(s, j) - One(s[1].inum, j)
  BY <1>1, <1>2, <1>3, OneType DEF PutCount
<1>5. QED
  BY <1>1, <1>2, <1>4

-----------------------------------------------------------------------------
(* How a process goes on *)

LEMMA Zero == 0 \in Inum0 /\ Inums \subseteq Inum0 /\ 0 \notin Inums /\ ROOTINO \in Inums
<1>1. NINODES \in Nat \ {0}
  BY InodeAssumption, Zenon
<1>2. QED
  BY <1>1 DEF Inum0, Inums, ROOTINO

LEMMA Some ==
  ASSUME NEW x \in Inum0, x # 0
  PROVE  x \in Inums
BY DEF Inum0, Inums

\* The count of a process that is not changing its current directory.
LEMMA Tally ==
  ASSUME NEW r, r.pc # "end_op" \/ r.ip = 0, NEW c, NEW o, NEW j
  PROVE  HoldsOf(r, c, o, j) = PutCount(r.puts, j) + One(r.w, j) + One(r.ip, j) + One(r.dp, j)
                               + One(c, j) + One(o, j)
BY Zenon DEF HoldsOf

LEMMA Ints ==
  ASSUME NEW s, NEW x, NEW j
  PROVE  PutCount(s, j) \in Int /\ One(x, j) \in Int
BY OneType DEF PutCount

\* Two states that differ in the puts.
LEMMA HoldsPuts ==
  ASSUME NEW a, NEW b, b.pc = a.pc, b.w = a.w, b.ip = a.ip, b.dp = a.dp, NEW c, NEW o, NEW j,
         NEW n \in Int, PutCount(b.puts, j) = PutCount(a.puts, j) + n
  PROVE  HoldsOf(b, c, o, j) = HoldsOf(a, c, o, j) + n
<1> DEFINE rest == IF a.pc = "end_op" /\ a.ip # 0 THEN 0 ELSE One(c, j)
<1>1. HoldsOf(b, c, o, j) = PutCount(b.puts, j) + One(a.w, j) + One(a.ip, j) + One(a.dp, j) + rest + One(o, j)
  BY Zenon DEF HoldsOf
<1>2. HoldsOf(a, c, o, j) = PutCount(a.puts, j) + One(a.w, j) + One(a.ip, j) + One(a.dp, j) + rest + One(o, j)
  BY Zenon DEF HoldsOf
<1>3. rest \in Int
  BY Ints
<1>4. /\ PutCount(a.puts, j) \in Int /\ One(a.w, j) \in Int /\ One(a.ip, j) \in Int
      /\ One(a.dp, j) \in Int /\ One(o, j) \in Int
  BY Ints, Zenon
<1> HIDE DEF rest
<1>5. QED
  BY <1>1, <1>2, <1>3, <1>4

\* The end of a call: only the puts are left.
LEMMA FinishIs ==
  ASSUME NEW s \in Seq(Pending), Len(s) <= 2
  PROVE  /\ Finish(s) \in Recs /\ Shape(Finish(s))
         /\ \A c, o : \A j \in Inums : HoldsOf(Finish(s), c, o, j) = PutCount(s, j) + One(c, j) + One(o, j)
<1> DEFINE f == Finish(s)
<1>0. f = [Idle EXCEPT !.pc = "end_op", !.puts = s]
  BY Zenon DEF Finish
<1>1. /\ f.pc = "end_op" /\ f.w = 0 /\ f.ip = 0 /\ f.dp = 0 /\ f.puts = s /\ f.at = "none"
  BY <1>0, Zenon DEF Idle
<1>2. f \in Recs
  <2>1. /\ "end_op" \in Pcs /\ "none" \in Str /\ <<>> \in Seq(Str) /\ FALSE \in BOOLEAN
        /\ "none" \in {"none", "free", "drop"} /\ 0 \in Inum0
    BY Literals, Zero DEF Pcs
  <2>2. f = [pc |-> "end_op", op |-> "none", type |-> "none", path |-> <<>>, new |-> <<>>, name |-> "none",
             w |-> 0, ip |-> 0, dp |-> 0, puts |-> s, at |-> "none", up |-> FALSE]
    BY <1>0, Zenon DEF Idle
  <2>3. QED
    BY <2>1, <2>2 DEF Recs
<1> HIDE DEF f
<1>3. Shape(f)
  BY <1>1, Zenon DEF Shape
<1>4. ASSUME NEW c, NEW o, NEW j \in Inums
      PROVE  HoldsOf(f, c, o, j) = PutCount(s, j) + One(c, j) + One(o, j)
  <2>1. HoldsOf(f, c, o, j) = PutCount(s, j) + One(0, j) + One(0, j) + One(0, j) + One(c, j) + One(o, j)
    BY <1>1, Tally
  <2>2. One(0, j) = 0 /\ PutCount(s, j) \in Int /\ One(c, j) \in Int /\ One(o, j) \in Int
    BY OneNone, Ints, Zenon
  <2>3. QED
    BY <2>1, <2>2
<1>5. QED
  BY <1>2, <1>3, <1>4, Zenon DEF f

\* A walk about to go on, or to end.
Walking(r) ==
  /\ r \in Recs /\ r.pc = "namex" /\ r.w # 0 /\ r.dp = 0 /\ r.puts = <<>> /\ r.at = "none"
  /\ r.ip # 0 => r.op = "link"

LEMMA NotFoundIs ==
  ASSUME NEW r, Walking(r)
  PROVE  /\ NotFound(r) \in Recs /\ Shape(NotFound(r)) /\ Len(NotFound(r).puts) <= 1
         /\ NotFound(r).pc # "user"
         /\ \A c, o : \A j \in Inums : HoldsOf(NotFound(r), c, o, j) = HoldsOf(r, c, o, j)
<1>0. r \in Recs /\ r.w \in Inums
  <2>1. r \in Recs /\ r.w # 0 /\ r.w \in Inum0
    BY Zenon DEF Walking, Recs
  <2>2. QED
    BY <2>1, Some, Zenon
<1> DEFINE s == <<Put(r.w)>>
<1>1. s \in Seq(Pending) /\ Len(s) = 1 /\ \A j : PutCount(s, j) = One(r.w, j)
  BY <1>0, OnePut, Zenon
<1> HIDE DEF s
<1>2. ASSUME NEW c, NEW o, NEW j \in Inums
      PROVE  HoldsOf(r, c, o, j) = One(r.w, j) + One(r.ip, j) + One(c, j) + One(o, j)
  <2>1. HoldsOf(r, c, o, j) = PutCount(<<>>, j) + One(r.w, j) + One(r.ip, j) + One(0, j) + One(c, j) + One(o, j)
    BY Tally DEF Walking
  <2>2. /\ PutCount(<<>>, j) = 0 /\ One(0, j) = 0
        /\ One(r.w, j) \in Int /\ One(r.ip, j) \in Int /\ One(c, j) \in Int /\ One(o, j) \in Int
    BY NoPuts, OneNone, Ints, Zenon
  <2>3. QED
    BY <2>1, <2>2
<1>3. CASE r.ip = 0
  <2>1. NotFound(r) = Finish(s)
    BY <1>3, Zenon DEF NotFound, s
  <2>2. /\ Finish(s) \in Recs /\ Shape(Finish(s))
        /\ \A c, o : \A j \in Inums : HoldsOf(Finish(s), c, o, j) = PutCount(s, j) + One(c, j) + One(o, j)
    <3>1. Len(s) <= 2
      BY <1>1, Lengths, Zenon
    <3>2. QED
      BY <1>1, <3>1, FinishIs, Zenon
  <2>3. Len(Finish(s).puts) <= 1 /\ Finish(s).pc # "user"
    <3>1. Finish(s).puts = s /\ Finish(s).pc = "end_op"
      BY Zenon DEF Finish, Idle
    <3>2. Finish(s).pc # "user"
      BY <3>1, Zenon
    <3>3. QED
      BY <1>1, <3>1, <3>2, Lengths, Zenon
  <2>4. ASSUME NEW c, NEW o, NEW j \in Inums PROVE HoldsOf(Finish(s), c, o, j) = HoldsOf(r, c, o, j)
    <3>1. One(r.ip, j) = 0 /\ One(r.w, j) \in Int /\ One(c, j) \in Int /\ One(o, j) \in Int
      BY <1>3, OneNone, Ints, Zenon
    <3>2. HoldsOf(Finish(s), c, o, j) = One(r.w, j) + One(c, j) + One(o, j)
      BY <1>1, <2>2, Zenon
    <3>3. QED
      BY <1>2, <3>1, <3>2
  <2>5. QED
    BY <2>1, <2>2, <2>3, <2>4, Zenon
<1>4. CASE r.ip # 0
  <2> DEFINE f == [r EXCEPT !.pc = "link_bad", !.w = 0, !.path = <<>>, !.puts = s]
  <2>1. NotFound(r) = f
    BY <1>4, Zenon DEF NotFound, s
  <2>2. f \in Recs
    <3>1. "link_bad" \in Pcs /\ <<>> \in Seq(Str)
      BY DEF Pcs
    <3>2. QED
      BY <1>0, <1>1, <3>1, Zero, SetFields, Zenon
  <2>3. f.pc = "link_bad" /\ f.w = 0 /\ f.ip = r.ip /\ f.dp = 0 /\ f.puts = s /\ f.at = "none"
    BY <1>0, Zenon DEF Recs, Walking
  <2> HIDE DEF f
  <2>4. Shape(f)
    <3>1. Len(f.puts) <= 2
      BY <1>1, <2>3, Lengths, Zenon
    <3>2. QED
      BY <1>4, <2>3, <3>1, Zenon DEF Shape
  <2>5. ASSUME NEW c, NEW o, NEW j \in Inums PROVE HoldsOf(f, c, o, j) = HoldsOf(r, c, o, j)
    <3>1. HoldsOf(f, c, o, j) = PutCount(s, j) + One(0, j) + One(r.ip, j) + One(0, j) + One(c, j) + One(o, j)
      BY <2>3, Tally
    <3>2. /\ One(0, j) = 0 /\ PutCount(s, j) = One(r.w, j)
          /\ One(r.w, j) \in Int /\ One(r.ip, j) \in Int /\ One(c, j) \in Int /\ One(o, j) \in Int
      BY <1>1, OneNone, Ints, Zenon
    <3>3. QED
      BY <1>2, <3>1, <3>2
  <2>6. Len(f.puts) <= 1 /\ f.pc # "user"
    <3>1. f.pc # "user"
      BY <2>3, Zenon
    <3>2. QED
      BY <1>1, <2>3, <3>1, Lengths, Zenon
  <2>7. QED
    BY <2>1, <2>2, <2>4, <2>5, <2>6, Zenon
<1>5. QED
  BY <1>3, <1>4, Zenon

LEMMA WalkIs ==
  ASSUME NEW r, Walking(r)
  PROVE  /\ Walk(r) \in Recs /\ Shape(Walk(r)) /\ Len(Walk(r).puts) <= 1 /\ Walk(r).pc # "user"
         /\ \A c, o : \A j \in Inums : HoldsOf(Walk(r), c, o, j) = HoldsOf(r, c, o, j)
<1>0. r \in Recs /\ r.puts = <<>> /\ Len(<<>>) = 0
  BY Zenon DEF Walking
<1>1. CASE r.path # <<>>
  <2>1. Walk(r) = r
    BY <1>1, Zenon DEF Walk
  <2>2. Shape(r)
    BY <1>0, <1>1 DEF Shape, Walking
  <2>3. Len(r.puts) <= 1 /\ r.pc # "user"
    BY <1>0 DEF Walking
  <2>4. QED
    BY <1>0, <2>1, <2>2, <2>3, Zenon
<1>2. CASE r.path = <<>> /\ WantsParent(r)
  <2>1. Walk(r) = NotFound(r)
    BY <1>2, Zenon DEF Walk
  <2>2. QED
    BY <2>1, NotFoundIs, Zenon
<1>3. CASE r.path = <<>> /\ ~WantsParent(r)
  <2> DEFINE f == [r EXCEPT !.pc = "found"]
  <2>1. Walk(r) = f
    BY <1>3, Zenon DEF Walk
  <2>2. f \in Recs
    BY <1>0, Zenon DEF Recs, Pcs
  <2>3. /\ f.pc = "found" /\ f.w = r.w /\ f.ip = r.ip /\ f.dp = r.dp /\ f.puts = r.puts
        /\ f.at = "none" /\ f.op = r.op
    BY <1>0, Zenon DEF Recs, Walking
  <2> HIDE DEF f
  <2>4. Shape(f)
    BY <1>0, <2>3 DEF Shape, Walking
  <2>5. Len(f.puts) <= 1 /\ f.pc # "user"
    BY <1>0, <2>3
  <2>6. r.pc = "namex"
    BY Zenon DEF Walking
  <2>7. ASSUME NEW c, NEW o, NEW j PROVE HoldsOf(f, c, o, j) = HoldsOf(r, c, o, j)
    BY <2>3, <2>6, Zenon DEF HoldsOf
  <2>8. QED
    BY <2>1, <2>2, <2>4, <2>5, <2>7, Zenon
<1>4. QED
  BY <1>1, <1>2, <1>3, Zenon

-----------------------------------------------------------------------------
(* Kinds of steps *)

LEMMA Actor ==
  ASSUME IInv, NEW p \in Procs
  PROVE  /\ proc[p] \in Recs /\ Shape(proc[p]) /\ cwd[p] \in Inums /\ ofile[p] \in Inum0
         /\ disk \in Nodes /\ committed \in Nodes /\ core \in Cores
         /\ proc \in [Procs -> Recs] /\ cwd \in [Procs -> Inums] /\ ofile \in [Procs -> Inum0]
BY Zenon DEF IInv, Types

\* No reference comes or goes.
LEMMA Kept ==
  ASSUME IInv, NEW p \in Procs, NEW d \in Nodes, NEW c \in Cores, NEW r \in Recs, Shape(r),
         Step(p, d, c, r), ofile' = ofile, SameRefs(core, c),
         \A j \in Inums : HoldsOf(r, cwd[p], ofile[p], j) = HoldsOf(proc[p], cwd[p], ofile[p], j)
  PROVE  IInv'
<1>1. /\ cwd[p] \in Inums /\ ofile[p] \in Inum0 /\ committed \in Nodes /\ core \in Cores
      /\ cwd \in [Procs -> Inums] /\ ofile \in [Procs -> Inum0]
  BY Actor, Zenon
<1>2. /\ disk' = d /\ core' = c /\ proc' = [proc EXCEPT ![p] = r]
      /\ calls' = calls /\ committed' = committed /\ cwd' = cwd
  BY Zenon DEF Step
<1>3. cwd' = [cwd EXCEPT ![p] = cwd[p]] /\ ofile' = [ofile EXCEPT ![p] = ofile[p]]
  BY <1>1, <1>2, Zenon
<1>4. ASSUME NEW j \in Inums
      PROVE  /\ core'[j].ref = core[j].ref + One(0, j) - One(0, j)
             /\ HoldsOf(r, cwd[p], ofile[p], j) =
                  HoldsOf(proc[p], cwd[p], ofile[p], j) + One(0, j) - One(0, j)
  <2>1. One(0, j) = 0 /\ core'[j].ref = core[j].ref
    BY <1>2, OneNone, Zenon DEF SameRefs
  <2>2. core[j].ref \in Int
    BY <1>1, Zenon DEF Cores
  <2>3. HoldsOf(proc[p], cwd[p], ofile[p], j) \in Nat
    BY HoldsType, Zenon
  <2>4. HoldsOf(r, cwd[p], ofile[p], j) = HoldsOf(proc[p], cwd[p], ofile[p], j)
    OBVIOUS
  <2>5. QED
    BY <2>1, <2>2, <2>3, <2>4
<1>5. Moves(p, r, cwd[p], ofile[p], 0, 0)
  BY <1>1, <1>2, <1>3, <1>4, Zero, Zenon DEF Moves
<1>6. QED
  BY <1>5, Moved, Zenon

\* p gets a reference to x.
LEMMA Got ==
  ASSUME IInv, NEW p \in Procs, NEW d \in Nodes, NEW c \in Cores, NEW r \in Recs, Shape(r),
         Step(p, d, c, r), ofile' = ofile, NEW x \in Inums,
         \A j \in Inums : c[j].ref = core[j].ref + One(x, j),
         \A j \in Inums : HoldsOf(r, cwd[p], ofile[p], j) =
                            HoldsOf(proc[p], cwd[p], ofile[p], j) + One(x, j)
  PROVE  IInv'
<1>1. /\ cwd[p] \in Inums /\ ofile[p] \in Inum0 /\ committed \in Nodes /\ core \in Cores
      /\ cwd \in [Procs -> Inums] /\ ofile \in [Procs -> Inum0]
  BY Actor, Zenon
<1>2. /\ disk' = d /\ core' = c /\ proc' = [proc EXCEPT ![p] = r]
      /\ calls' = calls /\ committed' = committed /\ cwd' = cwd
  BY Zenon DEF Step
<1>3. cwd' = [cwd EXCEPT ![p] = cwd[p]] /\ ofile' = [ofile EXCEPT ![p] = ofile[p]]
  BY <1>1, <1>2, Zenon
<1>4. ASSUME NEW j \in Inums
      PROVE  /\ core'[j].ref = core[j].ref + One(x, j) - One(0, j)
             /\ HoldsOf(r, cwd[p], ofile[p], j) =
                  HoldsOf(proc[p], cwd[p], ofile[p], j) + One(x, j) - One(0, j)
  <2>1. One(0, j) = 0 /\ core'[j].ref = core[j].ref + One(x, j) /\ One(x, j) \in Int
    BY <1>2, OneNone, Ints, Zenon
  <2>2. core[j].ref \in Int
    BY <1>1, Zenon DEF Cores
  <2>3. HoldsOf(proc[p], cwd[p], ofile[p], j) \in Nat
    BY HoldsType, Zenon
  <2>4. HoldsOf(r, cwd[p], ofile[p], j) = HoldsOf(proc[p], cwd[p], ofile[p], j) + One(x, j)
    OBVIOUS
  <2>5. QED
    BY <2>1, <2>2, <2>3, <2>4
<1>5. x \in Inum0
  BY Zero, Zenon
<1>6. Moves(p, r, cwd[p], ofile[p], x, 0)
  BY <1>1, <1>2, <1>3, <1>4, <1>5, Zero, Zenon DEF Moves
<1>7. QED
  BY <1>6, Moved, Zenon

\* p gives up a reference to x.
LEMMA Dropped ==
  ASSUME IInv, NEW p \in Procs, NEW d \in Nodes, NEW c \in Cores, NEW r \in Recs, Shape(r),
         Step(p, d, c, r), ofile' = ofile, NEW x \in Inums,
         \A j \in Inums : c[j].ref = core[j].ref - One(x, j),
         \A j \in Inums : HoldsOf(r, cwd[p], ofile[p], j) =
                            HoldsOf(proc[p], cwd[p], ofile[p], j) - One(x, j)
  PROVE  IInv'
<1>1. /\ cwd[p] \in Inums /\ ofile[p] \in Inum0 /\ committed \in Nodes /\ core \in Cores
      /\ cwd \in [Procs -> Inums] /\ ofile \in [Procs -> Inum0]
  BY Actor, Zenon
<1>2. /\ disk' = d /\ core' = c /\ proc' = [proc EXCEPT ![p] = r]
      /\ calls' = calls /\ committed' = committed /\ cwd' = cwd
  BY Zenon DEF Step
<1>3. cwd' = [cwd EXCEPT ![p] = cwd[p]] /\ ofile' = [ofile EXCEPT ![p] = ofile[p]]
  BY <1>1, <1>2, Zenon
<1>4. ASSUME NEW j \in Inums
      PROVE  /\ core'[j].ref = core[j].ref + One(0, j) - One(x, j)
             /\ HoldsOf(r, cwd[p], ofile[p], j) =
                  HoldsOf(proc[p], cwd[p], ofile[p], j) + One(0, j) - One(x, j)
  <2>1. One(0, j) = 0 /\ core'[j].ref = core[j].ref - One(x, j) /\ One(x, j) \in Int
    BY <1>2, OneNone, Ints, Zenon
  <2>2. core[j].ref \in Int
    BY <1>1, Zenon DEF Cores
  <2>3. HoldsOf(proc[p], cwd[p], ofile[p], j) \in Nat
    BY HoldsType, Zenon
  <2>4. HoldsOf(r, cwd[p], ofile[p], j) = HoldsOf(proc[p], cwd[p], ofile[p], j) - One(x, j)
    OBVIOUS
  <2>5. QED
    BY <2>1, <2>2, <2>3, <2>4
<1>5. x \in Inum0
  BY Zero, Zenon
<1>6. Moves(p, r, cwd[p], ofile[p], 0, x)
  BY <1>1, <1>2, <1>3, <1>4, <1>5, Zero, Zenon DEF Moves
<1>7. QED
  BY <1>6, Moved, Zenon

LEMMA SameSame ==
  ASSUME NEW a, NEW b, NEW c, SameRefs(a, b), SameRefs(b, c)
  PROVE  SameRefs(a, c)
BY Zenon DEF SameRefs

\* Locking and unlocking do not change the counts.
LEMMA Locked ==
  ASSUME IInv, NEW i \in Inums, NEW p \in Procs
  PROVE  /\ ilock(core, i, p) \in Cores /\ SameRefs(core, ilock(core, i, p))
         /\ iunlock(ilock(core, i, p), i) \in Cores
         /\ SameRefs(core, iunlock(ilock(core, i, p), i))
<1>1. ilock(core, i, p) \in Cores /\ SameRefs(core, ilock(core, i, p))
  BY Actor, IlockIs, Zenon
<1>2. iunlock(ilock(core, i, p), i) \in Cores /\ SameRefs(ilock(core, i, p), iunlock(ilock(core, i, p), i))
  BY <1>1, IunlockIs, Zenon
<1>3. QED
  BY <1>1, <1>2, SameSame, Zenon

\* A reference that is taken after that.
LEMMA GotAfter ==
  ASSUME NEW a, NEW c \in Cores, SameRefs(a, c), NEW x \in Inums
  PROVE  iget(c, x) \in Cores /\ \A j \in Inums : iget(c, x)[j].ref = a[j].ref + One(x, j)
<1>1. iget(c, x) \in Cores /\ \A j \in Inums : iget(c, x)[j].ref = c[j].ref + One(x, j)
  BY IgetIs, Zenon
<1>2. QED
  BY <1>1, Zenon DEF SameRefs

\* The pointers of a process between two puts, the current directory and the
\* open file apart.
Sum(r, j) == One(r.w, j) + One(r.ip, j) + One(r.dp, j)

LEMMA Mine ==
  ASSUME IInv, NEW p \in Procs, NEW l, Ready(p, l), l # "end_op"
  PROVE  /\ proc[p].pc = l /\ proc[p].puts = <<>> /\ proc[p].at = "none"
         /\ \A c, o : \A j \in Inums :
              HoldsOf(proc[p], c, o, j) = Sum(proc[p], j) + One(c, j) + One(o, j)
<1>1. proc[p].pc = l /\ proc[p].puts = <<>>
  BY Zenon DEF Ready
<1>2. proc[p].at = "none"
  BY <1>1, Actor, Zenon DEF Shape
<1>3. ASSUME NEW c, NEW o, NEW j \in Inums
      PROVE  HoldsOf(proc[p], c, o, j) = Sum(proc[p], j) + One(c, j) + One(o, j)
  <2>1. HoldsOf(proc[p], c, o, j) = PutCount(<<>>, j) + One(proc[p].w, j) + One(proc[p].ip, j)
                                    + One(proc[p].dp, j) + One(c, j) + One(o, j)
    BY <1>1, Tally
  <2>2. /\ PutCount(<<>>, j) = 0 /\ One(proc[p].w, j) \in Int /\ One(proc[p].ip, j) \in Int
        /\ One(proc[p].dp, j) \in Int /\ One(c, j) \in Int /\ One(o, j) \in Int
    BY NoPuts, Ints, Zenon
  <2>3. QED
    BY <2>1, <2>2 DEF Sum
<1>4. QED
  BY <1>1, <1>2, <1>3, Zenon

\* A call that ends with one put, or two.
LEMMA Ends ==
  ASSUME IInv, NEW p \in Procs, NEW l, Ready(p, l), l # "end_op",
         NEW s \in Seq(Pending), Len(s) <= 2,
         \A j \in Inums : Sum(proc[p], j) = PutCount(s, j),
         NEW d \in Nodes, NEW c \in Cores, SameRefs(core, c),
         Step(p, d, c, Finish(s)), ofile' = ofile
  PROVE  IInv'
<1>1. /\ Finish(s) \in Recs /\ Shape(Finish(s))
      /\ \A a, o : \A j \in Inums : HoldsOf(Finish(s), a, o, j) = PutCount(s, j) + One(a, j) + One(o, j)
  BY FinishIs, Zenon
<1>2. \A a, o : \A j \in Inums : HoldsOf(proc[p], a, o, j) = Sum(proc[p], j) + One(a, j) + One(o, j)
  BY Mine, Zenon
<1>3. \A j \in Inums : HoldsOf(Finish(s), cwd[p], ofile[p], j) = HoldsOf(proc[p], cwd[p], ofile[p], j)
  BY <1>1, <1>2
<1>4. QED
  BY <1>1, <1>3, Kept, Zenon

LEMMA EndsWithOne ==
  ASSUME IInv, NEW p \in Procs, NEW l, Ready(p, l), l # "end_op", NEW x \in Inums,
         \A j \in Inums : Sum(proc[p], j) = One(x, j),
         NEW d \in Nodes, NEW c \in Cores, SameRefs(core, c),
         Step(p, d, c, Finish(<<Put(x)>>)), ofile' = ofile
  PROVE  IInv'
<1> DEFINE s == <<Put(x)>>
<1>1. s \in Seq(Pending) /\ Len(s) = 1 /\ \A j : PutCount(s, j) = One(x, j)
  BY OnePut, Zenon
<1>2. Step(p, d, c, Finish(s))
  OBVIOUS
<1> HIDE DEF s
<1>3. Len(s) <= 2
  BY <1>1
<1>4. \A j \in Inums : Sum(proc[p], j) = PutCount(s, j)
  BY <1>1, Zenon
<1>5. QED
  BY <1>1, <1>2, <1>3, <1>4, Ends, Zenon

LEMMA EndsWithTwo ==
  ASSUME IInv, NEW p \in Procs, NEW l, Ready(p, l), l # "end_op",
         NEW a \in Pending, NEW b \in Pending,
         \A j \in Inums : Sum(proc[p], j) = One(a.inum, j) + One(b.inum, j),
         NEW d \in Nodes, NEW c \in Cores, SameRefs(core, c),
         Step(p, d, c, Finish(<<a, b>>)), ofile' = ofile
  PROVE  IInv'
<1> DEFINE s == <<a, b>>
<1>1. s \in Seq(Pending) /\ Len(s) = 2 /\ \A j : PutCount(s, j) = One(a.inum, j) + One(b.inum, j)
  BY TwoPuts, Zenon
<1>2. Step(p, d, c, Finish(s))
  OBVIOUS
<1> HIDE DEF s
<1>3. Len(s) <= 2
  BY <1>1
<1>4. \A j \in Inums : Sum(proc[p], j) = PutCount(s, j)
  BY <1>1, Zenon
<1>5. QED
  BY <1>1, <1>2, <1>3, <1>4, Ends, Zenon

\* The pointers of a process with one or two.
LEMMA SumOne ==
  ASSUME NEW r, NEW x, \/ r.w = x /\ r.ip = 0 /\ r.dp = 0
                       \/ r.w = 0 /\ r.ip = x /\ r.dp = 0
  PROVE  \A j \in Inums : Sum(r, j) = One(x, j)
<1> SUFFICES ASSUME NEW j \in Inums PROVE Sum(r, j) = One(x, j)
  OBVIOUS
<1>1. One(0, j) = 0 /\ One(x, j) \in Int
  BY OneNone, Ints, Zenon
<1>2. QED
  BY <1>1 DEF Sum

LEMMA SumTwo ==
  ASSUME NEW r, NEW x, NEW y, \/ r.w = x /\ r.ip = y /\ r.dp = 0
                              \/ r.w = 0 /\ r.ip = x /\ r.dp = y
  PROVE  \A j \in Inums : Sum(r, j) = One(x, j) + One(y, j)
<1> SUFFICES ASSUME NEW j \in Inums PROVE Sum(r, j) = One(x, j) + One(y, j)
  OBVIOUS
<1>1. One(0, j) = 0 /\ One(x, j) \in Int /\ One(y, j) \in Int
  BY OneNone, Ints, Zenon
<1>2. QED
  BY <1>1 DEF Sum

\* A call that goes on, with or without a new reference.
LEMMA TallySum ==
  ASSUME NEW r, r.pc # "end_op" \/ r.ip = 0, NEW c, NEW o, NEW j
  PROVE  HoldsOf(r, c, o, j) = (PutCount(r.puts, j) + Sum(r, j)) + One(c, j) + One(o, j)
<1>1. HoldsOf(r, c, o, j) = PutCount(r.puts, j) + One(r.w, j) + One(r.ip, j) + One(r.dp, j)
                            + One(c, j) + One(o, j)
  BY Tally
<1>2. /\ PutCount(r.puts, j) \in Int /\ One(r.w, j) \in Int /\ One(r.ip, j) \in Int
      /\ One(r.dp, j) \in Int /\ One(c, j) \in Int /\ One(o, j) \in Int
  BY Ints, Zenon
<1>3. QED
  BY <1>1, <1>2 DEF Sum

LEMMA SumType ==
  ASSUME NEW r, NEW j
  PROVE  Sum(r, j) \in Int
BY OneType DEF Sum

LEMMA GoesOn ==
  ASSUME IInv, NEW p \in Procs, NEW l, Ready(p, l), l # "end_op",
         NEW q \in Recs, Shape(q), q.pc # "end_op",
         \A j \in Inums : PutCount(q.puts, j) + Sum(q, j) = Sum(proc[p], j),
         NEW d \in Nodes, NEW c \in Cores, SameRefs(core, c), Step(p, d, c, q), ofile' = ofile
  PROVE  IInv'
<1>1. ASSUME NEW j \in Inums
      PROVE  HoldsOf(q, cwd[p], ofile[p], j) = HoldsOf(proc[p], cwd[p], ofile[p], j)
  <2>1. HoldsOf(q, cwd[p], ofile[p], j) = Sum(proc[p], j) + One(cwd[p], j) + One(ofile[p], j)
    BY TallySum
  <2>2. HoldsOf(proc[p], cwd[p], ofile[p], j) = Sum(proc[p], j) + One(cwd[p], j) + One(ofile[p], j)
    BY Mine
  <2>3. QED
    BY <2>1, <2>2, Zenon
<1>2. QED
  BY <1>1, Kept, Zenon

LEMMA GoesOnWith ==
  ASSUME IInv, NEW p \in Procs, NEW l, Ready(p, l), l # "end_op",
         NEW q \in Recs, Shape(q), q.pc # "end_op", NEW x \in Inums,
         \A j \in Inums : PutCount(q.puts, j) + Sum(q, j) = Sum(proc[p], j) + One(x, j),
         NEW d \in Nodes, NEW c \in Cores, \A j \in Inums : c[j].ref = core[j].ref + One(x, j),
         Step(p, d, c, q), ofile' = ofile
  PROVE  IInv'
<1>1. ASSUME NEW j \in Inums
      PROVE  HoldsOf(q, cwd[p], ofile[p], j) = HoldsOf(proc[p], cwd[p], ofile[p], j) + One(x, j)
  <2>1. HoldsOf(q, cwd[p], ofile[p], j)
          = (Sum(proc[p], j) + One(x, j)) + One(cwd[p], j) + One(ofile[p], j)
    BY TallySum
  <2>2. HoldsOf(proc[p], cwd[p], ofile[p], j) = Sum(proc[p], j) + One(cwd[p], j) + One(ofile[p], j)
    BY Mine
  <2>3. Sum(proc[p], j) \in Int /\ One(x, j) \in Int /\ One(cwd[p], j) \in Int /\ One(ofile[p], j) \in Int
    BY SumType, Ints, Zenon
  <2>4. QED
    BY <2>1, <2>2, <2>3
<1>2. QED
  BY <1>1, Got, Zenon

-----------------------------------------------------------------------------
(* iput() *)

LEMMA Putting ==
  ASSUME IInv, NEW p \in Procs, proc[p].puts # <<>>
  PROVE  /\ proc[p].puts[1].inum \in Inums
         /\ Popped(p) \in Recs /\ Shape(Popped(p))
         /\ \A c, o : \A j \in Inums :
              HoldsOf(Popped(p), c, o, j) = HoldsOf(proc[p], c, o, j) - One(proc[p].puts[1].inum, j)
         /\ \A a \in {"free", "drop"} :
              /\ [proc[p] EXCEPT !.at = a] \in Recs /\ Shape([proc[p] EXCEPT !.at = a])
              /\ \A c, o : \A j \in Inums :
                   HoldsOf([proc[p] EXCEPT !.at = a], c, o, j) = HoldsOf(proc[p], c, o, j)
<1> DEFINE r == proc[p]
           s == r.puts
<1>0. r \in Recs /\ Shape(r)
  BY Actor, Zenon
<1>1. s \in Seq(Pending) /\ Len(s) <= 2 /\ s # <<>>
  BY <1>0, Zenon DEF Recs, Shape
<1>2. /\ s[1] \in Pending /\ Tail(s) \in Seq(Pending) /\ Len(Tail(s)) <= 2
      /\ \A j : PutCount(Tail(s), j) = PutCount(s, j) - One(s[1].inum, j)
  BY <1>1, PutDone, Zenon
<1>3. s[1].inum \in Inums
  BY <1>2, Zenon DEF Pending
<1> DEFINE f == [r EXCEPT !.puts = Tail(s), !.at = "none"]
<1>4. Popped(p) = f
  BY Zenon DEF Popped
<1>5. f \in Recs
  BY <1>0, <1>2, Zenon DEF Recs
<1>6. /\ f.pc = r.pc /\ f.op = r.op /\ f.path = r.path /\ f.w = r.w /\ f.ip = r.ip /\ f.dp = r.dp
      /\ f.puts = Tail(s) /\ f.at = "none"
  BY <1>0, Zenon DEF Recs
<1> HIDE DEF f
<1>7. Shape(f)
  <2>1. r.pc # "user"
    BY <1>0, <1>1, Zenon DEF Shape
  <2>2. QED
    BY <1>0, <1>2, <1>6, <2>1, Zenon DEF Shape
<1>8. ASSUME NEW c, NEW o, NEW j \in Inums
      PROVE  HoldsOf(f, c, o, j) = HoldsOf(r, c, o, j) - One(s[1].inum, j)
  <2>1. PutCount(s, j) \in Int /\ One(s[1].inum, j) \in Int
    BY Ints, Zenon
  <2>2. PutCount(Tail(s), j) = PutCount(s, j) - One(s[1].inum, j)
    BY <1>2, Zenon
  <2>3. HoldsOf(r, c, o, j) = HoldsOf(f, c, o, j) + One(s[1].inum, j)
    <3>1. PutCount(r.puts, j) = PutCount(f.puts, j) + One(s[1].inum, j)
      BY <1>6, <2>1, <2>2
    <3>2. QED
      BY <1>6, <2>1, <3>1, HoldsPuts
  <2>4. HoldsOf(f, c, o, j) \in Nat
    BY HoldsType, Zenon
  <2>5. QED
    BY <2>1, <2>3, <2>4
<1>9. ASSUME NEW a \in {"free", "drop"}
      PROVE  /\ [r EXCEPT !.at = a] \in Recs /\ Shape([r EXCEPT !.at = a])
             /\ \A c, o : \A j \in Inums : HoldsOf([r EXCEPT !.at = a], c, o, j) = HoldsOf(r, c, o, j)
  <2> DEFINE g == [r EXCEPT !.at = a]
  <2>1. g \in Recs
    BY <1>0, Zenon DEF Recs
  <2>2. /\ g.pc = r.pc /\ g.op = r.op /\ g.path = r.path /\ g.w = r.w /\ g.ip = r.ip /\ g.dp = r.dp
        /\ g.puts = s
    BY <1>0, Zenon DEF Recs
  <2> HIDE DEF g
  <2>3. Shape(g)
    BY <1>0, <1>1, <2>2, Zenon DEF Shape
  <2>4. ASSUME NEW c, NEW o, NEW j \in Inums PROVE HoldsOf(g, c, o, j) = HoldsOf(r, c, o, j)
    BY <2>2, Zenon DEF HoldsOf
  <2>5. QED
    BY <2>1, <2>3, <2>4, Zenon DEF g
<1>10. QED
  BY <1>3, <1>4, <1>5, <1>7, <1>8, <1>9, Zenon

LEMMA RefDown ==
  ASSUME NEW a, NEW c \in Cores, SameRefs(a, c), NEW i \in Inums
  PROVE  /\ [c EXCEPT ![i].ref = @ - 1] \in Cores
         /\ \A j \in Inums : [c EXCEPT ![i].ref = @ - 1][j].ref = a[j].ref - One(i, j)
<1> DEFINE y == [c EXCEPT ![i].ref = @ - 1]
<1>1. y \in Cores
  BY DEF Cores
<1>2. ASSUME NEW j \in Inums PROVE y[j].ref = a[j].ref - One(i, j)
  <2>1. c[j].ref \in Int /\ a[j].ref = c[j].ref
    BY Zenon DEF Cores, SameRefs
  <2>2. y[j].ref = c[j].ref - (IF i = j THEN 1 ELSE 0)
    BY <2>1 DEF Cores
  <2>3. QED
    BY <2>1, <2>2, Zenon DEF One
<1>3. QED
  BY <1>1, <1>2, Zenon

LEMMA LockSet ==
  ASSUME NEW a, NEW c \in Cores, SameRefs(a, c), NEW i \in Inums, NEW p \in Procs
  PROVE  [c EXCEPT ![i].lock = p] \in Cores /\ SameRefs(a, [c EXCEPT ![i].lock = p])
BY Zenon DEF Cores, SameRefs

LEMMA StepIput ==
  ASSUME IInv, NEW p \in Procs, iput(p)
  PROVE  IInv'
<1> DEFINE i == proc[p].puts[1].inum
           c == IF proc[p].puts[1].unlock THEN iunlock(core, i) ELSE core
<1>0. proc[p].puts # <<>> /\ ofile' = ofile
  BY Zenon DEF iput, Calm
<1>1. i \in Inums /\ disk \in Nodes /\ core \in Cores
  BY <1>0, Putting, Actor, Zenon
<1>2. c \in Cores /\ SameRefs(core, c)
  <2>1. iunlock(core, i) \in Cores /\ SameRefs(core, iunlock(core, i))
    BY <1>1, IunlockIs, Zenon
  <2>2. SameRefs(core, core)
    BY Zenon DEF SameRefs
  <2>3. QED
    BY <1>1, <2>1, <2>2, Zenon
<1>3. \/ Step(p, disk, [c EXCEPT ![i].lock = p], [proc[p] EXCEPT !.at = "free"])
      \/ Step(p, disk, [c EXCEPT ![i].ref = @ - 1], Popped(p))
  BY Zenon DEF iput
<1> HIDE DEF c
<1>4. CASE Step(p, disk, [c EXCEPT ![i].lock = p], [proc[p] EXCEPT !.at = "free"])
  <2> DEFINE q == [proc[p] EXCEPT !.at = "free"]
             y == [c EXCEPT ![i].lock = p]
  <2>1. q \in Recs /\ Shape(q) /\ \A b, o : \A j \in Inums : HoldsOf(q, b, o, j) = HoldsOf(proc[p], b, o, j)
    BY <1>0, Putting, Zenon
  <2>2. y \in Cores /\ SameRefs(core, y)
    BY <1>1, <1>2, LockSet, Zenon
  <2>3. Step(p, disk, y, q)
    BY <1>4, Zenon
  <2> HIDE DEF q, y
  <2>4. \A j \in Inums : HoldsOf(q, cwd[p], ofile[p], j) = HoldsOf(proc[p], cwd[p], ofile[p], j)
    BY <2>1, Zenon
  <2>5. QED
    BY <1>0, <1>1, <2>1, <2>2, <2>3, <2>4, Kept, Zenon
<1>5. CASE Step(p, disk, [c EXCEPT ![i].ref = @ - 1], Popped(p))
  <2> DEFINE y == [c EXCEPT ![i].ref = @ - 1]
  <2>1. /\ Popped(p) \in Recs /\ Shape(Popped(p))
        /\ \A b, o : \A j \in Inums : HoldsOf(Popped(p), b, o, j) = HoldsOf(proc[p], b, o, j) - One(i, j)
    BY <1>0, Putting, Zenon
  <2>3. Step(p, disk, y, Popped(p))
    BY <1>5, Zenon
  <2> HIDE DEF i
  <2>2. y \in Cores /\ \A j \in Inums : y[j].ref = core[j].ref - One(i, j)
    BY <1>1, <1>2, RefDown, Zenon
  <2> HIDE DEF y
  <2>4. \A j \in Inums : HoldsOf(Popped(p), cwd[p], ofile[p], j)
                           = HoldsOf(proc[p], cwd[p], ofile[p], j) - One(i, j)
    BY <2>1, Zenon
  <2>5. QED
    BY <1>0, <1>1, <2>1, <2>2, <2>3, <2>4, Dropped, Zenon
<1>6. QED
  BY <1>3, <1>4, <1>5, Zenon

LEMMA NodeOf ==
  ASSUME NEW t \in Str, NEW n \in Int, NEW e \in Seq(Entries)
  PROVE  [type |-> t, nlink |-> n, ents |-> e] \in NodeRec
BY Zenon DEF NodeRec

\* An entry of the table that is given up on disk.
LEMMA Forgets ==
  ASSUME NEW c \in Cores, NEW i \in Inums
  PROVE  LET y == [c EXCEPT ![i] = [@ EXCEPT !.type = "free", !.valid = FALSE, !.lock = NoProc]]
         IN  y \in Cores /\ SameRefs(c, y)
<1> DEFINE x == [c[i] EXCEPT !.type = "free", !.valid = FALSE, !.lock = NoProc]
           y == [c EXCEPT ![i] = x]
<1>1. c[i] \in CoreRec /\ "free" \in Str
  BY Literals, Zenon DEF Cores, CoreRec
<1>2. x \in CoreRec /\ x.ref = c[i].ref
  BY <1>1, Zenon DEF CoreRec
<1> HIDE DEF x
<1>3. y \in Cores /\ SameRefs(c, y)
  BY <1>2, Zenon DEF Cores, CoreRec, SameRefs
<1>4. QED
  BY <1>3, Zenon DEF x

LEMMA FreeNode ==
  ASSUME NEW d \in Nodes, NEW i
  PROVE  /\ [d EXCEPT ![i] = Free] \in Nodes
         /\ \A t \in Str : [d EXCEPT ![i] = [Free EXCEPT !.type = t]] \in Nodes
<1>1. Free \in NodeRec
  <2>1. "free" \in Str
    BY Literals, Zenon
  <2>2. 0 \in Int /\ <<>> \in Seq(Entries)
    OBVIOUS
  <2>3. [type |-> "free", nlink |-> 0, ents |-> <<>>] \in NodeRec
    BY <2>1, <2>2, NodeOf, Zenon
  <2>4. QED
    BY <2>3, Zenon DEF Free
<1>2. ASSUME NEW t \in Str PROVE [Free EXCEPT !.type = t] \in NodeRec
  BY <1>1, Zenon DEF NodeRec
<1>3. ASSUME NEW x \in NodeRec PROVE [d EXCEPT ![i] = x] \in Nodes
  BY Zenon DEF Nodes, NodeRec
<1>4. QED
  BY <1>1, <1>2, <1>3, Zenon

LEMMA StepFree ==
  ASSUME IInv, NEW p \in Procs, iputFree(p)
  PROVE  IInv'
<1> DEFINE i == proc[p].puts[1].inum
           q == [proc[p] EXCEPT !.at = "drop"]
           e == [disk EXCEPT ![i] = Free]
           y == [core EXCEPT ![i] = [@ EXCEPT !.type = "free", !.valid = FALSE, !.lock = NoProc]]
<1>0. ofile' = ofile /\ proc[p].at = "free" /\ Step(p, e, y, q)
  BY Zenon DEF iputFree, Calm
<1>a. proc[p].puts # <<>>
  BY <1>0, Actor, Zenon DEF Shape
<1>1. i \in Inums /\ disk \in Nodes /\ core \in Cores
  BY <1>a, Putting, Actor, Zenon
<1>2. q \in Recs /\ Shape(q) /\ \A b, o : \A j \in Inums : HoldsOf(q, b, o, j) = HoldsOf(proc[p], b, o, j)
  BY <1>a, Putting, Zenon
<1> HIDE DEF i
<1>3. y \in Cores /\ SameRefs(core, y)
  BY <1>1, Forgets, Zenon
<1>4. e \in Nodes
  BY <1>1, FreeNode, Zenon
<1> HIDE DEF q, e, y
<1>5. \A j \in Inums : HoldsOf(q, cwd[p], ofile[p], j) = HoldsOf(proc[p], cwd[p], ofile[p], j)
  BY <1>2, Zenon
<1>6. QED
  BY <1>0, <1>2, <1>3, <1>4, <1>5, Kept, Zenon

LEMMA StepDrop ==
  ASSUME IInv, NEW p \in Procs, iputDrop(p)
  PROVE  IInv'
<1> DEFINE i == proc[p].puts[1].inum
           y == [core EXCEPT ![i].ref = @ - 1]
<1>0. ofile' = ofile /\ proc[p].at = "drop" /\ Step(p, disk, y, Popped(p))
  BY Zenon DEF iputDrop
<1>a. proc[p].puts # <<>>
  BY <1>0, Actor, Zenon DEF Shape
<1>1. i \in Inums /\ disk \in Nodes /\ core \in Cores
  BY <1>a, Putting, Actor, Zenon
<1>2. /\ Popped(p) \in Recs /\ Shape(Popped(p))
      /\ \A b, o : \A j \in Inums : HoldsOf(Popped(p), b, o, j) = HoldsOf(proc[p], b, o, j) - One(i, j)
  BY <1>a, Putting, Zenon
<1> HIDE DEF i
<1>3. SameRefs(core, core)
  BY Zenon DEF SameRefs
<1>4. y \in Cores /\ \A j \in Inums : y[j].ref = core[j].ref - One(i, j)
  BY <1>1, <1>3, RefDown, Zenon
<1> HIDE DEF y
<1>5. \A j \in Inums : HoldsOf(Popped(p), cwd[p], ofile[p], j)
                         = HoldsOf(proc[p], cwd[p], ofile[p], j) - One(i, j)
  BY <1>2, Zenon
<1>6. QED
  BY <1>0, <1>1, <1>2, <1>4, <1>5, Dropped, Zenon

-----------------------------------------------------------------------------
(* namex(), and entering and leaving the kernel *)

\* Where a process is, after namex() or in the walk.
LEMMA OnPath ==
  ASSUME IInv, NEW p \in Procs, NEW l \in {"namex", "found"}, Ready(p, l)
  PROVE  /\ proc[p] \in Recs /\ proc[p].w \in Inums /\ proc[p].w # 0 /\ proc[p].dp = 0
         /\ proc[p].ip \in Inum0 /\ (proc[p].ip # 0 => proc[p].op = "link")
         /\ (l = "namex" => Walking(proc[p]) /\ proc[p].path # <<>>)
<1>1. proc[p] \in Recs /\ Shape(proc[p])
  BY Actor, Zenon
<1>2. proc[p].pc = l /\ proc[p].puts = <<>> /\ proc[p].at = "none"
  <2>1. l # "end_op"
    OBVIOUS
  <2>2. QED
    BY <2>1, Mine, Zenon
<1>3. /\ proc[p].w # 0 /\ proc[p].dp = 0 /\ (proc[p].ip # 0 => proc[p].op = "link")
      /\ (l = "namex" => proc[p].path # <<>>)
  BY <1>1, <1>2, Zenon DEF Shape
<1>4. proc[p].w \in Inum0 /\ proc[p].ip \in Inum0
  BY <1>1, Zenon DEF Recs
<1>5. proc[p].w \in Inums
  BY <1>3, <1>4, Some, Zenon
<1>6. l = "namex" => Walking(proc[p])
  BY <1>1, <1>2, <1>3, Zenon DEF Walking
<1>7. QED
  BY <1>1, <1>3, <1>4, <1>5, <1>6, Zenon

LEMMA StepNamex ==
  ASSUME IInv, NEW p \in Procs, namex(p)
  PROVE  IInv'
<1> DEFINE r == proc[p]
           i == proc[p].w
           c == iunlock(ilock(core, i, p), i)
           slot == dirlookup(i, r.path[1])
           next == disk[i].ents[slot].inum
           up == ilock(core, i, p)[i].nlink = 0 /\ r.path[1] = ".."
           r0 == [r EXCEPT !.w = next, !.path = Tail(r.path), !.up = up]
           r1 == Walk(r0)
           r2 == [r1 EXCEPT !.puts = <<Put(i)>> \o r1.puts]
           f == [r EXCEPT !.pc = "found", !.name = r.path[1], !.path = <<>>, !.up = FALSE]
<1>0. Ready(p, "namex") /\ ofile' = ofile
  BY Zenon DEF namex, Calm
<1>1. r \in Recs /\ i \in Inums /\ Walking(r) /\ r.path # <<>> /\ disk \in Nodes
  BY <1>0, OnPath, Actor, Zenon
<1>2. c \in Cores /\ SameRefs(core, c)
  BY <1>1, Locked, Zenon
<1>3. \/ Step(p, disk, c, NotFound(r))
      \/ Step(p, disk, c, f)
      \/ slot # 0 /\ Step(p, disk, iget(c, next), r2)
  BY Zenon DEF namex
<1>4. CASE Step(p, disk, c, NotFound(r))
  <2>1. /\ NotFound(r) \in Recs /\ Shape(NotFound(r))
        /\ \A b, o : \A j \in Inums : HoldsOf(NotFound(r), b, o, j) = HoldsOf(r, b, o, j)
    BY <1>1, NotFoundIs, Zenon
  <2> HIDE DEF r, c
  <2>2. \A j \in Inums : HoldsOf(NotFound(r), cwd[p], ofile[p], j) = HoldsOf(proc[p], cwd[p], ofile[p], j)
    BY <2>1, Zenon DEF r
  <2>3. QED
    BY <1>0, <1>1, <1>2, <1>4, <2>1, <2>2, Kept, Zenon
<1>5. CASE Step(p, disk, c, f)
  <2>1. r.path[1] \in Str
    BY <1>1 DEF Recs
  <2> HIDE DEF r
  <2>2. f \in Recs
    <3>1. "found" \in Pcs /\ <<>> \in Seq(Str) /\ FALSE \in BOOLEAN
      BY DEF Pcs
    <3>2. QED
      BY <1>1, <2>1, <3>1, Zenon DEF Recs
  <2>3. /\ f.pc = "found" /\ f.w = r.w /\ f.ip = r.ip /\ f.dp = r.dp /\ f.puts = r.puts /\ f.at = r.at
        /\ f.op = r.op
    BY <1>1, Zenon DEF Recs
  <2>4. r.pc = "namex"
    BY <1>1, Zenon DEF Walking
  <2> HIDE DEF f, c
  <2>5. Shape(f)
    BY <1>1, <2>3, NoPuts DEF Shape, Walking
  <2>6. ASSUME NEW j \in Inums
        PROVE  HoldsOf(f, cwd[p], ofile[p], j) = HoldsOf(r, cwd[p], ofile[p], j)
    BY <2>3, <2>4, Zenon DEF HoldsOf
  <2>7. QED
    BY <1>0, <1>1, <1>2, <1>5, <2>2, <2>5, <2>6, Kept, Zenon DEF r
<1>6. CASE slot # 0 /\ Step(p, disk, iget(c, next), r2)
  <2>1. next \in Inums
    BY <1>1, <1>6, LookupIs, Zenon
  <2>2. up \in BOOLEAN /\ Tail(r.path) \in Seq(Str)
    BY <1>1 DEF Recs
  <2>3. next \in Inum0 /\ next # 0
    BY <2>1, Zero, Zenon
  <2> HIDE DEF next, up, c
  <2> HIDE DEF r
  <2>4. r0 \in Recs
    BY <1>1, <2>2, <2>3, Zenon DEF Recs
  <2>5. /\ r0.pc = r.pc /\ r0.w = next /\ r0.ip = r.ip /\ r0.dp = r.dp /\ r0.puts = r.puts
        /\ r0.at = r.at /\ r0.op = r.op
    BY <1>1, Zenon DEF Recs
  <2> HIDE DEF r0
  <2>6. Walking(r0)
    BY <1>1, <2>3, <2>4, <2>5, Zenon DEF Walking
  <2>7. /\ r1 \in Recs /\ Shape(r1) /\ Len(r1.puts) <= 1 /\ r1.pc # "user"
        /\ \A b, o : \A j \in Inums : HoldsOf(r1, b, o, j) = HoldsOf(r0, b, o, j)
    BY <2>6, WalkIs, Zenon
  <2> HIDE DEF r1
  <2> DEFINE s == <<Put(i)>> \o r1.puts
  <2>8. s \in Seq(Pending) /\ Len(s) <= 2 /\ \A j : PutCount(s, j) = One(i, j) + PutCount(r1.puts, j)
    <3>1. r1.puts \in Seq(Pending)
      BY <2>7, Zenon DEF Recs
    <3>2. QED
      BY <1>1, <2>7, <3>1, PutAhead, Zenon
  <2>9. r2 = [r1 EXCEPT !.puts = s]
    OBVIOUS
  <2> HIDE DEF s
  <2>10. r2 \in Recs
    BY <2>7, <2>8, <2>9, Zenon DEF Recs
  <2>11. /\ r2.pc = r1.pc /\ r2.w = r1.w /\ r2.ip = r1.ip /\ r2.dp = r1.dp /\ r2.puts = s
         /\ r2.at = r1.at /\ r2.op = r1.op /\ r2.path = r1.path
    BY <2>7, <2>9, Zenon DEF Recs
  <2>a. s # <<>>
    BY <2>7 DEF s, Recs
  <2> HIDE DEF r2, i
  <2>12. Shape(r2)
    BY <2>7, <2>8, <2>11, <2>a, Zenon DEF Shape
  <2>13. ASSUME NEW j \in Inums
         PROVE  HoldsOf(r2, cwd[p], ofile[p], j) = HoldsOf(proc[p], cwd[p], ofile[p], j) + One(next, j)
    <3>1. One(i, j) \in Int /\ One(next, j) \in Int
      BY Ints, Zenon
    <3>2. PutCount(r2.puts, j) = PutCount(r1.puts, j) + One(i, j)
      <4>1. PutCount(r1.puts, j) \in Int
        BY Ints, Zenon
      <4>2. QED
        BY <2>8, <2>11, <3>1, <4>1
    <3>3. HoldsOf(r2, cwd[p], ofile[p], j) = HoldsOf(r0, cwd[p], ofile[p], j) + One(i, j)
      <4>1. HoldsOf(r2, cwd[p], ofile[p], j) = HoldsOf(r1, cwd[p], ofile[p], j) + One(i, j)
        BY <2>11, <3>1, <3>2, HoldsPuts
      <4>2. QED
        BY <2>7, <4>1, Zenon
    <3>4. HoldsOf(r, cwd[p], ofile[p], j) = PutCount(r.puts, j) + One(i, j) + One(r.ip, j) + One(r.dp, j)
                                            + One(cwd[p], j) + One(ofile[p], j)
      BY <1>1, Tally DEF Walking, r, i
    <3>5. HoldsOf(r0, cwd[p], ofile[p], j) = PutCount(r.puts, j) + One(next, j) + One(r.ip, j) + One(r.dp, j)
                                             + One(cwd[p], j) + One(ofile[p], j)
      BY <2>5, <2>6, Tally DEF Walking
    <3>6. /\ PutCount(r.puts, j) \in Int /\ One(r.ip, j) \in Int /\ One(r.dp, j) \in Int
          /\ One(cwd[p], j) \in Int /\ One(ofile[p], j) \in Int
      BY Ints, Zenon
    <3>7. HoldsOf(r2, cwd[p], ofile[p], j) = HoldsOf(r, cwd[p], ofile[p], j) + One(next, j)
      BY <3>1, <3>3, <3>4, <3>5, <3>6
    <3>8. QED
      BY <3>7, Zenon DEF r
  <2>14. iget(c, next) \in Cores /\ \A j \in Inums : iget(c, next)[j].ref = core[j].ref + One(next, j)
    BY <1>2, <2>1, GotAfter, Zenon
  <2>15. QED
    BY <1>0, <1>1, <1>6, <2>1, <2>10, <2>12, <2>13, <2>14, Got, Zenon
<1>7. QED
  BY <1>3, <1>4, <1>5, <1>6, Zenon

\* The walk that a call begins: from the root or the current directory.
LEMMA StartIs ==
  ASSUME IInv, NEW p \in Procs, NEW r \in Recs, r.dp = 0, r.puts = <<>>, r.at = "none",
         r.ip # 0 => r.op = "link", NEW path \in Seq(Str)
  PROVE  /\ From(p, path) \in Inums
         /\ NamexStart(p, r, path) \in Recs /\ Shape(NamexStart(p, r, path))
         /\ \A c, o : \A j \in Inums : HoldsOf(NamexStart(p, r, path), c, o, j)
                                       = One(From(p, path), j) + One(r.ip, j) + One(c, j) + One(o, j)
<1> DEFINE x == From(p, path)
           rest == IF Absolute(path) THEN Tail(path) ELSE path
           q == [r EXCEPT !.pc = "namex", !.w = x, !.path = rest]
<1>1. x \in Inums
  BY Zero, Actor, Zenon DEF From
<1>2. x \in Inum0 /\ x # 0
  BY <1>1, Zero, Zenon
<1>3. rest \in Seq(Str)
  BY DEF Absolute
<1>4. NamexStart(p, r, path) = Walk(q)
  BY Zenon DEF NamexStart
<1> HIDE DEF x, rest
<1>5. q \in Recs
  <2>1. "namex" \in Pcs
    BY Zenon DEF Pcs
  <2>2. QED
    BY <1>2, <1>3, <2>1, Zenon DEF Recs
<1>6. /\ q.pc = "namex" /\ q.w = x /\ q.ip = r.ip /\ q.dp = 0 /\ q.puts = <<>> /\ q.at = "none"
      /\ q.op = r.op
  BY Zenon DEF Recs
<1> HIDE DEF q
<1>7. Walking(q)
  BY <1>2, <1>5, <1>6, Zenon DEF Walking
<1>8. /\ Walk(q) \in Recs /\ Shape(Walk(q))
      /\ \A c, o : \A j \in Inums : HoldsOf(Walk(q), c, o, j) = HoldsOf(q, c, o, j)
  BY <1>7, WalkIs, Zenon
<1>9. ASSUME NEW c, NEW o, NEW j \in Inums
      PROVE  HoldsOf(q, c, o, j) = One(x, j) + One(r.ip, j) + One(c, j) + One(o, j)
  <2>1. HoldsOf(q, c, o, j) = PutCount(<<>>, j) + One(x, j) + One(r.ip, j) + One(0, j) + One(c, j) + One(o, j)
    BY <1>6, Tally
  <2>2. /\ PutCount(<<>>, j) = 0 /\ One(0, j) = 0
        /\ One(x, j) \in Int /\ One(r.ip, j) \in Int /\ One(c, j) \in Int /\ One(o, j) \in Int
    BY NoPuts, OneNone, Ints, Zenon
  <2>3. QED
    BY <2>1, <2>2
<1>10. \A c, o : \A j \in Inums : HoldsOf(Walk(q), c, o, j) = One(x, j) + One(r.ip, j) + One(c, j) + One(o, j)
  BY <1>8, <1>9
<1>11. QED
  BY <1>1, <1>4, <1>8, <1>10 DEF x

LEMMA InUserSpace ==
  ASSUME IInv, NEW p \in Procs, Ready(p, "user")
  PROVE  \A c, o : \A j \in Inums : HoldsOf(proc[p], c, o, j) = One(c, j) + One(o, j)
<1>1. proc[p].w = 0 /\ proc[p].ip = 0 /\ proc[p].dp = 0
  BY Actor, Zenon DEF Shape, Ready
<1>2. ASSUME NEW c, NEW o, NEW j \in Inums PROVE HoldsOf(proc[p], c, o, j) = One(c, j) + One(o, j)
  <2>1. HoldsOf(proc[p], c, o, j) = Sum(proc[p], j) + One(c, j) + One(o, j)
    BY Mine
  <2>2. Sum(proc[p], j) = One(0, j)
    BY <1>1, SumOne, Zenon
  <2>3. One(0, j) = 0 /\ One(c, j) \in Int /\ One(o, j) \in Int
    BY OneNone, Ints, Zenon
  <2>4. QED
    BY <2>1, <2>2, <2>3
<1>3. QED
  BY <1>2, Zenon

LEMMA StepSyscall ==
  ASSUME IInv, NEW p \in Procs, NEW op \in Str, syscall(p, op)
  PROVE  IInv'
<1>0. /\ Ready(p, "user") /\ disk' = disk /\ committed' = committed /\ calls' = calls
      /\ cwd' = cwd /\ ofile' = ofile
  BY Zenon DEF syscall, Calm
<1>1. PICK k \in calls :
        /\ core' = iget(core, From(p, k.path))
        /\ proc' = [proc EXCEPT ![p] =
             NamexStart(p, [Idle EXCEPT !.op = op, !.type = k.type, !.new = k.new], k.path)]
  BY Zenon DEF syscall
<1>2. k.type \in Str /\ k.path \in Seq(Str) /\ k.new \in Seq(Str)
  BY Zenon DEF IInv, Types, Calls
<1> DEFINE r == [Idle EXCEPT !.op = op, !.type = k.type, !.new = k.new]
           x == From(p, k.path)
           q == NamexStart(p, r, k.path)
<1>3. r \in Recs
  BY <1>2, IdleRec, Zenon DEF Recs
<1>4. r.dp = 0 /\ r.puts = <<>> /\ r.at = "none" /\ r.ip = 0
  BY Zenon DEF Idle
<1>5. core' = iget(core, x) /\ proc' = [proc EXCEPT ![p] = q]
  BY <1>1, Zenon
<1> HIDE DEF r
<1>6. /\ x \in Inums /\ q \in Recs /\ Shape(q)
      /\ \A c, o : \A j \in Inums : HoldsOf(q, c, o, j) = One(x, j) + One(r.ip, j) + One(c, j) + One(o, j)
  BY <1>2, <1>3, <1>4, StartIs, Zenon
<1> HIDE DEF x, q
<1>7. /\ cwd[p] \in Inums /\ ofile[p] \in Inum0 /\ committed \in Nodes /\ core \in Cores /\ disk \in Nodes
      /\ cwd \in [Procs -> Inums] /\ ofile \in [Procs -> Inum0]
  BY Actor, Zenon
<1>8. cwd' = [cwd EXCEPT ![p] = cwd[p]] /\ ofile' = [ofile EXCEPT ![p] = ofile[p]]
  BY <1>0, <1>7, Zenon
<1>9. core' \in Cores /\ \A j \in Inums : core'[j].ref = core[j].ref + One(x, j)
  BY <1>5, <1>6, <1>7, IgetIs, Zenon
<1>10. ASSUME NEW j \in Inums
       PROVE  /\ core'[j].ref = core[j].ref + One(x, j) - One(0, j)
              /\ HoldsOf(q, cwd[p], ofile[p], j) =
                   HoldsOf(proc[p], cwd[p], ofile[p], j) + One(x, j) - One(0, j)
  <2>1. /\ One(0, j) = 0 /\ One(x, j) \in Int /\ One(cwd[p], j) \in Int /\ One(ofile[p], j) \in Int
    BY OneNone, Ints, Zenon
  <2>2. core[j].ref \in Int
    BY <1>7, Zenon DEF Cores
  <2>3. core'[j].ref = core[j].ref + One(x, j)
    BY <1>9, Zenon
  <2>4. HoldsOf(q, cwd[p], ofile[p], j) = One(x, j) + One(0, j) + One(cwd[p], j) + One(ofile[p], j)
    BY <1>4, <1>6
  <2>5. HoldsOf(proc[p], cwd[p], ofile[p], j) = One(cwd[p], j) + One(ofile[p], j)
    BY <1>0, InUserSpace, Zenon
  <2>6. QED
    BY <2>1, <2>2, <2>3, <2>4, <2>5
<1>11. x \in Inum0 /\ 0 \in Inum0
  BY <1>6, Zero, Zenon
<1>12. disk' \in Nodes /\ committed' \in Nodes
  BY <1>0, <1>7, Zenon
<1>13. Moves(p, q, cwd[p], ofile[p], x, 0)
  BY <1>0, <1>5, <1>6, <1>7, <1>8, <1>9, <1>10, <1>11, <1>12, Zenon DEF Moves
<1>14. QED
  BY <1>13, Moved, Zenon

\* A reference changes hands within p: the table is not touched, but for locks.
Hands(p, r, c, o) ==
  /\ r \in Recs /\ Shape(r) /\ proc' = [proc EXCEPT ![p] = r]
  /\ c \in Inums /\ cwd' = [cwd EXCEPT ![p] = c]
  /\ o \in Inum0 /\ ofile' = [ofile EXCEPT ![p] = o]
  /\ disk' \in Nodes /\ committed' \in Nodes /\ core' \in Cores /\ SameRefs(core, core') /\ calls' = calls
  /\ \A j \in Inums : HoldsOf(r, c, o, j) = HoldsOf(proc[p], cwd[p], ofile[p], j)

LEMMA Handed ==
  ASSUME IInv, NEW p \in Procs, NEW r, NEW c, NEW o, Hands(p, r, c, o)
  PROVE  IInv'
<1>0. /\ r \in Recs /\ Shape(r) /\ proc' = [proc EXCEPT ![p] = r]
      /\ c \in Inums /\ cwd' = [cwd EXCEPT ![p] = c]
      /\ o \in Inum0 /\ ofile' = [ofile EXCEPT ![p] = o]
      /\ disk' \in Nodes /\ committed' \in Nodes /\ core' \in Cores /\ SameRefs(core, core') /\ calls' = calls
      /\ \A j \in Inums : HoldsOf(r, c, o, j) = HoldsOf(proc[p], cwd[p], ofile[p], j)
  BY Zenon DEF Hands
<1> USE <1>0
<1>1. ASSUME NEW j \in Inums
      PROVE  /\ core'[j].ref = core[j].ref + One(0, j) - One(0, j)
             /\ HoldsOf(r, c, o, j) = HoldsOf(proc[p], cwd[p], ofile[p], j) + One(0, j) - One(0, j)
  <2>1. One(0, j) = 0 /\ core'[j].ref = core[j].ref
    BY OneNone, Zenon DEF SameRefs
  <2>2. core[j].ref \in Int
    BY Actor, Zenon DEF Cores
  <2>3. HoldsOf(proc[p], cwd[p], ofile[p], j) \in Nat
    BY HoldsType, Zenon
  <2>4. HoldsOf(r, c, o, j) = HoldsOf(proc[p], cwd[p], ofile[p], j)
    OBVIOUS
  <2>5. QED
    BY <2>1, <2>2, <2>3, <2>4
<1>2. Moves(p, r, c, o, 0, 0)
  BY <1>1, Zero, Zenon DEF Moves
<1>3. QED
  BY <1>2, Moved, Zenon

LEMMA StepClose ==
  ASSUME IInv, NEW p \in Procs, sys_close(p)
  PROVE  IInv'
<1> DEFINE x == ofile[p]
           s == <<Put(x)>>
<1>0. /\ Ready(p, "user") /\ x # 0 /\ ofile' = [ofile EXCEPT ![p] = 0]
      /\ proc' = [proc EXCEPT ![p] = Finish(s)]
      /\ calls' = calls /\ disk' = disk /\ committed' = committed /\ core' = core /\ cwd' = cwd
  BY Zenon DEF sys_close
<1>1. /\ disk \in Nodes /\ committed \in Nodes /\ core \in Cores /\ cwd[p] \in Inums /\ x \in Inum0
      /\ cwd \in [Procs -> Inums]
  BY Actor, Zenon
<1>2. x \in Inums
  BY <1>0, <1>1, Some, Zenon
<1>3. s \in Seq(Pending) /\ Len(s) = 1 /\ \A j : PutCount(s, j) = One(x, j)
  BY <1>2, OnePut, Zenon
<1> HIDE DEF s
<1>4. Len(s) <= 2
  BY <1>3
<1>5. /\ Finish(s) \in Recs /\ Shape(Finish(s))
      /\ \A c, o : \A j \in Inums : HoldsOf(Finish(s), c, o, j) = PutCount(s, j) + One(c, j) + One(o, j)
  BY <1>3, <1>4, FinishIs, Zenon
<1>6. ASSUME NEW j \in Inums
      PROVE  HoldsOf(Finish(s), cwd[p], 0, j) = HoldsOf(proc[p], cwd[p], ofile[p], j)
  <2>1. HoldsOf(Finish(s), cwd[p], 0, j) = One(x, j) + One(cwd[p], j) + One(0, j)
    BY <1>3, <1>5, Zenon
  <2>2. HoldsOf(proc[p], cwd[p], x, j) = One(cwd[p], j) + One(x, j)
    BY <1>0, InUserSpace, Zenon
  <2>3. One(0, j) = 0 /\ One(x, j) \in Int /\ One(cwd[p], j) \in Int
    BY OneNone, Ints, Zenon
  <2>4. QED
    BY <2>1, <2>2, <2>3
<1>7. cwd' = [cwd EXCEPT ![p] = cwd[p]]
  BY <1>0, <1>1, Zenon
<1>8. disk' \in Nodes /\ committed' \in Nodes /\ core' \in Cores /\ SameRefs(core, core')
  BY <1>0, <1>1, Zenon DEF SameRefs
<1>9. Hands(p, Finish(s), cwd[p], 0)
  BY <1>0, <1>1, <1>5, <1>6, <1>7, <1>8, Zero, Zenon DEF Hands
<1>10. QED
  BY <1>9, Handed, Zenon

LEMMA IdleIs ==
  /\ Idle \in Recs /\ Shape(Idle)
  /\ \A c, o : \A j \in Inums : HoldsOf(Idle, c, o, j) = One(c, j) + One(o, j)
<1>1. /\ Idle.pc = "user" /\ Idle.w = 0 /\ Idle.ip = 0 /\ Idle.dp = 0 /\ Idle.puts = <<>>
      /\ Idle.at = "none"
  BY Zenon DEF Idle
<1>2. Idle \in Recs
  BY IdleRec, Zenon
<1>3. Shape(Idle)
  BY <1>1, NoPuts DEF Shape
<1>4. ASSUME NEW c, NEW o, NEW j \in Inums PROVE HoldsOf(Idle, c, o, j) = One(c, j) + One(o, j)
  <2>1. HoldsOf(Idle, c, o, j) = PutCount(<<>>, j) + One(0, j) + One(0, j) + One(0, j) + One(c, j) + One(o, j)
    BY <1>1, Tally
  <2>2. PutCount(<<>>, j) = 0 /\ One(0, j) = 0 /\ One(c, j) \in Int /\ One(o, j) \in Int
    BY NoPuts, OneNone, Ints, Zenon
  <2>3. QED
    BY <2>1, <2>2
<1>5. QED
  BY <1>2, <1>3, <1>4, Zenon

LEMMA StepEnd ==
  ASSUME IInv, NEW p \in Procs, end_op(p)
  PROVE  IInv'
<1> DEFINE i == proc[p].ip
           c == IF i # 0 THEN i ELSE cwd[p]
<1>0. /\ proc[p].pc = "end_op" /\ proc[p].puts = <<>> /\ proc' = [proc EXCEPT ![p] = Idle]
      /\ cwd' = [cwd EXCEPT ![p] = c] /\ committed' \in {disk, committed}
      /\ calls' = calls /\ disk' = disk /\ core' = core /\ ofile' = ofile
  BY Zenon DEF end_op, Ready, Calm
<1>1. /\ disk \in Nodes /\ committed \in Nodes /\ core \in Cores /\ cwd[p] \in Inums /\ ofile[p] \in Inum0
      /\ ofile \in [Procs -> Inum0] /\ proc[p] \in Recs /\ Shape(proc[p])
  BY Actor, Zenon
<1>2. i \in Inum0 /\ proc[p].w = 0 /\ proc[p].dp = 0
  BY <1>0, <1>1, Zenon DEF Recs, Shape
<1>3. c \in Inums
  BY <1>1, <1>2, Some, Zenon
<1>4. ASSUME NEW j \in Inums
      PROVE  HoldsOf(Idle, c, ofile[p], j) = HoldsOf(proc[p], cwd[p], ofile[p], j)
  <2>1. HoldsOf(Idle, c, ofile[p], j) = One(c, j) + One(ofile[p], j)
    BY IdleIs, Zenon
  <2>2. HoldsOf(proc[p], cwd[p], ofile[p], j) =
          PutCount(<<>>, j) + One(0, j) + One(i, j) + One(0, j)
          + (IF i # 0 THEN 0 ELSE One(cwd[p], j)) + One(ofile[p], j)
    BY <1>0, <1>2, Zenon DEF HoldsOf
  <2>3. /\ PutCount(<<>>, j) = 0 /\ One(0, j) = 0 /\ One(i, j) \in Int /\ One(cwd[p], j) \in Int
        /\ One(ofile[p], j) \in Int
    BY NoPuts, OneNone, Ints, Zenon
  <2>4. CASE i # 0
    BY <2>1, <2>2, <2>3, <2>4
  <2>5. CASE i = 0
    BY <2>1, <2>2, <2>3, <2>5
  <2>6. QED
    BY <2>4, <2>5, Zenon
<1> HIDE DEF c
<1>5. ofile' = [ofile EXCEPT ![p] = ofile[p]]
  BY <1>0, <1>1, Zenon
<1>6. disk' \in Nodes /\ committed' \in Nodes /\ core' \in Cores /\ SameRefs(core, core')
  BY <1>0, <1>1, Zenon DEF SameRefs
<1>7. Hands(p, Idle, c, ofile[p])
  BY <1>0, <1>1, <1>3, <1>4, <1>5, <1>6, IdleIs, Zenon DEF Hands
<1>8. QED
  BY <1>7, Handed, Zenon

-----------------------------------------------------------------------------
(* sys_link() *)

LEMMA LinkedUp ==
  ASSUME IInv, NEW p \in Procs, NEW i \in Inums, NEW n \in Int
  PROVE  LET c == nlink(ilock(core, i, p), i, n) IN
         /\ c \in Cores /\ SameRefs(core, c)
         /\ iunlock(c, i) \in Cores /\ SameRefs(core, iunlock(c, i))
         /\ iupdate(disk, c, i) \in Nodes
<1> DEFINE c == nlink(ilock(core, i, p), i, n)
<1>1. ilock(core, i, p) \in Cores /\ SameRefs(core, ilock(core, i, p))
  BY Locked, Zenon
<1>2. c \in Cores /\ SameRefs(ilock(core, i, p), c)
  BY <1>1, NlinkIs, Zenon
<1>3. SameRefs(core, c)
  BY <1>1, <1>2, SameSame, Zenon
<1> HIDE DEF c
<1>4. iunlock(c, i) \in Cores /\ SameRefs(c, iunlock(c, i))
  BY <1>2, IunlockIs, Zenon
<1>5. SameRefs(core, iunlock(c, i))
  BY <1>3, <1>4, SameSame, Zenon
<1>6. iupdate(disk, c, i) \in Nodes
  BY <1>2, Actor, IupdateIs, Zenon
<1>7. QED
  BY <1>2, <1>3, <1>4, <1>5, <1>6, Zenon DEF c

LEMMA StepLinkIp ==
  ASSUME IInv, NEW p \in Procs, link_ip(p)
  PROVE  IInv'
<1> DEFINE i == proc[p].w
           c == nlink(ilock(core, i, p), i, 1)
           path == proc[p].new
           r == [proc[p] EXCEPT !.ip = i, !.new = <<>>]
           x == From(p, path)
           q == NamexStart(p, r, path)
<1>0. Ready(p, "found") /\ proc[p].op = "link" /\ proc[p].ip = 0 /\ ofile' = ofile
  BY Zenon DEF link_ip, Found, Calm
<1>1. /\ proc[p] \in Recs /\ i \in Inums /\ proc[p].dp = 0 /\ disk \in Nodes
  BY <1>0, OnPath, Actor, Zenon
<1>2. /\ proc[p].puts = <<>> /\ proc[p].at = "none"
      /\ \A b, o : \A j \in Inums : HoldsOf(proc[p], b, o, j) = Sum(proc[p], j) + One(b, j) + One(o, j)
  BY <1>0, Mine, Zenon
<1>3. \A j \in Inums : Sum(proc[p], j) = One(i, j)
  BY <1>0, <1>1, SumOne, Zenon
<1>4. \/ Step(p, disk, iunlock(ilock(core, i, p), i), Finish(<<Put(i)>>))
      \/ Step(p, iupdate(disk, c, i), iget(iunlock(c, i), x), q)
  BY Zenon DEF link_ip
<1>5. CASE Step(p, disk, iunlock(ilock(core, i, p), i), Finish(<<Put(i)>>))
  <2>1. iunlock(ilock(core, i, p), i) \in Cores /\ SameRefs(core, iunlock(ilock(core, i, p), i))
    BY <1>1, Locked, Zenon
  <2>2. "found" # "end_op"
    OBVIOUS
  <2>3. QED
    BY <1>0, <1>1, <1>3, <1>5, <2>1, <2>2, EndsWithOne, Zenon
<1>6. CASE Step(p, iupdate(disk, c, i), iget(iunlock(c, i), x), q)
  <2>1. iunlock(c, i) \in Cores /\ SameRefs(core, iunlock(c, i)) /\ iupdate(disk, c, i) \in Nodes
    <3>1. 1 \in Int
      OBVIOUS
    <3>2. QED
      BY <1>1, <3>1, LinkedUp, Zenon
  <2> HIDE DEF c
  <2>2. path \in Seq(Str) /\ i \in Inum0
    BY <1>1, Zero, Zenon DEF Recs
  <2>3. r \in Recs
    <3>1. <<>> \in Seq(Str)
      OBVIOUS
    <3>2. QED
      BY <1>1, <2>2, <3>1, Zenon DEF Recs
  <2>4. r.dp = 0 /\ r.puts = <<>> /\ r.at = "none" /\ r.op = "link" /\ r.ip = i
    BY <1>0, <1>1, <1>2, Zenon DEF Recs
  <2> HIDE DEF r, path
  <2>5. /\ x \in Inums /\ q \in Recs /\ Shape(q)
        /\ \A b, o : \A j \in Inums : HoldsOf(q, b, o, j) = One(x, j) + One(i, j) + One(b, j) + One(o, j)
    BY <2>2, <2>3, <2>4, StartIs
  <2> HIDE DEF x, q, i
  <2>6. /\ iget(iunlock(c, i), x) \in Cores
        /\ \A j \in Inums : iget(iunlock(c, i), x)[j].ref = core[j].ref + One(x, j)
    BY <2>1, <2>5, GotAfter, Zenon
  <2>7. ASSUME NEW j \in Inums
        PROVE  HoldsOf(q, cwd[p], ofile[p], j) = HoldsOf(proc[p], cwd[p], ofile[p], j) + One(x, j)
    <3>1. HoldsOf(q, cwd[p], ofile[p], j) = One(x, j) + One(i, j) + One(cwd[p], j) + One(ofile[p], j)
      BY <2>5, Zenon
    <3>2. HoldsOf(proc[p], cwd[p], ofile[p], j) = One(i, j) + One(cwd[p], j) + One(ofile[p], j)
      BY <1>2, <1>3
    <3>3. One(x, j) \in Int /\ One(i, j) \in Int /\ One(cwd[p], j) \in Int /\ One(ofile[p], j) \in Int
      BY Ints, Zenon
    <3>4. QED
      BY <3>1, <3>2, <3>3
  <2>8. QED
    BY <1>0, <1>6, <2>1, <2>5, <2>6, <2>7, Got, Zenon
<1>7. QED
  BY <1>4, <1>5, <1>6, Zenon

\* A call that has only ip and some puts left.
OnlyIp(q, x, s) ==
  /\ q \in Recs /\ q.pc \in {"link_bad", "unlink_dec"} /\ q.w = 0 /\ q.dp = 0 /\ q.ip = x
  /\ q.puts = s /\ q.at = "none"

LEMMA HoldingIp ==
  ASSUME NEW q, NEW x \in Inums, NEW s, Len(s) <= 2, OnlyIp(q, x, s)
  PROVE  /\ q \in Recs /\ Shape(q) /\ q.pc # "end_op" /\ q.puts = s
         /\ \A j \in Inums : Sum(q, j) = One(x, j)
<1>1. x # 0
  BY Zero, Zenon
<1>2. /\ q \in Recs /\ q.pc \in {"link_bad", "unlink_dec"} /\ q.w = 0 /\ q.dp = 0 /\ q.ip = x
      /\ q.puts = s /\ q.at = "none"
  BY Zenon DEF OnlyIp
<1>3. Shape(q)
  BY <1>1, <1>2, Zenon DEF Shape
<1>4. q.pc # "end_op"
  BY <1>2, Zenon
<1>5. QED
  BY <1>2, <1>3, <1>4, SumOne, Zenon

LEMMA BadIs ==
  ASSUME NEW x \in Inums, NEW s \in Seq(Pending)
  PROVE  OnlyIp([Idle EXCEPT !.pc = "link_bad", !.op = "link", !.ip = x, !.puts = s], x, s)
<1> DEFINE q == [Idle EXCEPT !.pc = "link_bad", !.op = "link", !.ip = x, !.puts = s]
<1>1. q.pc = "link_bad" /\ q.w = 0 /\ q.dp = 0 /\ q.ip = x /\ q.puts = s /\ q.at = "none"
  BY Zenon DEF Idle
<1>2. "link_bad" \in Pcs /\ "link" \in Str /\ x \in Inum0
  BY Literals, Zero, Zenon DEF Pcs
<1>3. q \in Recs
  BY <1>2, IdleRec, Zenon DEF Recs
<1>4. QED
  BY <1>1, <1>3, Zenon DEF OnlyIp

LEMMA DecIs ==
  ASSUME NEW x \in Inums, NEW s \in Seq(Pending)
  PROVE  OnlyIp([Idle EXCEPT !.pc = "unlink_dec", !.ip = x, !.puts = s], x, s)
<1> DEFINE q == [Idle EXCEPT !.pc = "unlink_dec", !.ip = x, !.puts = s]
<1>1. q.pc = "unlink_dec" /\ q.w = 0 /\ q.dp = 0 /\ q.ip = x /\ q.puts = s /\ q.at = "none"
  BY Zenon DEF Idle
<1>2. "unlink_dec" \in Pcs /\ x \in Inum0
  BY Zero, Zenon DEF Pcs
<1>3. q \in Recs
  BY <1>2, IdleRec, Zenon DEF Recs
<1>4. QED
  BY <1>1, <1>3, Zenon DEF OnlyIp

LEMMA StepLinkDp ==
  ASSUME IInv, NEW p \in Procs, link_dp(p)
  PROVE  IInv'
<1> DEFINE d == proc[p].w
           x == proc[p].ip
           c == ilock(core, d, p)
           slot == dirlookup(d, proc[p].name)
           i == disk[d].ents[slot].inum
           bad(s) == [Idle EXCEPT !.pc = "link_bad", !.op = "link", !.ip = x, !.puts = s]
           e == [disk EXCEPT ![d].ents = dirlink(d, proc[p].name, x)]
<1>0. Ready(p, "found") /\ proc[p].op = "link" /\ x # 0 /\ ofile' = ofile
  BY Zenon DEF link_dp, Found
<1>1. /\ proc[p] \in Recs /\ d \in Inums /\ proc[p].dp = 0 /\ x \in Inum0 /\ disk \in Nodes
  BY <1>0, OnPath, Actor, Zenon
<1>2. x \in Inums
  BY <1>0, <1>1, Some, Zenon
<1>3. \A j \in Inums : Sum(proc[p], j) = One(d, j) + One(x, j)
  BY <1>1, SumTwo
<1>4. /\ c \in Cores /\ SameRefs(core, c)
      /\ iunlock(c, d) \in Cores /\ SameRefs(core, iunlock(c, d))
  BY <1>1, Locked, Zenon
<1>5. \/ slot # 0 /\ Step(p, disk, iget(c, i), bad(<<Put(i), UnlockPut(d)>>))
      \/ Step(p, disk, iunlock(c, d), bad(<<Put(d)>>))
      \/ Step(p, e, iunlock(c, d), Finish(<<Put(d), Put(x)>>))
  BY Zenon DEF link_dp
<1>a. "found" # "end_op"
  OBVIOUS
<1> HIDE DEF c
<1>6. CASE slot # 0 /\ Step(p, disk, iget(c, i), bad(<<Put(i), UnlockPut(d)>>))
  <2>1. i \in Inums
    BY <1>1, <1>6, LookupIs, Zenon
  <2> HIDE DEF i
  <2> DEFINE s == <<Put(i), UnlockPut(d)>>
  <2>2. s \in Seq(Pending) /\ Len(s) = 2 /\ \A j : PutCount(s, j) = One(i, j) + One(d, j)
    BY <1>1, <2>1, PutIs, TwoPuts
  <2> DEFINE q == bad(s)
  <2>3. Step(p, disk, iget(c, i), q)
    BY <1>6, Zenon
  <2> HIDE DEF s
  <2>4. Len(s) <= 2
    BY <2>2
  <2>a. OnlyIp(q, x, s)
    BY <1>2, <2>2, BadIs, Zenon
  <2> HIDE DEF q
  <2>5. /\ q \in Recs /\ Shape(q) /\ q.pc # "end_op" /\ q.puts = s
        /\ \A j \in Inums : Sum(q, j) = One(x, j)
    BY <1>2, <2>4, <2>a, HoldingIp, Zenon
  <2>6. iget(c, i) \in Cores /\ \A j \in Inums : iget(c, i)[j].ref = core[j].ref + One(i, j)
    BY <1>4, <2>1, GotAfter, Zenon
  <2>7. ASSUME NEW j \in Inums PROVE PutCount(q.puts, j) + Sum(q, j) = Sum(proc[p], j) + One(i, j)
    <3>1. One(i, j) \in Int /\ One(d, j) \in Int /\ One(x, j) \in Int
      BY Ints, Zenon
    <3>2. PutCount(q.puts, j) = One(i, j) + One(d, j) /\ Sum(q, j) = One(x, j)
          /\ Sum(proc[p], j) = One(d, j) + One(x, j)
      BY <1>3, <2>2, <2>5, Zenon
    <3>3. QED
      BY <3>1, <3>2
  <2>8. QED
    BY <1>0, <1>1, <1>a, <2>1, <2>3, <2>5, <2>6, <2>7, GoesOnWith, Zenon
<1>7. CASE Step(p, disk, iunlock(c, d), bad(<<Put(d)>>))
  <2> DEFINE s == <<Put(d)>>
  <2>2. s \in Seq(Pending) /\ Len(s) = 1 /\ \A j : PutCount(s, j) = One(d, j)
    BY <1>1, OnePut, Zenon
  <2> DEFINE q == bad(s)
  <2>3. Step(p, disk, iunlock(c, d), q)
    BY <1>7, Zenon
  <2> HIDE DEF s
  <2>4. Len(s) <= 2
    BY <2>2
  <2>a. OnlyIp(q, x, s)
    BY <1>2, <2>2, BadIs, Zenon
  <2> HIDE DEF q
  <2>5. /\ q \in Recs /\ Shape(q) /\ q.pc # "end_op" /\ q.puts = s
        /\ \A j \in Inums : Sum(q, j) = One(x, j)
    BY <1>2, <2>4, <2>a, HoldingIp, Zenon
  <2>6. \A j \in Inums : PutCount(q.puts, j) + Sum(q, j) = Sum(proc[p], j)
    BY <1>3, <2>2, <2>5, Zenon
  <2>7. QED
    BY <1>0, <1>1, <1>4, <1>a, <2>3, <2>5, <2>6, GoesOn, Zenon
<1>8. CASE Step(p, e, iunlock(c, d), Finish(<<Put(d), Put(x)>>))
  <2>1. proc[p].name \in Str
    BY <1>1, Zenon DEF Recs
  <2>2. e \in Nodes
    <3>1. dirlink(d, proc[p].name, x) \in Seq(Entries)
      BY <1>1, <1>2, <2>1, DirlinkIs, Zenon
    <3>2. QED
      BY <1>1, <3>1, NewEnts, Zenon
  <2>3. Put(d) \in Pending /\ Put(x) \in Pending /\ Put(d).inum = d /\ Put(x).inum = x
    BY <1>1, <1>2, PutIs, Zenon
  <2>4. \A j \in Inums : Sum(proc[p], j) = One(Put(d).inum, j) + One(Put(x).inum, j)
    BY <1>3, <2>3, Zenon
  <2> HIDE DEF e
  <2>5. QED
    BY <1>0, <1>4, <1>8, <1>a, <2>2, <2>3, <2>4, EndsWithTwo, Zenon
<1>9. QED
  BY <1>5, <1>6, <1>7, <1>8, Zenon

\* Where a handler has set ip, and dp with it or not.
LEMMA OnIp ==
  ASSUME IInv, NEW p \in Procs,
         NEW l \in {"link_bad", "unlink_ip", "unlink_dec", "create_old", "create_new", "created"},
         Ready(p, l)
  PROVE  /\ proc[p] \in Recs /\ proc[p].w = 0 /\ proc[p].ip \in Inums /\ proc[p].puts = <<>>
         /\ proc[p].at = "none"
         /\ l \in {"unlink_ip", "create_new"} => proc[p].dp \in Inums
         /\ l \notin {"unlink_ip", "create_new"} => proc[p].dp = 0
<1>1. proc[p] \in Recs /\ Shape(proc[p]) /\ proc[p].pc = l /\ proc[p].puts = <<>>
  BY Actor, Zenon DEF Ready
<1>2. proc[p].at = "none" /\ proc[p].w = 0 /\ proc[p].ip # 0
  BY <1>1, Zenon DEF Shape
<1>3. /\ l \in {"unlink_ip", "create_new"} => proc[p].dp # 0
      /\ l \notin {"unlink_ip", "create_new"} => proc[p].dp = 0
  BY <1>1, Zenon DEF Shape
<1>4. proc[p].ip \in Inum0 /\ proc[p].dp \in Inum0
  BY <1>1, Zenon DEF Recs
<1>5. QED
  BY <1>1, <1>2, <1>3, <1>4, Some, Zenon

LEMMA StepLinkBad ==
  ASSUME IInv, NEW p \in Procs, link_bad(p)
  PROVE  IInv'
<1> DEFINE i == proc[p].ip
           c == nlink(ilock(core, i, p), i, -1)
<1>0. Ready(p, "link_bad") /\ ofile' = ofile /\ Step(p, iupdate(disk, c, i), iunlock(c, i), Finish(<<Put(i)>>))
  BY Zenon DEF link_bad, Calm
<1>1. i \in Inums /\ proc[p].w = 0 /\ proc[p].dp = 0
  BY <1>0, OnIp, Zenon
<1>2. \A j \in Inums : Sum(proc[p], j) = One(i, j)
  BY <1>1, SumOne, Zenon
<1>3. -1 \in Int /\ "link_bad" # "end_op"
  OBVIOUS
<1>4. iunlock(c, i) \in Cores /\ SameRefs(core, iunlock(c, i)) /\ iupdate(disk, c, i) \in Nodes
  BY <1>1, <1>3, LinkedUp, Zenon
<1> HIDE DEF c
<1>5. QED
  BY <1>0, <1>1, <1>2, <1>3, <1>4, EndsWithOne, Zenon

-----------------------------------------------------------------------------
(* sys_unlink() *)

LEMMA StepUnlinkDp ==
  ASSUME IInv, NEW p \in Procs, unlink_dp(p)
  PROVE  IInv'
<1> DEFINE d == proc[p].w
           c == ilock(core, d, p)
           slot == dirlookup(d, proc[p].name)
           i == disk[d].ents[slot].inum
           q == [proc[p] EXCEPT !.pc = "unlink_ip", !.w = 0, !.dp = d, !.ip = i]
<1>0. Ready(p, "found") /\ proc[p].op = "unlink" /\ ofile' = ofile
  BY Zenon DEF unlink_dp, Found, Calm
<1>1. /\ proc[p] \in Recs /\ d \in Inums /\ proc[p].dp = 0 /\ proc[p].ip = 0 /\ disk \in Nodes
  BY <1>0, OnPath, Actor, Zenon
<1>2. proc[p].puts = <<>> /\ proc[p].at = "none"
  BY <1>0, Mine, Zenon
<1>3. \A j \in Inums : Sum(proc[p], j) = One(d, j)
  BY <1>1, SumOne, Zenon
<1>4. /\ c \in Cores /\ SameRefs(core, c)
      /\ iunlock(c, d) \in Cores /\ SameRefs(core, iunlock(c, d))
  BY <1>1, Locked, Zenon
<1>5. \/ Step(p, disk, iunlock(c, d), Finish(<<Put(d)>>))
      \/ slot # 0 /\ Step(p, disk, iget(c, i), q)
  BY Zenon DEF unlink_dp
<1>a. "found" # "end_op"
  OBVIOUS
<1> HIDE DEF c
<1>6. CASE Step(p, disk, iunlock(c, d), Finish(<<Put(d)>>))
  BY <1>0, <1>1, <1>3, <1>4, <1>6, <1>a, EndsWithOne, Zenon
<1>7. CASE slot # 0 /\ Step(p, disk, iget(c, i), q)
  <2>1. i \in Inums
    BY <1>1, <1>7, LookupIs, Zenon
  <2> HIDE DEF i
  <2>2. d \in Inum0 /\ d # 0 /\ i \in Inum0 /\ i # 0 /\ 0 \in Inum0
    BY <1>1, <2>1, Zero, Zenon
  <2>3. q \in Recs
    <3>1. "unlink_ip" \in Pcs
      BY Zenon DEF Pcs
    <3>2. QED
      BY <1>1, <2>2, <3>1, Zenon DEF Recs
  <2>4. q.pc = "unlink_ip" /\ q.w = 0 /\ q.dp = d /\ q.ip = i /\ q.puts = <<>> /\ q.at = "none"
    BY <1>1, <1>2, Zenon DEF Recs
  <2>5. Step(p, disk, iget(c, i), q)
    BY <1>7, Zenon
  <2> HIDE DEF q, d
  <2>6. Shape(q)
    BY <2>2, <2>4, NoPuts DEF Shape
  <2>7. iget(c, i) \in Cores /\ \A j \in Inums : iget(c, i)[j].ref = core[j].ref + One(i, j)
    BY <1>4, <2>1, GotAfter, Zenon
  <2>8. ASSUME NEW j \in Inums PROVE PutCount(q.puts, j) + Sum(q, j) = Sum(proc[p], j) + One(i, j)
    <3>1. One(i, j) \in Int /\ One(d, j) \in Int /\ PutCount(<<>>, j) = 0
      BY Ints, NoPuts, Zenon
    <3>2. Sum(q, j) = One(i, j) + One(d, j)
      BY <2>4, SumTwo
    <3>3. Sum(proc[p], j) = One(d, j)
      BY <1>3, Zenon
    <3>4. QED
      BY <2>4, <3>1, <3>2, <3>3
  <2>9. q.pc # "end_op"
    BY <2>4, Zenon
  <2>10. QED
    BY <1>0, <1>1, <1>a, <2>1, <2>3, <2>5, <2>6, <2>7, <2>8, <2>9, GoesOnWith, Zenon
<1>8. QED
  BY <1>5, <1>6, <1>7, Zenon

LEMMA StepUnlinkIp ==
  ASSUME IInv, NEW p \in Procs, unlink_ip(p)
  PROVE  IInv'
<1> DEFINE i == proc[p].ip
           d == proc[p].dp
           c == ilock(core, i, p)
           n == IF c[i].type = "dir" THEN -1 ELSE 0
           c1 == nlink(c, d, n)
           slot == dirlookup(d, proc[p].name)
           e == [disk EXCEPT ![d].ents[slot] = Entry("none", 0)]
           q == [Idle EXCEPT !.pc = "unlink_dec", !.ip = i, !.puts = <<Put(d)>>]
<1>0. Ready(p, "unlink_ip") /\ ofile' = ofile
  BY Zenon DEF unlink_ip, Calm
<1>1. i \in Inums /\ d \in Inums /\ proc[p].w = 0 /\ disk \in Nodes
  BY <1>0, OnIp, Actor, Zenon
<1>2. \A j \in Inums : Sum(proc[p], j) = One(i, j) + One(d, j)
  BY <1>1, SumTwo
<1>3. /\ c \in Cores /\ SameRefs(core, c)
      /\ iunlock(c, i) \in Cores /\ SameRefs(core, iunlock(c, i))
  BY <1>1, Locked, Zenon
<1>4. \/ Step(p, disk, iunlock(c, i), Finish(<<Put(i), UnlockPut(d)>>))
      \/ Step(p, iupdate(e, c1, d), iunlock(c1, d), q)
  BY Zenon DEF unlink_ip
<1>a. "unlink_ip" # "end_op"
  OBVIOUS
<1>b. n \in Int
  OBVIOUS
<1> HIDE DEF c, n
<1>5. CASE Step(p, disk, iunlock(c, i), Finish(<<Put(i), UnlockPut(d)>>))
  <2>1. Put(i) \in Pending /\ UnlockPut(d) \in Pending /\ Put(i).inum = i /\ UnlockPut(d).inum = d
    BY <1>1, PutIs, Zenon
  <2>2. \A j \in Inums : Sum(proc[p], j) = One(Put(i).inum, j) + One(UnlockPut(d).inum, j)
    BY <1>2, <2>1, Zenon
  <2>3. QED
    BY <1>0, <1>1, <1>3, <1>5, <1>a, <2>1, <2>2, EndsWithTwo, Zenon
<1>6. CASE Step(p, iupdate(e, c1, d), iunlock(c1, d), q)
  <2>1. e \in Nodes
    BY <1>1, ClearIs, Zenon
  <2> HIDE DEF e
  <2>2. c1 \in Cores /\ SameRefs(c, c1)
    BY <1>1, <1>3, <1>b, NlinkIs, Zenon
  <2> HIDE DEF c1
  <2>3. iunlock(c1, d) \in Cores /\ SameRefs(c1, iunlock(c1, d))
    BY <1>1, <2>2, IunlockIs, Zenon
  <2>4. SameRefs(core, iunlock(c1, d))
    BY <1>3, <2>2, <2>3, SameSame, Zenon
  <2>5. iupdate(e, c1, d) \in Nodes
    BY <1>1, <2>1, <2>2, IupdateIs, Zenon
  <2> DEFINE s == <<Put(d)>>
  <2>6. s \in Seq(Pending) /\ Len(s) = 1 /\ \A j : PutCount(s, j) = One(d, j)
    BY <1>1, OnePut, Zenon
  <2> HIDE DEF i
  <2>7. OnlyIp(q, i, s)
    BY <1>1, <2>6, DecIs, Zenon
  <2> HIDE DEF s, q
  <2>8. Len(s) <= 2
    BY <2>6
  <2>9. /\ q \in Recs /\ Shape(q) /\ q.pc # "end_op" /\ q.puts = s
        /\ \A j \in Inums : Sum(q, j) = One(i, j)
    BY <1>1, <2>7, <2>8, HoldingIp, Zenon
  <2>10. ASSUME NEW j \in Inums PROVE PutCount(q.puts, j) + Sum(q, j) = Sum(proc[p], j)
    <3>1. One(i, j) \in Int /\ One(d, j) \in Int
      BY Ints, Zenon
    <3>2. PutCount(q.puts, j) = One(d, j) /\ Sum(q, j) = One(i, j) /\ Sum(proc[p], j) = One(i, j) + One(d, j)
      BY <1>2, <2>6, <2>9, Zenon
    <3>3. QED
      BY <3>1, <3>2
  <2>11. QED
    BY <1>0, <1>6, <1>a, <2>3, <2>4, <2>5, <2>9, <2>10, GoesOn, Zenon
<1>7. QED
  BY <1>4, <1>5, <1>6, Zenon

LEMMA StepUnlinkDec ==
  ASSUME IInv, NEW p \in Procs, unlink_dec(p)
  PROVE  IInv'
<1> DEFINE i == proc[p].ip
           c == nlink(core, i, -1)
<1>0. Ready(p, "unlink_dec") /\ ofile' = ofile /\ Step(p, iupdate(disk, c, i), iunlock(c, i), Finish(<<Put(i)>>))
  BY Zenon DEF unlink_dec, Calm
<1>1. i \in Inums /\ proc[p].w = 0 /\ proc[p].dp = 0 /\ disk \in Nodes /\ core \in Cores
  BY <1>0, OnIp, Actor, Zenon
<1>2. \A j \in Inums : Sum(proc[p], j) = One(i, j)
  BY <1>1, SumOne, Zenon
<1>3. -1 \in Int /\ "unlink_dec" # "end_op"
  OBVIOUS
<1>4. c \in Cores /\ SameRefs(core, c)
  BY <1>1, <1>3, NlinkIs, Zenon
<1> HIDE DEF c
<1>5. iunlock(c, i) \in Cores /\ SameRefs(c, iunlock(c, i)) /\ iupdate(disk, c, i) \in Nodes
  BY <1>1, <1>4, IunlockIs, IupdateIs, Zenon
<1>6. SameRefs(core, iunlock(c, i))
  BY <1>4, <1>5, SameSame, Zenon
<1>7. QED
  BY <1>0, <1>1, <1>2, <1>3, <1>5, <1>6, EndsWithOne, Zenon

-----------------------------------------------------------------------------
(* create() *)

LEMMA StepCreateDp ==
  ASSUME IInv, NEW p \in Procs, create_dp(p)
  PROVE  IInv'
<1> DEFINE d == proc[p].w
           c == ilock(core, d, p)
           slot == dirlookup(d, proc[p].name)
           i == disk[d].ents[slot].inum
           new == ialloc(disk)
           r == [proc[p] EXCEPT !.w = 0]
           old == [r EXCEPT !.pc = "create_old", !.name = "none", !.ip = i, !.puts = <<Put(d)>>]
           q == [r EXCEPT !.pc = "create_new", !.dp = d, !.ip = new]
           e == [disk EXCEPT ![new] = [Free EXCEPT !.type = r.type]]
<1>0. Ready(p, "found") /\ proc[p].op = "create" /\ ofile' = ofile
  BY Zenon DEF create_dp, Found, Calm
<1>1. /\ proc[p] \in Recs /\ d \in Inums /\ proc[p].dp = 0 /\ proc[p].ip = 0 /\ disk \in Nodes
  BY <1>0, OnPath, Actor, Zenon
<1>2. proc[p].puts = <<>> /\ proc[p].at = "none"
  BY <1>0, Mine, Zenon
<1>3. \A j \in Inums : Sum(proc[p], j) = One(d, j)
  BY <1>1, SumOne, Zenon
<1>4. /\ c \in Cores /\ SameRefs(core, c)
      /\ iunlock(c, d) \in Cores /\ SameRefs(core, iunlock(c, d))
  BY <1>1, Locked, Zenon
<1>5. \/ slot # 0 /\ Step(p, disk, iget(iunlock(c, d), i), old)
      \/ Step(p, disk, iunlock(c, d), Finish(<<Put(d)>>))
      \/ new # 0 /\ Step(p, e, iget(c, new), q)
  BY Zenon DEF create_dp
<1>a. "found" # "end_op"
  OBVIOUS
<1>b. d \in Inum0 /\ d # 0 /\ 0 \in Inum0
  BY <1>1, Zero, Zenon
<1>c. r \in Recs
  BY <1>1, <1>b, Zenon DEF Recs
<1>d. /\ r.type = proc[p].type /\ r.type \in Str /\ r.puts = <<>> /\ r.at = "none" /\ r.w = 0
      /\ r.dp = 0 /\ r.ip = 0
  BY <1>1, <1>2, Zenon DEF Recs
<1> HIDE DEF c, r
<1>6. CASE slot # 0 /\ Step(p, disk, iget(iunlock(c, d), i), old)
  <2>1. i \in Inums
    BY <1>1, <1>6, LookupIs, Zenon
  <2> HIDE DEF i
  <2> DEFINE s == <<Put(d)>>
  <2>2. s \in Seq(Pending) /\ Len(s) = 1 /\ \A j : PutCount(s, j) = One(d, j)
    BY <1>1, OnePut, Zenon
  <2>3. i \in Inum0 /\ i # 0
    BY <2>1, Zero, Zenon
  <2>4. old = [r EXCEPT !.pc = "create_old", !.name = "none", !.ip = i, !.puts = s]
    OBVIOUS
  <2>5. Step(p, disk, iget(iunlock(c, d), i), old)
    BY <1>6, Zenon
  <2> HIDE DEF s, old
  <2>6. old \in Recs
    <3>1. "create_old" \in Pcs /\ "none" \in Str
      BY Literals, Zenon DEF Pcs
    <3>2. QED
      BY <1>c, <2>2, <2>3, <2>4, <3>1, Zenon DEF Recs
  <2>7. old.pc = "create_old" /\ old.w = 0 /\ old.dp = 0 /\ old.ip = i /\ old.puts = s /\ old.at = "none"
    BY <1>c, <1>d, <2>4, Zenon DEF Recs
  <2>8. Shape(old)
    <3>1. Len(old.puts) <= 2
      BY <2>2, <2>7, Lengths, Zenon
    <3>2. QED
      BY <2>3, <2>7, <3>1, Zenon DEF Shape
  <2>9. /\ iget(iunlock(c, d), i) \in Cores
        /\ \A j \in Inums : iget(iunlock(c, d), i)[j].ref = core[j].ref + One(i, j)
    BY <1>4, <2>1, GotAfter, Zenon
  <2>10. \A j \in Inums : PutCount(old.puts, j) + Sum(old, j) = Sum(proc[p], j) + One(i, j)
    <3>1. \A j \in Inums : Sum(old, j) = One(i, j)
      BY <2>7, SumOne, Zenon
    <3>2. QED
      BY <1>3, <2>2, <2>7, <3>1, Zenon
  <2>11. old.pc # "end_op"
    BY <2>7, Zenon
  <2>12. QED
    BY <1>0, <1>1, <1>a, <2>1, <2>5, <2>6, <2>8, <2>9, <2>10, <2>11, GoesOnWith, Zenon
<1>7. CASE Step(p, disk, iunlock(c, d), Finish(<<Put(d)>>))
  BY <1>0, <1>1, <1>3, <1>4, <1>7, <1>a, EndsWithOne, Zenon
<1>8. CASE new # 0 /\ Step(p, e, iget(c, new), q)
  <2>1. new \in Inums
    BY <1>1, <1>8, IallocIs, Zenon
  <2>2. e \in Nodes
    BY <1>1, <1>d, FreeNode, Zenon
  <2> HIDE DEF new
  <2>3. new \in Inum0 /\ new # 0
    BY <2>1, Zero, Zenon
  <2>4. q \in Recs
    <3>1. "create_new" \in Pcs
      BY Zenon DEF Pcs
    <3>2. QED
      BY <1>b, <1>c, <2>3, <3>1, Zenon DEF Recs
  <2>5. q.pc = "create_new" /\ q.w = 0 /\ q.dp = d /\ q.ip = new /\ q.puts = <<>> /\ q.at = "none"
    BY <1>c, <1>d, Zenon DEF Recs
  <2>6. Step(p, e, iget(c, new), q)
    BY <1>8, Zenon
  <2> HIDE DEF q, e, d
  <2>7. Shape(q)
    BY <1>b, <2>3, <2>5, NoPuts DEF Shape
  <2>8. iget(c, new) \in Cores /\ \A j \in Inums : iget(c, new)[j].ref = core[j].ref + One(new, j)
    BY <1>4, <2>1, GotAfter, Zenon
  <2>9. ASSUME NEW j \in Inums PROVE PutCount(q.puts, j) + Sum(q, j) = Sum(proc[p], j) + One(new, j)
    <3>1. One(new, j) \in Int /\ One(d, j) \in Int /\ PutCount(<<>>, j) = 0
      BY Ints, NoPuts, Zenon
    <3>2. Sum(q, j) = One(new, j) + One(d, j)
      BY <2>5, SumTwo
    <3>3. Sum(proc[p], j) = One(d, j)
      BY <1>3, Zenon
    <3>4. QED
      BY <2>5, <3>1, <3>2, <3>3
  <2>10. q.pc # "end_op"
    BY <2>5, Zenon
  <2>11. QED
    BY <1>0, <1>a, <2>1, <2>2, <2>4, <2>6, <2>7, <2>8, <2>9, <2>10, GoesOnWith, Zenon
<1>9. QED
  BY <1>5, <1>6, <1>7, <1>8, Zenon

LEMMA StepCreateOld ==
  ASSUME IInv, NEW p \in Procs, create_old(p)
  PROVE  IInv'
<1> DEFINE i == proc[p].ip
           c == ilock(core, i, p)
           q == [proc[p] EXCEPT !.pc = "created"]
<1>0. Ready(p, "create_old") /\ ofile' = ofile
  BY Zenon DEF create_old, Calm
<1>1. /\ i \in Inums /\ proc[p].w = 0 /\ proc[p].dp = 0 /\ disk \in Nodes /\ proc[p] \in Recs
      /\ proc[p].puts = <<>> /\ proc[p].at = "none"
  BY <1>0, OnIp, Actor, Zenon
<1>2. \A j \in Inums : Sum(proc[p], j) = One(i, j)
  BY <1>1, SumOne, Zenon
<1>3. /\ c \in Cores /\ SameRefs(core, c)
      /\ iunlock(c, i) \in Cores /\ SameRefs(core, iunlock(c, i))
  BY <1>1, Locked, Zenon
<1>4. Step(p, disk, c, q) \/ Step(p, disk, iunlock(c, i), Finish(<<Put(i)>>))
  BY Zenon DEF create_old
<1>a. "create_old" # "end_op"
  OBVIOUS
<1> HIDE DEF c
<1>5. CASE Step(p, disk, c, q)
  <2>1. q \in Recs
    BY <1>1, Zenon DEF Recs, Pcs
  <2>2. q.pc = "created" /\ q.w = 0 /\ q.dp = 0 /\ q.ip = i /\ q.puts = <<>> /\ q.at = "none"
    BY <1>1, Zenon DEF Recs
  <2>3. i # 0
    BY <1>1, Zero, Zenon
  <2> HIDE DEF q
  <2>4. Shape(q)
    BY <2>2, <2>3, NoPuts DEF Shape
  <2>5. ASSUME NEW j \in Inums PROVE PutCount(q.puts, j) + Sum(q, j) = Sum(proc[p], j)
    <3>1. One(i, j) \in Int /\ PutCount(<<>>, j) = 0
      BY Ints, NoPuts, Zenon
    <3>2. Sum(q, j) = One(i, j)
      BY <2>2, SumOne, Zenon
    <3>3. Sum(proc[p], j) = One(i, j)
      BY <1>2, Zenon
    <3>4. QED
      BY <2>2, <3>1, <3>2, <3>3
  <2>6. q.pc # "end_op"
    BY <2>2, Zenon
  <2>7. QED
    BY <1>0, <1>1, <1>3, <1>5, <1>a, <2>1, <2>4, <2>5, <2>6, GoesOn, Zenon
<1>6. CASE Step(p, disk, iunlock(c, i), Finish(<<Put(i)>>))
  BY <1>0, <1>1, <1>2, <1>3, <1>6, <1>a, EndsWithOne, Zenon
<1>7. QED
  BY <1>4, <1>5, <1>6, Zenon

LEMMA EntryOf ==
  ASSUME NEW name \in Str, NEW i \in Inum0
  PROVE  Entry(name, i) \in Entries
BY Zenon DEF Entry, Entries

LEMMA StepCreateNew ==
  ASSUME IInv, NEW p \in Procs, create_new(p)
  PROVE  IInv'
<1> DEFINE i == proc[p].ip
           d == proc[p].dp
           isdir == proc[p].type = "dir"
           c == nlink(ilock(core, i, p), i, 1)
           bad == nlink(c, i, -1)
           dots == [disk EXCEPT ![i].ents = IF isdir THEN Dots(i, d) ELSE <<>>]
           n == IF isdir THEN 1 ELSE 0
           c1 == nlink(c, d, n)
           e == [dots EXCEPT ![d].ents = dirlink(d, proc[p].name, i)]
           q == [proc[p] EXCEPT !.pc = "created", !.name = "none", !.dp = 0, !.puts = <<Put(d)>>]
<1>0. Ready(p, "create_new") /\ ofile' = ofile
  BY Zenon DEF create_new
<1>1. /\ i \in Inums /\ proc[p].w = 0 /\ d \in Inums /\ disk \in Nodes /\ proc[p] \in Recs
      /\ proc[p].puts = <<>> /\ proc[p].at = "none"
  BY <1>0, OnIp, Actor, Zenon
<1>2. \A j \in Inums : Sum(proc[p], j) = One(i, j) + One(d, j)
  BY <1>1, SumTwo
<1>a. 1 \in Int /\ -1 \in Int /\ "create_new" # "end_op" /\ n \in Int
  OBVIOUS
<1>3. c \in Cores /\ SameRefs(core, c)
  BY <1>1, <1>a, LinkedUp, Zenon
<1>4. \/ Step(p, iupdate(iupdate(e, c, i), c1, d), iunlock(c1, d), q)
      \/ Step(p, iupdate(disk, bad, i), iunlock(bad, i), Finish(<<Put(i), UnlockPut(d)>>))
      \/ Step(p, iupdate(dots, bad, i), iunlock(bad, i), Finish(<<Put(i), UnlockPut(d)>>))
  BY Zenon DEF create_new
<1> HIDE DEF c
<1>5. bad \in Cores /\ SameRefs(c, bad)
  BY <1>1, <1>3, <1>a, NlinkIs, Zenon
<1>6. c1 \in Cores /\ SameRefs(c, c1)
  BY <1>1, <1>3, <1>a, NlinkIs, Zenon
<1> HIDE DEF bad, n, c1
<1>7. iunlock(bad, i) \in Cores /\ SameRefs(core, iunlock(bad, i))
  <2>1. iunlock(bad, i) \in Cores /\ SameRefs(bad, iunlock(bad, i))
    BY <1>1, <1>5, IunlockIs, Zenon
  <2>2. QED
    BY <1>3, <1>5, <2>1, SameSame, Zenon
<1>8. iunlock(c1, d) \in Cores /\ SameRefs(core, iunlock(c1, d))
  <2>1. iunlock(c1, d) \in Cores /\ SameRefs(c1, iunlock(c1, d))
    BY <1>1, <1>6, IunlockIs, Zenon
  <2>2. QED
    BY <1>3, <1>6, <2>1, SameSame, Zenon
<1>9. dots \in Nodes
  <2> DEFINE s == IF isdir THEN Dots(i, d) ELSE <<>>
  <2>1. Entry(".", i) \in Entries /\ Entry("..", d) \in Entries
    <3>1. "." \in Str /\ ".." \in Str
      BY Literals, Zenon
    <3>2. i \in Inum0 /\ d \in Inum0
      BY <1>1, Zero, Zenon
    <3>3. QED
      BY <3>1, <3>2, EntryOf, Zenon
  <2>2. Dots(i, d) \in Seq(Entries)
    BY <2>1 DEF Dots
  <2>3. s \in Seq(Entries)
    BY <2>2
  <2>4. dots = [disk EXCEPT ![i].ents = s]
    OBVIOUS
  <2> HIDE DEF s, dots
  <2>5. QED
    BY <1>1, <2>3, <2>4, NewEnts, Zenon
<1>10. iupdate(disk, bad, i) \in Nodes /\ iupdate(dots, bad, i) \in Nodes
  BY <1>1, <1>5, <1>9, IupdateIs, Zenon
<1> HIDE DEF dots
<1>11. iupdate(iupdate(e, c, i), c1, d) \in Nodes
  <2>1. proc[p].name \in Str
    BY <1>1, Zenon DEF Recs
  <2>2. dirlink(d, proc[p].name, i) \in Seq(Entries)
    BY <1>1, <2>1, DirlinkIs, Zenon
  <2>3. e \in Nodes
    BY <1>1, <1>9, <2>2, NewEnts, Zenon
  <2> HIDE DEF e
  <2>4. QED
    BY <1>1, <1>3, <1>6, <2>3, IupdateIs, Zenon
<1>b. Put(i) \in Pending /\ UnlockPut(d) \in Pending /\ Put(i).inum = i /\ UnlockPut(d).inum = d
  BY <1>1, PutIs, Zenon
<1>c. \A j \in Inums : Sum(proc[p], j) = One(Put(i).inum, j) + One(UnlockPut(d).inum, j)
  BY <1>2, <1>b, Zenon
<1>12. CASE Step(p, iupdate(iupdate(e, c, i), c1, d), iunlock(c1, d), q)
  <2> DEFINE s == <<Put(d)>>
  <2>2. s \in Seq(Pending) /\ Len(s) = 1 /\ \A j : PutCount(s, j) = One(d, j)
    BY <1>1, OnePut, Zenon
  <2>3. q = [proc[p] EXCEPT !.pc = "created", !.name = "none", !.dp = 0, !.puts = s]
    OBVIOUS
  <2> HIDE DEF q, s
  <2>4. i # 0 /\ 0 \in Inum0
    BY <1>1, Zero, Zenon
  <2>5. q \in Recs
    <3>1. "created" \in Pcs /\ "none" \in Str
      BY Literals, Zenon DEF Pcs
    <3>2. QED
      BY <1>1, <2>2, <2>3, <2>4, <3>1, Zenon DEF Recs
  <2>6. q.pc = "created" /\ q.w = 0 /\ q.dp = 0 /\ q.ip = i /\ q.puts = s /\ q.at = "none"
    BY <1>1, <2>3, Zenon DEF Recs
  <2>7. Shape(q)
    BY <2>2, <2>4, <2>6 DEF Shape
  <2>8. ASSUME NEW j \in Inums PROVE PutCount(q.puts, j) + Sum(q, j) = Sum(proc[p], j)
    <3>1. One(i, j) \in Int /\ One(d, j) \in Int
      BY Ints, Zenon
    <3>2. Sum(q, j) = One(i, j)
      BY <2>6, SumOne, Zenon
    <3>3. PutCount(q.puts, j) = One(d, j) /\ Sum(proc[p], j) = One(i, j) + One(d, j)
      BY <1>2, <2>2, <2>6, Zenon
    <3>4. QED
      BY <3>1, <3>2, <3>3
  <2>9. q.pc # "end_op"
    BY <2>6, Zenon
  <2> HIDE DEF e
  <2>10. QED
    BY <1>0, <1>8, <1>11, <1>12, <1>a, <2>5, <2>7, <2>8, <2>9, GoesOn, Zenon
<1>13. CASE Step(p, iupdate(disk, bad, i), iunlock(bad, i), Finish(<<Put(i), UnlockPut(d)>>))
  BY <1>0, <1>7, <1>10, <1>13, <1>a, <1>b, <1>c, EndsWithTwo, Zenon
<1>14. CASE Step(p, iupdate(dots, bad, i), iunlock(bad, i), Finish(<<Put(i), UnlockPut(d)>>))
  BY <1>0, <1>7, <1>10, <1>14, <1>a, <1>b, <1>c, EndsWithTwo, Zenon
<1>15. QED
  BY <1>4, <1>12, <1>13, <1>14, Zenon

-----------------------------------------------------------------------------
(* sys_open(), sys_chdir(), and starting up *)

\* The file that sys_open() makes takes over the reference.
LEMMA OpenedIs ==
  ASSUME IInv, NEW p \in Procs, NEW l, Ready(p, l), l # "end_op", NEW i \in Inums,
         \A j \in Inums : Sum(proc[p], j) = One(i, j),
         NEW c \in Cores, SameRefs(core, c), Opened(p, c, i)
  PROVE  IInv'
<1>1. iunlock(c, i) \in Cores /\ SameRefs(core, iunlock(c, i))
  <2>1. iunlock(c, i) \in Cores /\ SameRefs(c, iunlock(c, i))
    BY IunlockIs, Zenon
  <2>2. QED
    BY <2>1, SameSame, Zenon
<1>2. /\ disk \in Nodes /\ committed \in Nodes /\ core \in Cores /\ cwd[p] \in Inums
      /\ cwd \in [Procs -> Inums] /\ i \in Inum0
  BY Actor, Zero, Zenon
<1>3. CASE /\ ofile[p] = 0 /\ Step(p, disk, iunlock(c, i), Finish(<<>>))
           /\ ofile' = [ofile EXCEPT ![p] = i]
  <2>1. /\ proc' = [proc EXCEPT ![p] = Finish(<<>>)] /\ disk' = disk /\ committed' = committed
        /\ core' = iunlock(c, i) /\ calls' = calls /\ cwd' = cwd
    BY <1>3, Zenon DEF Step
  <2>2. cwd' = [cwd EXCEPT ![p] = cwd[p]]
    BY <1>2, <2>1, Zenon
  <2>3. <<>> \in Seq(Pending) /\ Len(<<>>) <= 2
    OBVIOUS
  <2>4. /\ Finish(<<>>) \in Recs /\ Shape(Finish(<<>>))
        /\ \A b, o : \A j \in Inums : HoldsOf(Finish(<<>>), b, o, j) = PutCount(<<>>, j) + One(b, j) + One(o, j)
    BY <2>3, FinishIs, Zenon
  <2>5. ASSUME NEW j \in Inums
        PROVE  HoldsOf(Finish(<<>>), cwd[p], i, j) = HoldsOf(proc[p], cwd[p], ofile[p], j)
    <3>1. HoldsOf(Finish(<<>>), cwd[p], i, j) = PutCount(<<>>, j) + One(cwd[p], j) + One(i, j)
      BY <2>4, Zenon
    <3>2. HoldsOf(proc[p], cwd[p], ofile[p], j) = One(i, j) + One(cwd[p], j) + One(0, j)
      BY <1>3, Mine
    <3>3. PutCount(<<>>, j) = 0 /\ One(0, j) = 0 /\ One(i, j) \in Int /\ One(cwd[p], j) \in Int
      BY NoPuts, OneNone, Ints, Zenon
    <3>4. QED
      BY <3>1, <3>2, <3>3
  <2>6. disk' \in Nodes /\ committed' \in Nodes /\ core' \in Cores /\ SameRefs(core, core')
    BY <1>1, <1>2, <2>1, Zenon
  <2>7. Hands(p, Finish(<<>>), cwd[p], i)
    BY <1>2, <1>3, <2>1, <2>2, <2>4, <2>5, <2>6, Zenon DEF Hands
  <2>8. QED
    BY <2>7, Handed, Zenon
<1>4. CASE Step(p, disk, iunlock(c, i), Finish(<<Put(i)>>)) /\ ofile' = ofile
  BY <1>1, <1>2, <1>4, EndsWithOne, Zenon
<1>5. QED
  BY <1>3, <1>4, Zenon DEF Opened

LEMMA StepCreated ==
  ASSUME IInv, NEW p \in Procs, created(p)
  PROVE  IInv'
<1> DEFINE i == proc[p].ip
<1>0. Ready(p, "created")
  BY Zenon DEF created
<1>1. i \in Inums /\ proc[p].w = 0 /\ proc[p].dp = 0 /\ disk \in Nodes /\ core \in Cores
  BY <1>0, OnIp, Actor, Zenon
<1>2. \A j \in Inums : Sum(proc[p], j) = One(i, j)
  BY <1>1, SumOne, Zenon
<1>3. SameRefs(core, core)
  BY Zenon DEF SameRefs
<1>4. iunlock(core, i) \in Cores /\ SameRefs(core, iunlock(core, i))
  BY <1>1, IunlockIs, Zenon
<1>a. "created" # "end_op"
  OBVIOUS
<1>5. Opened(p, core, i) \/ (Step(p, disk, iunlock(core, i), Finish(<<Put(i)>>)) /\ ofile' = ofile)
  BY Zenon DEF created
<1>6. CASE Opened(p, core, i)
  BY <1>0, <1>1, <1>2, <1>3, <1>6, <1>a, OpenedIs, Zenon
<1>7. CASE Step(p, disk, iunlock(core, i), Finish(<<Put(i)>>)) /\ ofile' = ofile
  BY <1>0, <1>1, <1>2, <1>4, <1>7, <1>a, EndsWithOne, Zenon
<1>8. QED
  BY <1>5, <1>6, <1>7, Zenon

LEMMA StepOpen ==
  ASSUME IInv, NEW p \in Procs, open_ip(p)
  PROVE  IInv'
<1> DEFINE i == proc[p].w
<1>0. Ready(p, "found") /\ proc[p].op = "open" /\ Opened(p, ilock(core, i, p), i)
  BY Zenon DEF open_ip, Found
<1>1. i \in Inums /\ proc[p].dp = 0 /\ proc[p].ip = 0
  BY <1>0, OnPath, Zenon
<1>2. \A j \in Inums : Sum(proc[p], j) = One(i, j)
  BY <1>1, SumOne, Zenon
<1>3. ilock(core, i, p) \in Cores /\ SameRefs(core, ilock(core, i, p))
  BY <1>1, Locked, Zenon
<1>4. "found" # "end_op"
  OBVIOUS
<1>5. QED
  BY <1>0, <1>1, <1>2, <1>3, <1>4, OpenedIs, Zenon

LEMMA StepChdir ==
  ASSUME IInv, NEW p \in Procs, chdir_ip(p)
  PROVE  IInv'
<1> DEFINE i == proc[p].w
           c == iunlock(ilock(core, i, p), i)
           q == [Finish(<<Put(cwd[p])>>) EXCEPT !.ip = i]
<1>0. Ready(p, "found") /\ proc[p].op = "chdir" /\ ofile' = ofile
  BY Zenon DEF chdir_ip, Found, Calm
<1>1. i \in Inums /\ i # 0 /\ i \in Inum0 /\ proc[p].dp = 0 /\ proc[p].ip = 0 /\ disk \in Nodes /\ cwd[p] \in Inums
  BY <1>0, OnPath, Actor, Zero, Zenon
<1>2. \A j \in Inums : Sum(proc[p], j) = One(i, j)
  BY <1>1, SumOne, Zenon
<1>3. c \in Cores /\ SameRefs(core, c)
  BY <1>1, Locked, Zenon
<1>a. "found" # "end_op"
  OBVIOUS
<1>4. Step(p, disk, c, q) \/ Step(p, disk, c, Finish(<<Put(i)>>))
  BY Zenon DEF chdir_ip
<1> HIDE DEF c
<1>5. CASE Step(p, disk, c, Finish(<<Put(i)>>))
  BY <1>0, <1>1, <1>2, <1>3, <1>5, <1>a, EndsWithOne, Zenon
<1>6. CASE Step(p, disk, c, q)
  <2> DEFINE s == <<Put(cwd[p])>>
             f == Finish(s)
  <2>1. s \in Seq(Pending) /\ Len(s) = 1 /\ \A j : PutCount(s, j) = One(cwd[p], j)
    BY <1>1, OnePut, Zenon
  <2> HIDE DEF s
  <2>2. f \in Recs
    <3>1. Len(s) <= 2
      BY <2>1
    <3>2. QED
      BY <2>1, <3>1, FinishIs, Zenon
  <2>3. f.pc = "end_op" /\ f.w = 0 /\ f.dp = 0 /\ f.puts = s /\ f.at = "none"
    BY Zenon DEF Finish, Idle
  <2>4. q = [f EXCEPT !.ip = i]
    BY Zenon DEF s
  <2> HIDE DEF f, q
  <2>5. q \in Recs
    <3>1. i \in Inum0
      BY <1>1, Zero, Zenon
    <3>2. QED
      BY <2>2, <2>4, <3>1, Zenon DEF Recs
  <2>6. q.pc = "end_op" /\ q.w = 0 /\ q.dp = 0 /\ q.puts = s /\ q.at = "none" /\ q.ip = i
    BY <2>2, <2>3, <2>4, Zenon DEF Recs
  <2>7. Shape(q)
    <3>1. Len(q.puts) <= 2
      BY <2>1, <2>6, Lengths, Zenon
    <3>2. QED
      BY <2>6, <3>1, Zenon DEF Shape
  <2>8. ASSUME NEW j \in Inums
        PROVE  HoldsOf(q, cwd[p], ofile[p], j) = HoldsOf(proc[p], cwd[p], ofile[p], j)
    <3>1. HoldsOf(q, cwd[p], ofile[p], j) =
            PutCount(s, j) + One(0, j) + One(i, j) + One(0, j) + 0 + One(ofile[p], j)
      BY <1>1, <2>6, Zenon DEF HoldsOf
    <3>2. HoldsOf(proc[p], cwd[p], ofile[p], j) = One(i, j) + One(cwd[p], j) + One(ofile[p], j)
      BY <1>0, <1>2, <1>a, Mine
    <3>3. /\ PutCount(s, j) = One(cwd[p], j) /\ One(0, j) = 0 /\ One(i, j) \in Int
          /\ One(cwd[p], j) \in Int /\ One(ofile[p], j) \in Int
      BY <2>1, OneNone, Ints, Zenon
    <3>4. QED
      BY <3>1, <3>2, <3>3
  <2>9. QED
    BY <1>0, <1>1, <1>3, <1>6, <2>5, <2>7, <2>8, Kept, Zenon
<1>7. QED
  BY <1>4, <1>5, <1>6, Zenon

LEMMA StepIreclaim ==
  ASSUME IInv, ireclaim
  PROVE  IInv'
<1>1. /\ calls' = calls /\ core' = core /\ proc' = proc /\ cwd' = cwd /\ ofile' = ofile
      /\ \/ disk' = [disk EXCEPT ![scan] = Free] /\ committed' = disk'
         \/ disk' = disk /\ committed' = committed
  BY Zenon DEF ireclaim, Calm
<1>2. disk \in Nodes /\ committed \in Nodes
  BY Zenon DEF IInv, Types
<1>3. [disk EXCEPT ![scan] = Free] \in Nodes
  BY <1>2, FreeNode, Zenon
<1>4. disk' \in Nodes /\ committed' \in Nodes
  BY <1>1, <1>2, <1>3, Zenon
<1>5. Types'
  BY <1>1, <1>4, Zenon DEF IInv, Types
<1>6. \A p \in Procs : Shape(proc[p])'
  BY <1>1, Zenon DEF IInv
<1>7. \A i \in Inums : Pointers(i)' = Pointers(i)
  BY <1>1 DEF Pointers, Holds
<1>8. \A i \in Inums : IsFiniteSet(Pointers(i)) /\ core[i].ref = Cardinality(Pointers(i))
  BY Zenon DEF IInv
<1>9. QED
  BY <1>1, <1>5, <1>6, <1>7, <1>8, Zenon DEF IInv

\* Every process is in the root, and nothing else is in use.
LEMMA BootedIs ==
  ASSUME NEW i \in Inums
  PROVE  /\ IsFiniteSet(Units([p \in Procs |-> One(ROOTINO, i)]))
         /\ Booted[i].ref = Cardinality(Units([p \in Procs |-> One(ROOTINO, i)]))
<1> DEFINE h == [p \in Procs |-> One(ROOTINO, i)]
<1>0. IsFiniteSet(Procs)
  BY InodeAssumption, Zenon
<1>1. Booted[i].ref = IF i = ROOTINO THEN Cardinality(Procs) ELSE 0
  BY Zenon DEF Booted, Absent
<1>2. CASE i # ROOTINO
  <2>1. \A p \in Procs : h[p] = 0
    BY <1>2, Zenon DEF One
  <2>2. \A p \in Procs : {p} \X (1 .. h[p]) = {}
    BY <2>1
  <2>3. Units(h) = {}
    BY <2>2, Zenon DEF Units
  <2>4. QED
    BY <1>1, <1>2, <2>3, FS_EmptySet, Zenon
<1>3. CASE i = ROOTINO
  <2>1. \A p \in Procs : h[p] = 1
    BY <1>3, Zenon DEF One
  <2>a. 1 .. 1 = {1}
    OBVIOUS
  <2>2. \A p \in Procs : {p} \X (1 .. h[p]) = {p} \X {1}
    BY <2>1, <2>a, Zenon
  <2> HIDE DEF h
  <2>3. Units(h) = Procs \X {1}
    <3>1. Units(h) = UNION {{p} \X {1} : p \in Procs}
      BY <2>2, Zenon DEF Units
    <3>2. QED
      BY <3>1
  <2>4. IsFiniteSet({1}) /\ Cardinality({1}) = 1
    BY FS_Singleton, Zenon
  <2>5. IsFiniteSet(Procs \X {1}) /\ Cardinality(Procs \X {1}) = Cardinality(Procs) * Cardinality({1})
    BY <1>0, <2>4, FS_Product, Zenon
  <2>6. Cardinality(Procs) \in Nat
    BY <1>0, FS_CardinalityType, Zenon
  <2>7. Cardinality(Procs) * 1 = Cardinality(Procs)
    BY <2>6
  <2>8. QED
    BY <1>1, <1>3, <2>3, <2>4, <2>5, <2>7, Zenon DEF h
<1>4. QED
  BY <1>2, <1>3, Zenon

AtBoot ==
  /\ disk \in Nodes /\ committed \in Nodes /\ \A c \in calls : c \in Calls
  /\ core = Booted /\ proc = InUser /\ cwd = RootDir /\ ofile = NoFile

LEMMA Started == AtBoot => IInv
<1> SUFFICES ASSUME AtBoot PROVE IInv
  OBVIOUS
<1>0. /\ disk \in Nodes /\ committed \in Nodes /\ \A c \in calls : c \in Calls
      /\ core = Booted /\ proc = InUser /\ cwd = RootDir /\ ofile = NoFile
  BY Zenon DEF AtBoot
<1> USE <1>0
<1>1. core \in Cores
  <2>1. IsFiniteSet(Procs)
    BY InodeAssumption, Zenon
  <2>2. Cardinality(Procs) \in Int /\ 0 \in Int
    BY <2>1, FS_CardinalityType
  <2>3. ASSUME NEW n \in Int PROVE [Absent EXCEPT !.ref = n] \in CoreRec
    <3>1. "free" \in Str /\ NoProc \in Procs \cup {NoProc} /\ FALSE \in BOOLEAN /\ 0 \in Int
      BY Literals
    <3>2. Absent \in CoreRec
      BY <3>1, Zenon DEF CoreRec, Absent
    <3>3. QED
      BY <3>2, Zenon DEF CoreRec
  <2>4. \A i \in Inums : (IF i = ROOTINO THEN Cardinality(Procs) ELSE 0) \in Int
    BY <2>2, Zenon
  <2>5. QED
    BY <2>3, <2>4, Zenon DEF Booted, Cores, CoreRec
<1>2. /\ proc \in [Procs -> Recs] /\ cwd \in [Procs -> Inums] /\ ofile \in [Procs -> Inum0]
  BY IdleIs, Zero, Zenon DEF InUser, RootDir, NoFile
<1>3. \A p \in Procs : proc[p] = Idle /\ cwd[p] = ROOTINO /\ ofile[p] = 0
  BY Zenon DEF InUser, RootDir, NoFile
<1>4. \A p \in Procs : Shape(proc[p])
  BY <1>3, IdleIs, Zenon
<1>5. ASSUME NEW i \in Inums
      PROVE  IsFiniteSet(Pointers(i)) /\ core[i].ref = Cardinality(Pointers(i))
  <2> DEFINE h == [p \in Procs |-> One(ROOTINO, i)]
  <2>1. ASSUME NEW p \in Procs PROVE Holds(p, i) = h[p]
    <3>1. Idle.puts \in Seq(Pending) /\ Len(Idle.puts) <= 2
      BY IdleIs, Zenon DEF Recs, Shape
    <3>2. Cardinality({k \in DOMAIN Idle.puts : Idle.puts[k].inum = i}) = PutCount(Idle.puts, i)
      BY <3>1, PutsCounted, Zenon
    <3>3. Holds(p, i) = HoldsOf(Idle, ROOTINO, 0, i)
      BY <1>3, <3>2, Zenon DEF Holds, HoldsOf
    <3>4. HoldsOf(Idle, ROOTINO, 0, i) = One(ROOTINO, i) + One(0, i)
      BY IdleIs, Zenon
    <3>5. One(ROOTINO, i) \in Int /\ One(0, i) = 0
      BY OneNone, Ints, Zenon
    <3>6. QED
      BY <3>3, <3>4, <3>5
  <2>2. Pointers(i) = Units(h)
    BY <2>1, Zenon DEF Pointers, Units
  <2>3. QED
    BY <2>2, BootedIs, Zenon
<1>6. QED
  BY <1>1, <1>2, <1>4, <1>5, Zenon DEF IInv, Types

-----------------------------------------------------------------------------
(* The theorem *)

\* The types of the scenarios, with the literals added.
LEMMA SeqMono ==
  ASSUME NEW S, NEW T, S \subseteq T, NEW s \in Seq(S)
  PROVE  s \in Seq(T)
OBVIOUS

LEMMA WiderDisk ==
  ASSUME NEW d \in [Inums -> [type : STRING, nlink : Int, ents : Seq([name : STRING, inum : Inum0])]]
  PROVE  d \in Nodes
<1> DEFINE S == [name : STRING, inum : Inum0]
<1>1. STRING \subseteq Str
  BY Zenon DEF Str
<1>2. S \subseteq Entries
  BY <1>1, Zenon DEF Entries
<1>3. d \in [Inums -> [type : STRING, nlink : Int, ents : Seq(S)]]
  BY Zenon
<1> HIDE DEF S
<1>4. ASSUME NEW i \in Inums PROVE d[i] \in NodeRec
  <2>1. d[i] \in [type : STRING, nlink : Int, ents : Seq(S)]
    BY <1>3, Zenon
  <2>2. d[i].ents \in Seq(S) /\ d[i].type \in Str /\ d[i].nlink \in Int
    BY <1>1, <2>1, Zenon
  <2>3. d[i] = [type |-> d[i].type, nlink |-> d[i].nlink, ents |-> d[i].ents]
    BY <2>1, Zenon
  <2>4. d[i].ents \in Seq(Entries)
    BY <1>2, <2>2, SeqMono, Zenon
  <2>5. [type |-> d[i].type, nlink |-> d[i].nlink, ents |-> d[i].ents] \in NodeRec
    BY <2>2, <2>4, NodeOf, Zenon
  <2>6. QED
    BY <2>3, <2>5, Zenon
<1>5. QED
  BY <1>4, Zenon DEF Nodes, NodeRec

LEMMA WiderCall ==
  ASSUME NEW c \in [op : {"link", "unlink", "create", "open", "chdir"}, type : STRING,
                    path : Seq(STRING), new : Seq(STRING)]
  PROVE  c \in Calls
<1>1. STRING \subseteq Str
  BY Zenon DEF Str
<1>2. c.path \in Seq(Str) /\ c.new \in Seq(Str)
  <2>1. c.path \in Seq(STRING) /\ c.new \in Seq(STRING)
    OBVIOUS
  <2>2. QED
    BY <1>1, <2>1, SeqMono, Zenon
<1>3. c.type \in Str /\ c.op \in {"link", "unlink", "create", "open", "chdir"}
  BY <1>1, Zenon
<1>4. c = [op |-> c.op, type |-> c.type, path |-> c.path, new |-> c.new]
  OBVIOUS
<1>5. QED
  BY <1>2, <1>3, <1>4, Zenon DEF Calls

LEMMA InitInv == Init => IInv
<1> SUFFICES ASSUME Init PROVE IInv
  OBVIOUS
<1>1. PICK s \in Scenarios : disk = s.disk /\ committed = s.disk /\ calls = s.calls
  BY Zenon DEF Init
<1>2. s.disk \in Nodes
  <2>1. s.disk \in [Inums -> [type : STRING, nlink : Int, ents : Seq([name : STRING, inum : Inum0])]]
    BY InodeAssumption, Zenon DEF Inum0
  <2>2. QED
    BY <2>1, WiderDisk, Zenon
<1>3. \A c \in s.calls : c \in Calls
  <2>1. \A c \in s.calls : c \in [op : {"link", "unlink", "create", "open", "chdir"}, type : STRING,
                                   path : Seq(STRING), new : Seq(STRING)]
    BY InodeAssumption, Zenon
  <2>2. QED
    BY <2>1, WiderCall, Zenon
<1>4. core = Booted /\ proc = InUser /\ cwd = RootDir /\ ofile = NoFile
  BY Zenon DEF Init
<1>5. AtBoot
  BY <1>1, <1>2, <1>3, <1>4, Zenon DEF AtBoot
<1>6. QED
  BY <1>5, Started, Zenon

LEMMA StepCrash ==
  ASSUME IInv, Crash
  PROVE  IInv'
<1>1. /\ disk' = committed /\ committed' = committed /\ calls' = calls
      /\ core' = Booted /\ proc' = InUser /\ cwd' = RootDir /\ ofile' = NoFile
  BY Zenon DEF Crash
<1>2. committed \in Nodes /\ \A c \in calls : c \in Calls
  BY Zenon DEF IInv, Types
<1>3. disk' \in Nodes /\ committed' \in Nodes /\ \A c \in calls' : c \in Calls
  BY <1>1, <1>2, Zenon
<1>4. AtBoot'
  BY <1>1, <1>3, Zenon DEF AtBoot
<1>5. QED
  BY <1>4, Started, PTL

LEMMA NextInv == IInv /\ [Next]_vars => IInv'
<1> SUFFICES ASSUME IInv, [Next]_vars PROVE IInv'
  OBVIOUS
<1>1. CASE UNCHANGED vars
  <2>1. Types'
    BY <1>1, Zenon DEF IInv, Types, vars
  <2>2. \A p \in Procs : Shape(proc[p])'
    BY <1>1, Zenon DEF IInv, vars
  <2>3. \A i \in Inums : Pointers(i)' = Pointers(i) /\ core' = core
    BY <1>1 DEF Pointers, Holds, vars
  <2>4. QED
    BY <2>1, <2>2, <2>3, Zenon DEF IInv
<1>2. CASE Next
  <2>1. CASE ireclaim \/ Crash
    BY <2>1, StepIreclaim, StepCrash, Zenon
  <2>2. ASSUME NEW p \in Procs,
               \/ sys_link(p) \/ sys_unlink(p) \/ sys_create(p) \/ sys_open(p) \/ sys_chdir(p)
        PROVE  IInv'
    <3>1. PICK op \in Str : syscall(p, op)
      BY <2>2, Literals, Zenon DEF sys_link, sys_unlink, sys_create, sys_open, sys_chdir
    <3>2. QED
      BY <3>1, StepSyscall, Zenon
  <2>3. ASSUME NEW p \in Procs,
               \/ sys_close(p) \/ end_op(p) \/ namex(p) \/ iput(p) \/ iputFree(p) \/ iputDrop(p)
               \/ link_ip(p) \/ link_dp(p) \/ link_bad(p)
               \/ unlink_dp(p) \/ unlink_ip(p) \/ unlink_dec(p)
               \/ create_dp(p) \/ create_old(p) \/ create_new(p) \/ created(p)
               \/ open_ip(p) \/ chdir_ip(p)
        PROVE  IInv'
    BY <2>3, StepClose, StepEnd, StepNamex, StepIput, StepFree, StepDrop, StepLinkIp, StepLinkDp,
       StepLinkBad, StepUnlinkDp, StepUnlinkIp, StepUnlinkDec, StepCreateDp, StepCreateOld,
       StepCreateNew, StepCreated, StepOpen, StepChdir, Zenon
  <2>4. QED
    BY <1>2, <2>1, <2>2, <2>3, Zenon DEF Next
<1>3. QED
  BY <1>1, <1>2, Zenon

\* ip->ref of every inode is the number of pointers to it that the processes
\* hold, for any number of processes and inodes, any file system to start from
\* and any system calls, through every error path and every crash: so iget()
\* recycles an entry of the table, and iput() frees an inode, only when no
\* process can reach it.
THEOREM RefsExact == Spec => []RefsCounted
<1>1. IInv => RefsCounted
  BY Zenon DEF IInv, RefsCounted
<1>2. QED
  BY <1>1, InitInv, NextInv, PTL DEF Spec
=============================================================================
