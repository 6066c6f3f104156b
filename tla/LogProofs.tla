----------------------------- MODULE LogProofs ------------------------------
(***************************************************************************)
(* Module Log for any number of processes and blocks and any size of the   *)
(* log: no operation that keeps to its reservation finds the log full, no  *)
(* process sleeps in begin_op() without a reason, and the log implements   *)
(* AtomicDisk.  First the inductive invariant and the parts of it that are *)
(* about types, counts, control, pins and room, then the contents of the   *)
(* disk and the refinement.                                                *)
(***************************************************************************)
EXTENDS Log, FiniteSetTheorems, TLAPS

Pcs == {"out", "begin", "asleep", "in", "commit", "panic"}
Phases == {"idle", "write_log", "write_head", "install", "erase", "done",
           "panic", "read_head"}
Contents == Vals \cup {Torn}

Types ==
  /\ home \in [Blocks -> Contents]
  /\ logged \in [1 .. LOGBLOCKS -> Contents]
  /\ cache \in [Blocks -> Contents]
  /\ pins \in [Blocks -> Int]
  /\ lh \in Seq(Blocks) /\ Len(lh) <= LOGBLOCKS
  /\ head \in Seq(Blocks) /\ Len(head) <= LOGBLOCKS
  /\ outstanding \in Nat
  /\ committing \in BOOLEAN
  /\ phase \in Phases
  /\ tail \in Nat \ {0}
  /\ half \in BOOLEAN
  /\ up \in BOOLEAN
  /\ pc \in [Procs -> Pcs]
  /\ wrote \in [Procs -> SUBSET Blocks]

\* No block is twice in the log.
Distinct(s) == \A i, j \in 1 .. Len(s) : s[i] = s[j] => i = j

\* Processes between begin_op() and end_op(): log.outstanding counts them.
Active == {p \in Procs : pc[p] \in {"in", "panic"}}

Counted == outstanding = Cardinality(Active)

\* Which parts of the state go with which step of commit() and of recovery.
Control ==
  /\ Distinct(lh) /\ Distinct(head)
  /\ committing => Active = {} /\ up
  /\ (up /\ phase # "idle") <=> committing
  /\ ~up => /\ phase \in {"read_head", "install", "erase"}
            /\ \A p \in Procs : pc[p] = "out"
  /\ up => phase # "read_head"
  /\ phase \in {"install", "erase"} => head = lh
  /\ phase \in {"idle", "done", "write_log", "write_head", "panic"} => head = <<>>
  /\ phase \in {"done", "read_head"} => lh = <<>>
  /\ phase \in {"write_log", "write_head", "install"} => tail <= Len(lh)
  /\ phase \notin {"write_log", "install", "panic"} => tail = 1 /\ ~half

\* Nobody is inside a panic() of log_write().
NoFull == \A p \in Procs : pc[p] # "panic"

\* What is where, unless the machine stands still: a block that is not in the
\* log is on the disk as in memory; of those that are, commit() and recovery
\* have copied the first tail - 1.
Copied ==
  /\ \A b \in Blocks : ~Logged(b) => cache[b] = home[b]
  /\ phase = "read_head" => cache = home
  /\ phase = "write_log" => \A i \in 1 .. tail - 1 : logged[i] = cache[lh[i]]
  /\ phase = "write_head" => \A i \in 1 .. Len(lh) : logged[i] = cache[lh[i]]
  /\ phase = "install" =>
       /\ \A i \in 1 .. tail - 1 : home[lh[i]] = logged[i] /\ cache[lh[i]] = logged[i]
       /\ up => \A i \in 1 .. Len(lh) : cache[lh[i]] = logged[i]
  /\ phase = "erase" =>
       \A i \in 1 .. Len(lh) : home[lh[i]] = logged[i] /\ cache[lh[i]] = logged[i]

\* log_write() pins a block once and install_trans() unpins it.
Pinned(b) ==
  /\ phase # "erase"
  /\ \E i \in 1 .. Len(lh) : lh[i] = b /\ (phase = "install" => i >= tail)

PinsMatch ==
  \A b \in Blocks : pins[b] = IF up /\ Pinned(b) THEN 1 ELSE 0

\* The blocks that the running operations may still add to the log.
Reserved ==
  {r \in Procs \X (1 .. MAXOPBLOCKS) :
     pc[r[1]] = "in" /\ Cardinality(wrote[r[1]]) < r[2]}

\* An operation starts with nothing written.
Fresh == \A p \in Procs : pc[p] \notin {"in", "panic"} => wrote[p] = {}

Room ==
  /\ \A p \in Procs : pc[p] = "in" => \A b \in wrote[p] : Logged(b)
  /\ Len(lh) + Cardinality(Reserved) <= LOGBLOCKS

\* The inductive invariant.
IInv ==
  /\ Types /\ Counted /\ Control /\ PinsMatch /\ Fresh /\ Room /\ SleepersMustWait
  /\ NoFull => Copied

-----------------------------------------------------------------------------
\* log.outstanding is positive inside an operation, and 1 in the last.
LEMMA ActiveFinite ==
  /\ IsFiniteSet(Active) /\ Cardinality(Active) \in Nat
  /\ \A p \in Active : Cardinality(Active \ {p}) = Cardinality(Active) - 1
<1>1. IsFiniteSet(Active)
  BY LogAssumption, FS_Subset, Zenon DEF Active
<1>2. QED
  BY <1>1, FS_CardinalityType, FS_RemoveElement, Zenon

LEMMA InSomeOp ==
  ASSUME IInv, NEW p \in Procs, pc[p] = "in"
  PROVE  outstanding > 0
<1>1. p \in Active
  BY Zenon DEF Active
<1>2. Cardinality(Active) # 0
  BY <1>1, ActiveFinite, FS_EmptySet, Zenon
<1>3. QED
  BY <1>2, ActiveFinite DEF IInv, Counted

\* Every step keeps the types.
LEMMA TypesStep ==
  ASSUME IInv, [Next]_vars
  PROVE  Types'
<1> USE LogAssumption DEF Contents
<1>1. ASSUME NEW p \in Procs, Call(p) PROVE Types'
  BY <1>1, Zenon DEF IInv, Types, Call, disk, Pcs
<1>2. ASSUME NEW p \in Procs, begin_op(p) PROVE Types'
  <2>1. pc' \in [Procs -> Pcs]
    BY <1>2, Zenon DEF IInv, Types, begin_op, Pcs
  <2>2. outstanding' \in Nat
    BY <1>2 DEF IInv, Types, begin_op
  <2>3. QED
    BY <1>2, <2>1, <2>2, Zenon DEF IInv, Types, begin_op, disk
<1>3. ASSUME NEW p \in Procs, NEW b \in Blocks, NEW v \in Vals, log_write(p, b, v)
      PROVE  Types'
  <2>1. pc' \in [Procs -> Pcs]
    BY <1>3, Zenon DEF IInv, Types, log_write, Pcs
  <2>5. wrote' \in [Procs -> SUBSET Blocks]
    <3>1. wrote[p] \cup {b} \in SUBSET Blocks
      BY Zenon DEF IInv, Types
    <3>2. wrote' = wrote \/ wrote' = [wrote EXCEPT ![p] = @ \cup {b}]
      BY <1>3, Zenon DEF log_write
    <3>3. QED
      BY <3>1, <3>2, Zenon DEF IInv, Types
  <2>2. pins' \in [Blocks -> Int] /\ cache' \in [Blocks -> Contents]
    BY <1>3 DEF IInv, Types, log_write
  <2>3. lh' \in Seq(Blocks) /\ Len(lh') <= LOGBLOCKS
    <3>1. lh' = lh \/ (Len(lh) < LOGBLOCKS /\ lh' = Append(lh, b))
      BY <1>3 DEF IInv, Types, log_write
    <3>2. lh \in Seq(Blocks) /\ Len(lh) <= LOGBLOCKS
      BY Zenon DEF IInv, Types
    <3>3. QED
      BY <3>1, <3>2
  <2>4. QED
    BY <1>3, <2>1, <2>2, <2>3, <2>5, Zenon DEF IInv, Types, log_write, disk
<1>4. ASSUME NEW p \in Procs, end_op(p) PROVE Types'
  <2>1. pc' \in [Procs -> Pcs]
    BY <1>4, Zenon DEF IInv, Types, end_op, Pcs, wakeup
  <2>2. outstanding' \in Nat
    BY <1>4, InSomeOp DEF IInv, Types, end_op
  <2>3. phase' \in Phases /\ committing' \in BOOLEAN
    BY <1>4, Zenon DEF IInv, Types, end_op, Phases
  <2>4. wrote' \in [Procs -> SUBSET Blocks]
    BY <1>4, Zenon DEF IInv, Types, end_op
  <2>5. QED
    BY <1>4, <2>1, <2>2, <2>3, <2>4, Zenon DEF IInv, Types, end_op, disk
<1>5. ASSUME NEW p \in Procs, end_op_done(p) PROVE Types'
  BY <1>5, Zenon DEF IInv, Types, end_op_done, disk, Pcs, Phases, wakeup
<1>6. CASE write_log
  <2>1. tail \in 1 .. LOGBLOCKS /\ lh[tail] \in Blocks
    BY <1>6 DEF IInv, Types, Control, write_log
  <2>2. logged' \in [1 .. LOGBLOCKS -> Contents]
    BY <1>6, <2>1, Zenon DEF IInv, Types, write_log, bwrite
  <2>3. phase' \in Phases /\ tail' \in Nat \ {0} /\ half' \in BOOLEAN
    <3>1. /\ tail' \in {1, tail, tail + 1}
          /\ phase' \in {phase, "panic", "write_head"}
      BY <1>6, Zenon DEF write_log, Loop
    <3>2. tail \in Nat \ {0} /\ phase \in Phases
      BY Zenon DEF IInv, Types
    <3>3. half' \in BOOLEAN
      BY <1>6, Zenon DEF IInv, Types, write_log, Loop
    <3>4. QED
      BY <3>1, <3>2, <3>3 DEF Phases
  <2>4. QED
    BY <1>6, <2>2, <2>3, Zenon DEF IInv, Types, write_log, oplocals
<1>7. CASE write_head
  BY <1>7, Zenon DEF IInv, Types, write_head, Phases, oplocals
<1>8. CASE install_trans
  <2>1. tail \in 1 .. LOGBLOCKS /\ lh[tail] \in Blocks
    BY <1>8 DEF IInv, Types, Control, install_trans
  <2>2. home' \in [Blocks -> Contents] /\ cache' \in [Blocks -> Contents]
    BY <1>8, <2>1, Zenon DEF IInv, Types, install_trans, bwrite
  <2>3. pins' \in [Blocks -> Int]
    BY <1>8, <2>1 DEF IInv, Types, install_trans
  <2>4. phase' \in Phases /\ tail' \in Nat \ {0} /\ half' \in BOOLEAN
    BY <1>8 DEF IInv, Types, install_trans, Loop, Phases
  <2>5. QED
    BY <1>8, <2>2, <2>3, <2>4, Zenon DEF IInv, Types, install_trans, oplocals
<1>9. CASE erase
  BY <1>9 DEF IInv, Types, erase, Phases, oplocals
<1>10. CASE Crash
  <2>1. wrote' \in [Procs -> SUBSET Blocks] /\ pc' \in [Procs -> Pcs]
    BY <1>10, Zenon DEF Crash, Pcs
  <2>2. pins' \in [Blocks -> Int] /\ cache' \in [Blocks -> Contents]
    BY <1>10 DEF IInv, Types, Crash
  <2>3. lh' \in Seq(Blocks) /\ Len(lh') <= LOGBLOCKS
    BY <1>10 DEF Crash
  <2>4. QED
    <3>1. outstanding' \in Nat /\ tail' \in Nat \ {0}
      BY <1>10 DEF Crash
    <3>4. phase' \in Phases
      BY <1>10, Zenon DEF Crash, Phases
    <3>5. committing' \in BOOLEAN /\ half' \in BOOLEAN /\ up' \in BOOLEAN
      BY <1>10, Zenon DEF Crash
    <3>2. UNCHANGED <<home, logged, head>>
      BY <1>10, Zenon DEF Crash, disk
    <3>3. QED
      BY <2>1, <2>2, <2>3, <3>1, <3>2, <3>4, <3>5, Zenon DEF IInv, Types
<1>11. CASE Recover
  BY <1>11, Zenon DEF IInv, Types, Recover, Phases, oplocals, disk
<1>12. ASSUME NEW b \in Blocks, Recycle(b) PROVE Types'
  BY <1>12, Zenon DEF IInv, Types, Recycle, disk, oplocals
<1>13. CASE UNCHANGED vars
  BY <1>13, Zenon DEF IInv, Types, vars, disk, oplocals
<1>14. QED
  BY <1>1, <1>2, <1>3, <1>4, <1>5, <1>6, <1>7, <1>8, <1>9, <1>10, <1>11, <1>12,
     <1>13, Zenon DEF Next, Op, Commit

\* log.outstanding counts the operations: begin_op() and end_op() are matched.
LEMMA CountedStep ==
  ASSUME IInv, [Next]_vars
  PROVE  Counted'
<1> USE DEF IInv, Counted
<1>0. ASSUME Active' = Active, outstanding' = outstanding PROVE Counted'
  BY <1>0, Zenon
<1>1. ASSUME NEW p \in Procs, Call(p) PROVE Counted'
  BY <1>1, <1>0, Zenon DEF Active, Call, Types
<1>2. ASSUME NEW p \in Procs, begin_op(p) PROVE Counted'
  <2>1. CASE pc' = [pc EXCEPT ![p] = "asleep"]
    BY <1>2, <2>1, <1>0, Zenon DEF Active, begin_op, Types
  <2>2. CASE pc' = [pc EXCEPT ![p] = "in"] /\ outstanding' = outstanding + 1
    <3>1. Active' = Active \cup {p} /\ p \notin Active
      BY <1>2, <2>2, Zenon DEF Active, begin_op, Types
    <3>2. QED
      BY <2>2, <3>1, ActiveFinite, FS_AddElement, Zenon
  <2>3. QED
    BY <1>2, <2>1, <2>2, Zenon DEF begin_op
<1>3. ASSUME NEW p \in Procs, NEW b \in Blocks, NEW v \in Vals, log_write(p, b, v)
      PROVE  Counted'
  BY <1>3, <1>0, Zenon DEF Active, log_write, Types
<1>4. ASSUME NEW p \in Procs, end_op(p) PROVE Counted'
  <2>1. Active' = Active \ {p} /\ p \in Active
    BY <1>4, Zenon DEF Active, end_op, Types, wakeup
  <2>2. QED
    BY <1>4, <2>1, ActiveFinite, Zenon DEF end_op
<1>5. ASSUME NEW p \in Procs, end_op_done(p) PROVE Counted'
  BY <1>5, <1>0, Zenon DEF Active, end_op_done, wakeup, Types
<1>6. CASE Commit
  BY <1>6, <1>0, Zenon DEF Active, Commit, write_log, write_head, install_trans, erase,
     Recover, oplocals
<1>7. CASE Crash
  <2>1. Active' = {}
    BY <1>7, Zenon DEF Active, Crash
  <2>2. QED
    BY <1>7, <2>1, FS_EmptySet, Zenon DEF Crash
<1>8. ASSUME NEW b \in Blocks, Recycle(b) PROVE Counted'
  BY <1>8, <1>0, Zenon DEF Active, Recycle, oplocals
<1>9. CASE UNCHANGED vars
  BY <1>9, <1>0, Zenon DEF Active, vars, oplocals
<1>10. QED
  BY <1>1, <1>2, <1>3, <1>4, <1>5, <1>6, <1>7, <1>8, <1>9, Zenon DEF Next, Op

\* begin_op() sleeps only with a reason, and whoever takes the reason away
\* wakes it: end_op() the room, the end of commit() log.committing.
LEMMA SleepStep ==
  ASSUME IInv, Types', [Next]_vars
  PROVE  SleepersMustWait'
<1> USE DEF IInv, SleepersMustWait
<1>0. ASSUME committing' = committing, Len(lh') >= Len(lh), outstanding' = outstanding,
             \A p \in Procs : pc'[p] = "asleep" => pc[p] = "asleep"
      PROVE  SleepersMustWait'
  BY <1>0, LogAssumption DEF Types
<1>1. ASSUME NEW p \in Procs, Call(p) PROVE SleepersMustWait'
  BY <1>1, <1>0, Zenon DEF Call, Types
<1>2. ASSUME NEW p \in Procs, begin_op(p) PROVE SleepersMustWait'
  <2>1. CASE committing \/ Len(lh) + (outstanding + 1) * MAXOPBLOCKS > LOGBLOCKS
    BY <1>2, <2>1, Zenon DEF begin_op, Types
  <2>2. CASE ~(committing \/ Len(lh) + (outstanding + 1) * MAXOPBLOCKS > LOGBLOCKS)
    <3>1. \A q \in Procs : pc'[q] # "asleep"
      BY <1>2, <2>2, Zenon DEF begin_op, Types
    <3>2. QED
      BY <3>1, Zenon
  <2>3. QED
    BY <2>1, <2>2, Zenon
<1>3. ASSUME NEW p \in Procs, NEW b \in Blocks, NEW v \in Vals, log_write(p, b, v)
      PROVE  SleepersMustWait'
  <2>1. Len(lh') >= Len(lh)
    <3>1. lh' = lh \/ lh' = Append(lh, b)
      BY <1>3, Zenon DEF log_write
    <3>2. QED
      BY <3>1 DEF Types
  <2>2. QED
    BY <1>3, <1>0, <2>1, Zenon DEF log_write, Types
<1>4. ASSUME NEW p \in Procs, end_op(p) PROVE SleepersMustWait'
  BY <1>4, Zenon DEF end_op, wakeup, Types
<1>5. ASSUME NEW p \in Procs, end_op_done(p) PROVE SleepersMustWait'
  BY <1>5, Zenon DEF end_op_done, wakeup, Types
<1>6. CASE write_log \/ write_head \/ install_trans
  BY <1>6, <1>0, Zenon DEF write_log, write_head, install_trans, oplocals, Types
<1>7. CASE erase \/ Recover
  <2>1. CASE up
    BY <1>7, <2>1, Zenon DEF erase, Recover, oplocals, Control
  <2>2. CASE ~up
    BY <1>7, <2>2, Zenon DEF erase, Recover, oplocals, Control
  <2>3. QED
    BY <2>1, <2>2, Zenon
<1>8. CASE Crash
  BY <1>8, Zenon DEF Crash
<1>9. ASSUME NEW b \in Blocks, Recycle(b) PROVE SleepersMustWait'
  BY <1>9, <1>0, Zenon DEF Recycle, oplocals, Types
<1>10. CASE UNCHANGED vars
  BY <1>10, <1>0, Zenon DEF vars, oplocals, Types
<1>11. QED
  BY <1>1, <1>2, <1>3, <1>4, <1>5, <1>6, <1>7, <1>8, <1>9, <1>10, Zenon DEF Next, Op, Commit

\* A block that is not in the log can be appended to it.
LEMMA AppendDistinct ==
  ASSUME NEW s \in Seq(Blocks), NEW b \in Blocks, Distinct(s),
         \A i \in 1 .. Len(s) : s[i] # b
  PROVE  Distinct(Append(s, b))
BY DEF Distinct

LEMMA InAppend ==
  ASSUME NEW s \in Seq(Blocks), NEW b \in Blocks, NEW c
  PROVE  (\E i \in 1 .. Len(Append(s, b)) : Append(s, b)[i] = c)
           <=> (\E i \in 1 .. Len(s) : s[i] = c) \/ c = b
<1>1. ASSUME NEW i \in 1 .. Len(s), s[i] = c
      PROVE  \E j \in 1 .. Len(Append(s, b)) : Append(s, b)[j] = c
  BY <1>1
<1>2. ASSUME c = b PROVE \E j \in 1 .. Len(Append(s, b)) : Append(s, b)[j] = c
  <2>1. Append(s, b)[Len(s) + 1] = b /\ Len(s) + 1 \in 1 .. Len(Append(s, b))
    OBVIOUS
  <2>2. QED
    BY <1>2, <2>1, Zenon
<1>3. ASSUME NEW j \in 1 .. Len(Append(s, b)), Append(s, b)[j] = c
      PROVE  (\E i \in 1 .. Len(s) : s[i] = c) \/ c = b
  BY <1>3
<1>4. QED
  BY <1>1, <1>2, <1>3, Zenon

LEMMA InNewLog ==
  ASSUME lh \in Seq(Blocks), NEW b \in Blocks, lh' = Append(lh, b)
  PROVE  \A c : (\E i \in 1 .. Len(lh') : lh'[i] = c)
                <=> (\E i \in 1 .. Len(lh) : lh[i] = c) \/ c = b
BY InAppend

LEMMA LoggedIs ==
  ASSUME Types, NEW b
  PROVE  Logged(b) <=> \E i \in 1 .. Len(lh) : lh[i] = b
BY DEF Logged, Types

\* Each step of commit() and of recovery hands on what the next one needs.
LEMMA ControlStep ==
  ASSUME IInv, Types', Counted', [Next]_vars
  PROVE  Control'
<1> USE DEF IInv, Control
<1>1. ASSUME NEW p \in Procs, Call(p) PROVE Control'
  <2>1. Active' = Active
    BY <1>1, Zenon DEF Call, Active, Types
  <2>2. QED
    BY <1>1, <2>1, Zenon DEF Call, disk, Types
<1>2. ASSUME NEW p \in Procs, begin_op(p) PROVE Control'
  <2>1. committing => Active' = Active
    BY <1>2, Zenon DEF begin_op, Active, Types
  <2>2. QED
    BY <1>2, <2>1, Zenon DEF begin_op, disk, Types
<1>3. ASSUME NEW p \in Procs, NEW b \in Blocks, NEW v \in Vals, log_write(p, b, v)
      PROVE  Control'
  <2>1. up /\ ~committing /\ phase = "idle"
    BY <1>3, Zenon DEF log_write, Active, Types
  <2>2. Distinct(lh')
    <3>1. lh' = lh \/ (~Logged(b) /\ lh' = Append(lh, b))
      BY <1>3, Zenon DEF log_write
    <3>2. lh \in Seq(Blocks) /\ Distinct(lh)
      BY Zenon DEF Types
    <3>3. ~Logged(b) => \A i \in 1 .. Len(lh) : lh[i] # b
      BY LoggedIs, Zenon
    <3>4. QED
      BY <3>1, <3>2, <3>3, AppendDistinct, Zenon
  <2>3. QED
    BY <1>3, <2>1, <2>2, Zenon DEF log_write, disk
<1>4. ASSUME NEW p \in Procs, end_op(p) PROVE Control'
  <2>1. up /\ ~committing /\ phase = "idle"
    BY <1>4, Zenon DEF end_op, Active, Types
  <2>2. CASE outstanding = 1
    <3>1. Active' = {}
      <4>1. IsFiniteSet(Active') /\ Cardinality(Active') = 0
        <5>1. Active' \subseteq Procs
          BY Zenon DEF Active
        <5>2. IsFiniteSet(Active')
          BY <5>1, LogAssumption, FS_Subset, Zenon
        <5>3. QED
          BY <1>4, <2>2, <5>2 DEF Counted, end_op
      <4>2. QED
        BY <4>1, FS_EmptySet, Zenon
    <3>2. lh # <<>> => Len(lh) >= 1
      BY DEF Types
    <3>3. QED
      BY <1>4, <2>1, <2>2, <3>1, <3>2, Zenon DEF end_op, disk
  <2>3. CASE outstanding # 1
    BY <1>4, <2>1, <2>3, Zenon DEF end_op, disk
  <2>4. QED
    BY <2>2, <2>3, Zenon
<1>5. ASSUME NEW p \in Procs, end_op_done(p) PROVE Control'
  <2>1. up /\ committing
    BY <1>5, Zenon DEF end_op_done, Types
  <2>2. QED
    BY <1>5, <2>1, Zenon DEF end_op_done, disk
<1>6. CASE write_log
  <2>1. up /\ committing /\ Active' = Active
    BY <1>6, Zenon DEF write_log, oplocals, Active, Types
  <2>2. QED
    BY <1>6, <2>1 DEF write_log, Loop, oplocals, Types
<1>7. CASE write_head
  <2>1. up /\ committing /\ Active' = Active
    BY <1>7, Zenon DEF write_head, oplocals, Active, Types
  <2>2. QED
    BY <1>7, <2>1, Zenon DEF write_head, oplocals, Types
<1>8. CASE install_trans
  <2>1. Active' = Active
    BY <1>8, Zenon DEF install_trans, oplocals, Active
  <2>2. QED
    <3>1. CASE half /\ tail = Len(lh)
      BY <1>8, <2>1, <3>1, Zenon DEF install_trans, Loop, oplocals
    <3>2. CASE ~(half /\ tail = Len(lh))
      <4>1. tail' <= Len(lh)
        BY <1>8, <3>2 DEF install_trans, Loop, Types
      <4>2. QED
        BY <1>8, <2>1, <3>2, <4>1, Zenon DEF install_trans, Loop, oplocals
    <3>3. QED
      BY <3>1, <3>2, Zenon
<1>9. CASE erase
  <2>1. Active' = Active
    BY <1>9, Zenon DEF erase, oplocals, Active
  <2>2. QED
    BY <1>9, <2>1 DEF erase, oplocals, Distinct, Types
<1>10. CASE Crash
  <2>1. Distinct(lh') /\ Distinct(head')
    BY <1>10 DEF Crash, Distinct, disk
  <2>2. QED
    BY <1>10, <2>1, Zenon DEF Crash
<1>11. CASE Recover
  <2>1. Active' = Active
    BY <1>11, Zenon DEF Recover, oplocals, Active
  <2>2. head # <<>> => Len(head) >= 1
    BY DEF Types
  <2>3. QED
    BY <1>11, <2>1, <2>2, Zenon DEF Recover, oplocals, disk, Types
<1>12. ASSUME NEW b \in Blocks, Recycle(b) PROVE Control'
  <2>1. Active' = Active
    BY <1>12, Zenon DEF Recycle, oplocals, Active
  <2>2. QED
    BY <1>12, <2>1, Zenon DEF Recycle, oplocals, disk
<1>13. CASE UNCHANGED vars
  <2>1. Active' = Active
    BY <1>13, Zenon DEF vars, oplocals, Active
  <2>2. QED
    BY <1>13, <2>1, Zenon DEF vars, oplocals, disk
<1>14. QED
  BY <1>1, <1>2, <1>3, <1>4, <1>5, <1>6, <1>7, <1>8, <1>9, <1>10, <1>11, <1>12,
     <1>13, Zenon DEF Next, Op, Commit

\* log_write() pins what it adds to the log, install_trans() unpins it.
LEMMA PinsStep ==
  ASSUME IInv, Types', Control', [Next]_vars
  PROVE  PinsMatch'
<1> USE DEF IInv, PinsMatch
<1>0. ASSUME pins' = pins, up' = up, \A b \in Blocks : Pinned(b)' <=> Pinned(b)
      PROVE  PinsMatch'
  BY <1>0, Zenon
<1>1. ASSUME UNCHANGED <<pins, up, lh>>,
             {phase, phase'} \cap {"install", "erase"} = {}
      PROVE  PinsMatch'
  BY <1>1, <1>0, Zenon DEF Pinned
<1>2. ASSUME UNCHANGED <<pins, up, lh, phase, tail>> PROVE PinsMatch'
  BY <1>2, <1>0, Zenon DEF Pinned
<1>3. ASSUME NEW p \in Procs, Call(p) \/ begin_op(p) PROVE PinsMatch'
  BY <1>2, <1>3, Zenon DEF Call, begin_op
<1>4. ASSUME NEW p \in Procs, NEW b \in Blocks, NEW v \in Vals, log_write(p, b, v)
      PROVE  PinsMatch'
  <2>1. up /\ phase = "idle" /\ UNCHANGED <<up, phase>>
    BY <1>4, Zenon DEF log_write, Control, Active, Types
  <2>2. CASE UNCHANGED <<lh, pins>>
    BY <2>1, <2>2, <1>1, Zenon
  <2>3. CASE ~Logged(b) /\ lh' = Append(lh, b) /\ pins' = [pins EXCEPT ![b] = @ + 1]
    <3>1. ~Pinned(b)
      BY <2>3, LoggedIs, Zenon DEF Pinned
    <3>2. \A c \in Blocks : Pinned(c)' <=> Pinned(c) \/ c = b
      <4>1. lh \in Seq(Blocks)
        BY Zenon DEF Types
      <4>2. \A c : (\E i \in 1 .. Len(lh') : lh'[i] = c)
                     <=> (\E i \in 1 .. Len(lh) : lh[i] = c) \/ c = b
        BY <2>3, <4>1, InNewLog, Zenon
      <4>3. QED
        BY <2>1, <4>2, Zenon DEF Pinned
    <3>3. QED
      BY <2>1, <2>3, <3>1, <3>2 DEF Types
  <2>4. QED
    BY <1>4, <2>2, <2>3, Zenon DEF log_write, Types
<1>5. ASSUME NEW p \in Procs, end_op(p) PROVE PinsMatch'
  <2>1. phase = "idle"
    BY <1>5, Zenon DEF end_op, Control, Active, Types
  <2>2. QED
    BY <1>1, <1>5, <2>1, Zenon DEF end_op
<1>6. ASSUME NEW p \in Procs, end_op_done(p) PROVE PinsMatch'
  BY <1>1, <1>6, Zenon DEF end_op_done
<1>7. CASE write_log
  BY <1>1, <1>7, Zenon DEF write_log, Loop
<1>8. CASE write_head
  <2>1. \A b \in Blocks : Pinned(b)' <=> Pinned(b)
    BY <1>8 DEF write_head, Pinned, Control
  <2>2. QED
    BY <1>0, <1>8, <2>1, Zenon DEF write_head
<1>9. CASE install_trans
  <2>0. tail \in 1 .. Len(lh) /\ lh[tail] \in Blocks /\ UNCHANGED <<lh, up>>
    BY <1>9 DEF install_trans, Control, Types
  <2>1. CASE ~up
    BY <1>9, <2>0, <2>1 DEF install_trans
  <2>2. CASE ~half
    BY <1>9, <1>2, <2>0, <2>2, Zenon DEF install_trans, Loop
  <2>3. CASE up /\ half
    <3>1. \A b \in Blocks : Pinned(b)' <=> Pinned(b) /\ b # lh[tail]
      <4>0. /\ phase = "install" /\ lh' = lh /\ lh \in Seq(Blocks)
            /\ \A i, j \in 1 .. Len(lh) : lh[i] = lh[j] => i = j
        BY <1>9, Zenon DEF install_trans, Control, Distinct, Types
      <4> HIDE DEF IInv, PinsMatch
      <4>1. CASE tail = Len(lh)
        <5>1. phase' = "erase"
          BY <1>9, <2>3, <4>1, Zenon DEF install_trans, Loop
        <5>2. \A b : Pinned(b) => b = lh[tail]
          BY <2>0, <4>0, <4>1 DEF Pinned
        <5>3. QED
          BY <5>1, <5>2, Zenon DEF Pinned
      <4>2. CASE tail # Len(lh)
        <5>1. phase' = phase /\ tail' = tail + 1
          BY <1>9, <2>3, <4>2, Zenon DEF install_trans, Loop
        <5>2. ASSUME NEW b \in Blocks, NEW i \in 1 .. Len(lh), lh[i] = b
              PROVE  i >= tail + 1 <=> i >= tail /\ b # lh[tail]
          BY <2>0, <4>0, <5>2
        <5>3. QED
          BY <4>0, <5>1, <5>2, Zenon DEF Pinned
      <4>3. QED
        BY <4>1, <4>2, Zenon
    <3>2. Pinned(lh[tail])
      BY <1>9, <2>0 DEF install_trans, Pinned, Types
    <3>3. pins' = [pins EXCEPT ![lh[tail]] = @ - 1]
      BY <1>9, <2>3, Zenon DEF install_trans
    <3>4. QED
      BY <2>0, <2>3, <3>1, <3>2, <3>3 DEF Types
  <2>4. QED
    BY <2>1, <2>2, <2>3, Zenon
<1>10. CASE erase
  <2>1. \A b \in Blocks : ~Pinned(b) /\ ~Pinned(b)'
    BY <1>10 DEF erase, Pinned
  <2>2. QED
    BY <1>10, <2>1, Zenon DEF erase
<1>11. CASE Crash
  BY <1>11, Zenon DEF Crash
<1>12. CASE Recover
  BY <1>12, Zenon DEF Recover
<1>13. ASSUME NEW b \in Blocks, Recycle(b) PROVE PinsMatch'
  BY <1>2, <1>13, Zenon DEF Recycle
<1>14. CASE UNCHANGED vars
  BY <1>2, <1>14, Zenon DEF vars
<1>15. QED
  BY <1>3, <1>4, <1>5, <1>6, <1>7, <1>8, <1>9, <1>10, <1>11, <1>12, <1>13, <1>14, Zenon
     DEF Next, Op, Commit

\* A set of pairs whose first components are in A and whose second ones are at
\* most n has at most n elements for each of A.
LEMMA PairsBound ==
  ASSUME NEW A, IsFiniteSet(A), NEW n \in Nat, NEW R \in SUBSET (A \X (1 .. n))
  PROVE  IsFiniteSet(R) /\ Cardinality(R) <= Cardinality(A) * n
<1>1. IsFiniteSet(1 .. n) /\ Cardinality(1 .. n) = n
  BY FS_Interval
<1>2. IsFiniteSet(A \X (1 .. n)) /\ Cardinality(A \X (1 .. n)) = Cardinality(A) * n
  BY <1>1, FS_Product, Zenon
<1>3. QED
  BY <1>2, FS_Subset, Zenon

LEMMA ReservedFinite ==
  IsFiniteSet(Reserved) /\ Cardinality(Reserved) \in Nat
<1>1. Reserved \in SUBSET (Procs \X (1 .. MAXOPBLOCKS))
  BY Zenon DEF Reserved
<1>2. QED
  BY <1>1, PairsBound, LogAssumption, FS_CardinalityType, Zenon

\* end_op() forgets what the operation has written.
LEMMA FreshStep ==
  ASSUME IInv, [Next]_vars
  PROVE  Fresh'
<1> USE DEF IInv, Fresh
<1>1. ASSUME NEW p \in Procs, Call(p) \/ Op(p) PROVE Fresh'
  BY <1>1, Zenon DEF Call, Op, begin_op, end_op, end_op_done, wakeup, Types
<1>2. ASSUME NEW p \in Procs, NEW b \in Blocks, NEW v \in Vals, log_write(p, b, v)
      PROVE  Fresh'
  BY <1>2, Zenon DEF log_write, Types
<1>3. CASE Commit
  BY <1>3, Zenon DEF Commit, write_log, write_head, install_trans, erase, Recover, oplocals
<1>4. CASE Crash
  BY <1>4, Zenon DEF Crash
<1>5. ASSUME NEW b \in Blocks, Recycle(b) PROVE Fresh'
  BY <1>5, Zenon DEF Recycle, oplocals
<1>6. CASE UNCHANGED vars
  BY <1>6, Zenon DEF vars, oplocals
<1>7. QED
  BY <1>1, <1>2, <1>3, <1>4, <1>5, <1>6, Zenon DEF Next

\* begin_op() reserves MAXOPBLOCKS blocks and every block that log_write() adds
\* to the log is one of them.
LEMMA RoomStep ==
  ASSUME IInv, Types', Counted', Control', [Next]_vars
  PROVE  Room'
<1> USE LogAssumption DEF IInv
<1>0. ASSUME lh' = lh, Reserved' \in SUBSET Reserved,
             \A p \in Procs : pc'[p] = "in" => pc[p] = "in" /\ wrote'[p] = wrote[p]
      PROVE  Room'
  <2>1. Cardinality(Reserved') <= Cardinality(Reserved) /\ Cardinality(Reserved') \in Nat
    BY <1>0, ReservedFinite, FS_Subset, FS_CardinalityType, Zenon
  <2>2. \A b : Logged(b)' <=> Logged(b)
    BY <1>0, Zenon DEF Logged
  <2>3. Len(lh) \in Nat /\ Len(lh) + Cardinality(Reserved) <= LOGBLOCKS
    BY DEF Room, Types
  <2>4. Len(lh') + Cardinality(Reserved') <= LOGBLOCKS
    BY <1>0, <2>1, <2>3, ReservedFinite
  <2>5. QED
    BY <1>0, <2>2, <2>4, Zenon DEF Room
<1>1. ASSUME lh' = lh, wrote' = wrote,
             \A p \in Procs : pc'[p] = "in" => pc[p] = "in"
      PROVE  Room'
  <2>1. Reserved' \in SUBSET Reserved
    BY <1>1, Zenon DEF Reserved
  <2>2. QED
    BY <1>0, <1>1, <2>1, Zenon
<1>2. ASSUME NEW p \in Procs, Call(p) PROVE Room'
  BY <1>1, <1>2, Zenon DEF Call, Types
<1>3. ASSUME NEW p \in Procs, begin_op(p) PROVE Room'
  <2>1. CASE pc' = [pc EXCEPT ![p] = "asleep"]
    BY <1>1, <1>3, <2>1, Zenon DEF begin_op, Types
  <2>2. CASE /\ ~(Len(lh) + (outstanding + 1) * MAXOPBLOCKS > LOGBLOCKS)
             /\ pc' = [pc EXCEPT ![p] = "in"] /\ outstanding' = outstanding + 1
    <3>1. Cardinality(Reserved') <= (outstanding + 1) * MAXOPBLOCKS /\ Cardinality(Reserved') \in Nat
      <4>1. Reserved' \in SUBSET (Active' \X (1 .. MAXOPBLOCKS))
        BY Zenon DEF Reserved, Active
      <4>2. Active' \in SUBSET Procs
        BY Zenon DEF Active
      <4>3. IsFiniteSet(Active')
        BY <4>2, FS_Subset, Zenon
      <4>4. Cardinality(Reserved') <= Cardinality(Active') * MAXOPBLOCKS /\ IsFiniteSet(Reserved')
        BY <4>1, <4>3, PairsBound, Zenon
      <4>5. QED
        BY <2>2, <4>4, FS_CardinalityType, Zenon DEF Counted
    <3>2. \A q \in Procs : pc'[q] = "in" => \A b \in wrote'[q] : Logged(b)'
      <4>1. wrote[p] = {}
        BY <1>3, Zenon DEF begin_op, Fresh
      <4>2. QED
        BY <1>3, <2>2, <4>1, Zenon DEF begin_op, Room, Logged, Types
    <3>3. DEFINE n == (outstanding + 1) * MAXOPBLOCKS
    <3>4. lh' = lh /\ Len(lh) \in Nat
      BY <1>3 DEF begin_op, Types
    <3>5. n \in Nat
      BY DEF Types
    <3>6. Cardinality(Reserved') <= n /\ Cardinality(Reserved') \in Nat /\ ~(Len(lh) + n > LOGBLOCKS)
      BY <2>2, <3>1, Zenon
    <3> HIDE DEF n
    <3>7. Len(lh) + Cardinality(Reserved') <= LOGBLOCKS
      BY <3>4, <3>5, <3>6
    <3>8. QED
      BY <3>2, <3>4, <3>7, Zenon DEF Room
  <2>3. QED
    BY <1>3, <2>1, <2>2, Zenon DEF begin_op
<1>4. ASSUME NEW p \in Procs, NEW b \in Blocks, NEW v \in Vals, log_write(p, b, v)
      PROVE  Room'
  <2>1. CASE Len(lh) >= LOGBLOCKS
    BY <1>1, <1>4, <2>1, Zenon DEF log_write, Types
  <2>2. CASE ~(Len(lh) >= LOGBLOCKS)
    <3>0. /\ lh' = IF Logged(b) THEN lh ELSE Append(lh, b)
          /\ wrote' = [wrote EXCEPT ![p] = @ \cup {b}] /\ pc' = pc /\ pc[p] = "in"
          /\ Cardinality(wrote[p] \cup {b}) <= MAXOPBLOCKS
      BY <1>4, <2>2, Zenon DEF log_write
    <3>1. \A c : Logged(c)' <=> Logged(c) \/ c = b
      <4>1. lh \in Seq(Blocks) /\ lh' \in Seq(Blocks)
        BY Zenon DEF Types
      <4>2. /\ \A c : Logged(c) <=> \E i \in 1 .. Len(lh) : lh[i] = c
            /\ \A c : Logged(c)' <=> \E i \in 1 .. Len(lh') : lh'[i] = c
        BY <4>1 DEF Logged
      <4>3. CASE Logged(b)
        <5>1. lh' = lh
          BY <3>0, <4>3, Zenon
        <5>2. QED
          BY <4>2, <4>3, <5>1, Zenon
      <4>4. CASE ~Logged(b)
        <5>1. lh' = Append(lh, b)
          BY <3>0, <4>4, Zenon
        <5>2. \A c : (\E i \in 1 .. Len(lh') : lh'[i] = c)
                       <=> (\E i \in 1 .. Len(lh) : lh[i] = c) \/ c = b
          BY <4>1, <5>1, InNewLog, Zenon
        <5>3. QED
          BY <4>2, <5>2, Zenon
      <4>5. QED
        BY <4>3, <4>4, Zenon
    <3>2. \A q \in Procs : pc'[q] = "in" => \A c \in wrote'[q] : Logged(c)'
      BY <3>0, <3>1, Zenon DEF Room, Types
    <3>3. /\ IsFiniteSet(wrote[p]) /\ Cardinality(wrote[p]) \in Nat
          /\ Cardinality(wrote[p] \cup {b}) =
                IF b \in wrote[p] THEN Cardinality(wrote[p]) ELSE Cardinality(wrote[p]) + 1
      BY FS_Subset, FS_CardinalityType, FS_AddElement, Zenon DEF Types
    <3>4. Reserved' \in SUBSET Reserved
      <4>1. SUFFICES ASSUME NEW r \in Reserved' PROVE r \in Reserved
        BY Zenon
      <4>2. /\ r \in Procs \X (1 .. MAXOPBLOCKS) /\ pc'[r[1]] = "in"
            /\ Cardinality(wrote'[r[1]]) < r[2]
        BY Zenon DEF Reserved
      <4>3. r[1] \in Procs /\ r[2] \in Int
        BY <4>2
      <4>4. wrote \in [Procs -> SUBSET Blocks]
        BY Zenon DEF Types
      <4>5. CASE r[1] # p
        <5>1. wrote'[r[1]] = wrote[r[1]]
          BY <3>0, <4>3, <4>4, <4>5, Zenon
        <5>2. QED
          BY <3>0, <4>2, <5>1, Zenon DEF Reserved
      <4>6. CASE r[1] = p
        <5>1. wrote'[r[1]] = wrote[p] \cup {b}
          BY <3>0, <4>3, <4>4, <4>6, Zenon
        <5>2. Cardinality(wrote[r[1]]) < r[2]
          BY <3>3, <4>2, <4>3, <4>6, <5>1
        <5>3. QED
          BY <3>0, <4>2, <5>2, Zenon DEF Reserved
      <4>7. QED
        BY <4>5, <4>6, Zenon
    <3>5. CASE Logged(b)
      <4>1. Cardinality(Reserved') <= Cardinality(Reserved) /\ Cardinality(Reserved') \in Nat
        BY <3>4, ReservedFinite, FS_Subset, FS_CardinalityType, Zenon
      <4>2. lh' = lh
        BY <3>0, <3>5, Zenon
      <4>3. Len(lh) \in Nat /\ Len(lh) + Cardinality(Reserved) <= LOGBLOCKS
        BY DEF Room, Types
      <4>4. Len(lh) + Cardinality(Reserved') <= LOGBLOCKS
        BY <4>1, <4>3, ReservedFinite
      <4>5. QED
        BY <3>2, <4>2, <4>4, Zenon DEF Room
    <3>6. CASE ~Logged(b)
      <4>1. b \notin wrote[p]
        BY <3>0, <3>6, Zenon DEF Room
      <4>2. DEFINE r == <<p, Cardinality(wrote[p]) + 1>>
      <4>3. r \in Reserved /\ r \notin Reserved'
        <5>1. wrote'[p] = wrote[p] \cup {b}
          BY <3>0, Zenon DEF Types
        <5>2. /\ Cardinality(wrote[p]) + 1 \in 1 .. MAXOPBLOCKS
              /\ Cardinality(wrote[p]) < Cardinality(wrote[p]) + 1
              /\ ~(Cardinality(wrote'[p]) < Cardinality(wrote[p]) + 1)
          <6>1. /\ Cardinality(wrote'[p]) = Cardinality(wrote[p]) + 1
                /\ Cardinality(wrote'[p]) <= MAXOPBLOCKS
            BY <3>0, <3>3, <4>1, <5>1, Zenon
          <6>2. QED
            BY <3>3, <6>1
        <5>3. r \in Procs \X (1 .. MAXOPBLOCKS) /\ r[1] = p /\ r[2] = Cardinality(wrote[p]) + 1
          BY <5>2, Zenon
        <5> HIDE DEF r
        <5>4. QED
          BY <3>0, <5>2, <5>3, Zenon DEF Reserved
      <4>4. Reserved' \in SUBSET (Reserved \ {r})
        BY <3>4, <4>3, Zenon
      <4> HIDE DEF r
      <4>5. /\ IsFiniteSet(Reserved \ {r})
            /\ Cardinality(Reserved \ {r}) = Cardinality(Reserved) - 1
        BY <4>3, ReservedFinite, FS_RemoveElement, Zenon
      <4>6. Cardinality(Reserved') <= Cardinality(Reserved) - 1 /\ Cardinality(Reserved') \in Nat
        BY <4>4, <4>5, FS_Subset, FS_CardinalityType
      <4>7. Len(lh') = Len(lh) + 1
        BY <3>0, <3>6 DEF Types
      <4>8. Len(lh) \in Nat /\ Len(lh) + Cardinality(Reserved) <= LOGBLOCKS
        BY DEF Room, Types
      <4>9. Len(lh') + Cardinality(Reserved') <= LOGBLOCKS
        BY <4>6, <4>7, <4>8, ReservedFinite
      <4>10. QED
        BY <3>2, <4>9, Zenon DEF Room
    <3>7. QED
      BY <3>5, <3>6, Zenon
  <2>3. QED
    BY <2>1, <2>2, Zenon
<1>5. ASSUME NEW p \in Procs, end_op(p) PROVE Room'
  <2>1. \A q \in Procs : pc'[q] = "in" => pc[q] = "in" /\ wrote'[q] = wrote[q]
    BY <1>5, Zenon DEF end_op, wakeup, Types
  <2>2. Reserved' \in SUBSET Reserved
    BY <2>1, Zenon DEF Reserved
  <2>3. QED
    BY <1>0, <1>5, <2>1, <2>2, Zenon DEF end_op
<1>6. ASSUME NEW p \in Procs, end_op_done(p) PROVE Room'
  BY <1>1, <1>6, Zenon DEF end_op_done, wakeup, Types
<1>7. CASE write_log \/ write_head \/ install_trans
  BY <1>1, <1>7, Zenon DEF write_log, write_head, install_trans, oplocals
<1>8. ASSUME \A p \in Procs : pc'[p] # "in" PROVE Room'
  <2>1. Reserved' = {}
    BY <1>8, Zenon DEF Reserved
  <2>2. QED
    <3>1. Cardinality(Reserved') = 0
      BY <2>1, FS_EmptySet, Zenon
    <3>2. Len(lh') + Cardinality(Reserved') <= LOGBLOCKS
      BY <3>1 DEF Types
    <3>3. QED
      BY <1>8, <3>2, Zenon DEF Room
<1>9. CASE erase \/ Recover \/ Crash
  <2>1. \A p \in Procs : pc'[p] # "in"
    BY <1>9, Zenon DEF erase, Recover, Crash, Control, Active, oplocals, Types
  <2>2. QED
    BY <1>8, <2>1, Zenon
<1>10. ASSUME NEW b \in Blocks, Recycle(b) PROVE Room'
  BY <1>1, <1>10, Zenon DEF Recycle, oplocals
<1>11. CASE UNCHANGED vars
  BY <1>1, <1>11, Zenon DEF vars, oplocals
<1>12. QED
  BY <1>2, <1>3, <1>4, <1>5, <1>6, <1>7, <1>9, <1>10, <1>11, Zenon DEF Next, Op, Commit

-----------------------------------------------------------------------------
\* A step that is not Crash or Recover is taken by a machine that has not
\* panicked, and only log_write() can panic for want of room.
LEMMA CopiedStep ==
  ASSUME IInv, Types', Control', [Next]_vars, NoFull'
  PROVE  Copied'
<1>t. Types
  BY Zenon DEF IInv
<1>k. Control
  BY Zenon DEF IInv
<1>m. PinsMatch
  BY Zenon DEF IInv
<1>n. NoFull => Copied
  BY Zenon DEF IInv
<1>0. \A b : /\ Logged(b) <=> \E i \in 1 .. Len(lh) : lh[i] = b
             /\ Logged(b)' <=> \E i \in 1 .. Len(lh') : lh'[i] = b
  <2>1. DOMAIN lh = 1 .. Len(lh) /\ DOMAIN lh' = 1 .. Len(lh')
    BY <1>t DEF Types
  <2>2. QED
    BY <2>1, Zenon DEF Logged
<1>1. ASSUME ~Halted PROVE Copied
  BY <1>n, <1>1, Zenon DEF Halted, NoFull
<1>2. ASSUME Copied, UNCHANGED <<home, logged, cache, lh, phase, tail, up>> PROVE Copied'
  BY <1>2, Zenon DEF Copied, Logged
<1>3. ASSUME NEW p \in Procs, Call(p) \/ begin_op(p) PROVE Copied'
  BY <1>1, <1>2, <1>3, Zenon DEF Call, begin_op, disk
<1>4. ASSUME NEW p \in Procs, NEW b \in Blocks, NEW v \in Vals, log_write(p, b, v)
      PROVE  Copied'
  <2>1. phase = "idle" /\ phase' = "idle" /\ home' = home /\ Copied
    BY <1>t, <1>k, <1>1, <1>4, Zenon DEF log_write, Control, Active, Types, disk
  <2>2. pc' # [pc EXCEPT ![p] = "panic"]
    BY <1>t, Zenon DEF NoFull, Types
  <2>3. lh' = (IF Logged(b) THEN lh ELSE Append(lh, b)) /\ cache' = [cache EXCEPT ![b] = v]
    BY <1>4, <2>2, Zenon DEF log_write
  <2>4. \A c : Logged(c)' <=> Logged(c) \/ c = b
    <3>1. lh \in Seq(Blocks)
      BY <1>t, Zenon DEF Types
    <3>2. QED
      BY <1>0, <2>3, <3>1, InAppend
  <2>5. QED
    BY <1>t, <2>1, <2>3, <2>4, Zenon DEF Copied, Types
<1>5. ASSUME NEW p \in Procs, end_op(p) PROVE Copied'
  <2>1. Copied /\ tail = 1
    BY <1>t, <1>k, <1>1, <1>5, Zenon DEF end_op, Control, Active, Types
  <2>2. phase' \in {"idle", "done", "write_log"}
    BY <1>t, <1>k, <1>5, Zenon DEF end_op, Control, Active, Types
  <2>3. UNCHANGED <<home, logged, cache, lh, tail>>
    BY <1>5, Zenon DEF end_op, disk
  <2>4. QED
    BY <2>1, <2>2, <2>3 DEF Copied, Logged
<1>6. ASSUME NEW p \in Procs, end_op_done(p) PROVE Copied'
  <2>1. UNCHANGED <<home, logged, cache, lh>> /\ phase' = "idle" /\ Copied
    BY <1>1, <1>6, Zenon DEF end_op_done, disk
  <2>2. QED
    BY <2>1, Zenon DEF Copied, Logged
<1>7. CASE write_log
  <2>0. Copied /\ tail \in 1 .. Len(lh) /\ tail \in 1 .. LOGBLOCKS /\ Len(lh) \in Nat
    <3>1. Copied /\ phase = "write_log"
      BY <1>1, <1>7, Zenon DEF write_log
    <3>2. tail \in Nat \ {0} /\ Len(lh) \in Nat /\ Len(lh) <= LOGBLOCKS /\ LOGBLOCKS \in Nat
      BY <1>t, LogAssumption DEF Types
    <3>3. tail <= Len(lh)
      BY <1>k, <3>1, Zenon DEF Control
    <3>4. QED
      BY <3>1, <3>2, <3>3
  <2>1. UNCHANGED <<home, cache, lh>>
    BY <1>7, Zenon DEF write_log
  <2>2. CASE phase' = "panic"
    BY <2>0, <2>1, <2>2, Zenon DEF Copied, Logged
  <2>3. CASE logged' = bwrite(logged, tail, cache[lh[tail]]) /\ Loop("write_head")
    <3>1. \A i \in 1 .. tail - 1 : logged'[i] = cache[lh[i]]
      BY <1>t, <1>7, <2>0, <2>3 DEF write_log, Copied, bwrite, Types
    <3>2. half => logged'[tail] = cache[lh[tail]]
      BY <1>t, <2>0, <2>3, Zenon DEF bwrite, Types
    <3>3. CASE half /\ tail = Len(lh)
      <4>1. phase' = "write_head"
        BY <2>3, <3>3, Zenon DEF Loop
      <4>2. \A i \in 1 .. Len(lh) : logged'[i] = cache[lh[i]]
        BY <2>0, <3>1, <3>2, <3>3
      <4>3. QED
        BY <2>0, <2>1, <4>1, <4>2, Zenon DEF Copied, Logged
    <3>4. CASE ~(half /\ tail = Len(lh))
      <4>1. phase' = "write_log" /\ tail' = IF half THEN tail + 1 ELSE tail
        BY <1>7, <2>3, <3>4, Zenon DEF write_log, Loop
      <4>2. \A i \in 1 .. tail' - 1 : logged'[i] = cache[lh[i]]
        BY <2>0, <3>1, <3>2, <4>1
      <4>3. QED
        BY <2>0, <2>1, <4>1, <4>2, Zenon DEF Copied, Logged
    <3>5. QED
      BY <3>3, <3>4, Zenon
  <2>4. QED
    BY <1>7, <2>2, <2>3, Zenon DEF write_log
<1>8. CASE write_head
  <2>1. /\ UNCHANGED <<home, logged, cache, lh, tail>> /\ Copied /\ tail = 1
        /\ phase = "write_head" /\ phase' = "install"
    BY <1>k, <1>1, <1>8, Zenon DEF write_head, Control
  <2>2. QED
    BY <2>1 DEF Copied, Logged
<1>9. CASE install_trans
  <2>0. Copied /\ phase = "install" /\ tail \in 1 .. Len(lh) /\ lh[tail] \in Blocks
    BY <1>t, <1>k, <1>1, <1>9 DEF install_trans, Control, Types
  <2>1. /\ UNCHANGED <<logged, lh, up>>
        /\ home' = [home EXCEPT ![lh[tail]] = IF half THEN logged[tail] ELSE Torn]
        /\ cache' = [cache EXCEPT ![lh[tail]] = logged[tail]]
    BY <1>9, Zenon DEF install_trans, bwrite
  <2>2. \A b \in Blocks : ~Logged(b)' => cache'[b] = home'[b]
    BY <1>t, <1>0, <2>0, <2>1 DEF Copied, Types
  <2>3. \A i \in 1 .. tail - 1 : home'[lh[i]] = logged[i] /\ cache'[lh[i]] = logged[i]
    <3>0. /\ home \in [Blocks -> Contents] /\ cache \in [Blocks -> Contents]
          /\ lh \in Seq(Blocks)
      BY <1>t, Zenon DEF Types
    <3>1. ASSUME NEW i \in 1 .. tail - 1
          PROVE  home'[lh[i]] = logged[i] /\ cache'[lh[i]] = logged[i]
      <4>1. i \in 1 .. Len(lh) /\ i # tail /\ lh[i] \in Blocks
        BY <2>0, <3>0
      <4>2. lh[i] # lh[tail]
        BY <1>k, <2>0, <4>1, Zenon DEF Control, Distinct
      <4>3. home[lh[i]] = logged[i] /\ cache[lh[i]] = logged[i]
        BY <2>0, Zenon DEF Copied
      <4>4. home'[lh[i]] = home[lh[i]] /\ cache'[lh[i]] = cache[lh[i]]
        BY <2>1, <3>0, <4>1, <4>2, Zenon
      <4>5. QED
        BY <4>3, <4>4, Zenon
    <3>2. QED
      BY <3>1, Zenon
  <2>4. half => home'[lh[tail]] = logged[tail] /\ cache'[lh[tail]] = logged[tail]
    BY <1>t, <2>0, <2>1, Zenon DEF Types
  <2>5. up => \A i \in 1 .. Len(lh) : cache'[lh[i]] = logged[i]
    <3>1. cache \in [Blocks -> Contents] /\ lh \in Seq(Blocks)
      BY <1>t, Zenon DEF Types
    <3>2. ASSUME up, NEW i \in 1 .. Len(lh) PROVE cache'[lh[i]] = logged[i]
      <4>1. cache[lh[i]] = logged[i]
        BY <2>0, <3>2, Zenon DEF Copied
      <4>2. lh[i] \in Blocks
        BY <3>1
      <4>3. CASE lh[i] = lh[tail]
        BY <2>0, <2>1, <3>1, <3>2, <4>1, <4>3, Zenon DEF Copied
      <4>4. CASE lh[i] # lh[tail]
        BY <2>1, <3>1, <4>1, <4>2, <4>4, Zenon
      <4>5. QED
        BY <4>3, <4>4, Zenon
    <3>3. QED
      BY <3>2, Zenon
  <2>6. CASE half /\ tail = Len(lh)
    <3>1. /\ phase' = "erase"
          /\ \A i \in 1 .. Len(lh) : home'[lh[i]] = logged[i] /\ cache'[lh[i]] = logged[i]
      <4>1. phase' = "erase"
        BY <1>9, <2>6, Zenon DEF install_trans, Loop
      <4>2. \A i \in 1 .. Len(lh) : i \in 1 .. tail - 1 \/ i = tail
        BY <1>t, <2>0, <2>6 DEF Types
      <4>3. QED
        BY <2>3, <2>4, <2>6, <4>1, <4>2, Zenon
    <3>2. QED
      BY <2>1, <2>2, <3>1 DEF Copied
  <2>7. CASE ~(half /\ tail = Len(lh))
    <3>1. /\ phase' = "install"
          /\ \A i \in 1 .. tail' - 1 : home'[lh[i]] = logged[i] /\ cache'[lh[i]] = logged[i]
      <4>1. phase' = "install" /\ tail' = IF half THEN tail + 1 ELSE tail
        BY <1>9, <2>0, <2>7, Zenon DEF install_trans, Loop
      <4>2. \A i \in 1 .. tail' - 1 : i \in 1 .. tail - 1 \/ (half /\ i = tail)
        BY <1>t, <2>0, <4>1 DEF Types
      <4>3. QED
        BY <2>3, <2>4, <4>1, <4>2, Zenon
    <3>2. QED
      BY <2>1, <2>2, <2>5, <3>1 DEF Copied
  <2>8. QED
    BY <2>6, <2>7, Zenon
<1>10. CASE erase
  <2>1. /\ UNCHANGED <<home, logged, cache>> /\ Copied /\ phase = "erase"
        /\ phase' \in {"done", "idle"} /\ lh' = <<>>
    BY <1>1, <1>10, Zenon DEF erase
  <2>2. \A b \in Blocks : cache[b] = home[b]
    BY <1>0, <2>1 DEF Copied
  <2>3. QED
    BY <2>1, <2>2, Zenon DEF Copied
<1>11. CASE Crash
  BY <1>11, Zenon DEF Crash, disk, Copied
<1>12. CASE Recover
  <2>1. NoFull
    BY <1>k, <1>12, Zenon DEF Recover, Control, NoFull
  <2>2. /\ UNCHANGED <<home, logged, cache, up, tail>> /\ cache = home
        /\ tail = 1 /\ ~up /\ phase' \in {"erase", "install"}
        /\ phase' = "erase" => lh' = <<>>
    BY <1>k, <1>n, <1>12, <2>1, Zenon DEF Recover, disk, Copied, Control
  <2>3. QED
    BY <2>2 DEF Copied
<1>13. ASSUME NEW b \in Blocks, Recycle(b) PROVE Copied'
  <2>1. cache[b] = home[b]
    <3>1. up /\ pins[b] = 0 /\ Copied
      BY <1>1, <1>13, Zenon DEF Recycle
    <3>2. ~Pinned(b)
      BY <1>m, <3>1 DEF PinsMatch
    <3>3. CASE ~Logged(b)
      BY <3>1, <3>3, Zenon DEF Copied
    <3>4. CASE Logged(b) /\ phase = "erase"
      BY <1>0, <3>1, <3>4 DEF Copied
    <3>5. CASE Logged(b) /\ phase = "install"
      <4>1. PICK i \in 1 .. Len(lh) : lh[i] = b
        BY <1>0, <3>5, Zenon
      <4>2. i < tail
        BY <1>t, <3>2, <3>5, <4>1 DEF Pinned, Types
      <4>3. QED
        BY <1>t, <3>1, <3>5, <4>1, <4>2 DEF Copied, Types
    <3>6. QED
      BY <1>0, <3>2, <3>3, <3>4, <3>5, Zenon DEF Pinned
  <2>2. cache' = cache
    BY <1>t, <1>13, <2>1, Zenon DEF Recycle, Types
  <2>3. QED
    BY <1>1, <1>2, <1>13, <2>2, Zenon DEF Recycle, disk
<1>14. CASE UNCHANGED vars
  <2>1. Copied
    BY <1>n, <1>14, Zenon DEF vars, oplocals, NoFull
  <2>2. QED
    BY <1>2, <1>14, <2>1, Zenon DEF vars, disk
<1>15. QED
  BY <1>3, <1>4, <1>5, <1>6, <1>7, <1>8, <1>9, <1>10, <1>11, <1>12, <1>13, <1>14, Zenon DEF Next, Op, Commit

\* A file system that has just been made.
LEMMA InitInv ==
  ASSUME Init
  PROVE  IInv
<1> USE LogAssumption DEF Init
<1>1. Types
  <2>1. wrote \in [Procs -> SUBSET Blocks] /\ pc \in [Procs -> Pcs]
    BY Zenon DEF Pcs
  <2>2. /\ home \in [Blocks -> Contents] /\ cache \in [Blocks -> Contents]
        /\ logged \in [1 .. LOGBLOCKS -> Contents] /\ pins \in [Blocks -> Int]
    BY DEF Contents
  <2>3. lh \in Seq(Blocks) /\ head \in Seq(Blocks) /\ Len(lh) = 0 /\ Len(head) = 0
    OBVIOUS
  <2>4. phase \in Phases
    BY Zenon DEF Phases
  <2>5. committing \in BOOLEAN /\ half \in BOOLEAN /\ up \in BOOLEAN
    BY Zenon
  <2>6. QED
    BY <2>1, <2>2, <2>3, <2>4, <2>5 DEF Types
<1>2. Active = {} /\ Reserved = {}
  BY Zenon DEF Active, Reserved
<1>3. Counted
  BY <1>2, FS_EmptySet, Zenon DEF Counted
<1>4. Control
  BY <1>2 DEF Control, Distinct
<1>5. PinsMatch
  BY DEF PinsMatch, Pinned
<1>6. Fresh /\ SleepersMustWait
  BY Zenon DEF Fresh, SleepersMustWait
<1>7. Room
  BY <1>2, FS_EmptySet DEF Room
<1>8. Copied
  BY Zenon DEF Copied, Logged
<1>9. QED
  BY <1>1, <1>3, <1>4, <1>5, <1>6, <1>7, <1>8, Zenon DEF IInv

LEMMA InvStep ==
  ASSUME IInv, [Next]_vars
  PROVE  IInv'
<1>1. Types' /\ Counted' /\ Fresh'
  BY TypesStep, CountedStep, FreshStep, Zenon
<1>2. Control'
  BY <1>1, ControlStep, Zenon
<1>3. PinsMatch' /\ Room' /\ SleepersMustWait'
  BY <1>1, <1>2, PinsStep, RoomStep, SleepStep, Zenon
<1>4. NoFull' => Copied'
  BY <1>1, <1>2, CopiedStep, Zenon
<1>5. QED
  BY <1>1, <1>2, <1>3, <1>4, Zenon DEF IInv

\* The inductive invariant holds: counts, control, pins, reservations, and
\* what commit() and recovery have copied.
THEOREM Invariance == Spec => []IInv
<1>1. Init => IInv
  BY InitInv, Zenon
<1>2. IInv /\ [Next]_vars => IInv'
  BY InvStep, Zenon
<1>3. QED
  BY <1>1, <1>2, PTL DEF Spec

\* begin_op() reserves enough: an operation that has written fewer than
\* MAXOPBLOCKS blocks does not meet the panic of log_write().
THEOREM ReservationHolds == Spec => []RoomReserved
<1>1. IInv => RoomReserved
  <2> SUFFICES ASSUME IInv, NEW p \in Procs, pc[p] = "in",
                      Cardinality(wrote[p]) < MAXOPBLOCKS
               PROVE  Len(lh) < LOGBLOCKS
    BY Zenon DEF RoomReserved
  <2>1. wrote[p] \in SUBSET Blocks /\ Len(lh) \in Nat
    BY DEF IInv, Types
  <2>2. Cardinality(wrote[p]) \in Nat
    BY <2>1, LogAssumption, FS_Subset, FS_CardinalityType, Zenon
  <2>3. <<p, MAXOPBLOCKS>> \in Reserved
    BY <2>2, LogAssumption DEF Reserved
  <2>4. Cardinality(Reserved) # 0 /\ Cardinality(Reserved) \in Nat
    BY <2>3, ReservedFinite, FS_EmptySet, Zenon
  <2>5. QED
    BY <2>1, <2>4, LogAssumption DEF IInv, Room
<1>2. QED
  BY <1>1, Invariance, PTL

\* Nobody sleeps in begin_op() when there is room and no commit: end_op() and
\* the end of commit() wake those who could go on.
THEOREM NoSleeperForgotten == Spec => []SleepersMustWait
<1>1. IInv => SleepersMustWait
  BY Zenon DEF IInv
<1>2. QED
  BY <1>1, Invariance, PTL

-----------------------------------------------------------------------------
(* The log is an AtomicDisk *)

\* What recovery makes of header h, log blocks l and blocks m.
Recovered(h, l, m) ==
  [b \in Blocks |-> IF \E i \in DOMAIN h : h[i] = b
                    THEN l[CHOOSE i \in DOMAIN h : h[i] = b]
                    ELSE m[b]]

\* It takes from the log the blocks that the header names, once each.
LEMMA RecoveredIs ==
  ASSUME NEW h \in Seq(Blocks), Distinct(h), NEW l, NEW m
  PROVE  /\ \A i \in 1 .. Len(h) : Recovered(h, l, m)[h[i]] = l[i]
         /\ \A b \in Blocks :
              (\A i \in 1 .. Len(h) : h[i] # b) => Recovered(h, l, m)[b] = m[b]
<1>1. DOMAIN h = 1 .. Len(h) /\ \A i \in 1 .. Len(h) : h[i] \in Blocks
  OBVIOUS
<1>2. ASSUME NEW i \in 1 .. Len(h) PROVE Recovered(h, l, m)[h[i]] = l[i]
  <2>1. \E j \in DOMAIN h : h[j] = h[i]
    BY <1>1, Zenon
  <2>2. (CHOOSE j \in DOMAIN h : h[j] = h[i]) = i
    BY <1>1, Zenon DEF Distinct
  <2>3. Recovered(h, l, m)[h[i]] = l[CHOOSE j \in DOMAIN h : h[j] = h[i]]
    BY <1>1, <2>1, Zenon DEF Recovered
  <2>4. QED
    BY <2>2, <2>3, Zenon
<1>3. ASSUME NEW b \in Blocks, \A i \in 1 .. Len(h) : h[i] # b
      PROVE  Recovered(h, l, m)[b] = m[b]
  BY <1>1, <1>3, Zenon DEF Recovered
<1>4. QED
  BY <1>2, <1>3, Zenon

\* The machine as AtomicDisk sees it.
Mem == IF up THEN cache ELSE Durable

\* The buffer of a block that is not pinned has what is on the disk.
LEMMA RecycleSame ==
  ASSUME IInv, NEW b \in Blocks, Recycle(b)
  PROVE  cache' = cache
<1>1. up /\ pins[b] = 0 /\ Copied
  BY Zenon DEF Recycle, Halted, NoFull, IInv
<1>2. ~Pinned(b)
  BY <1>1 DEF IInv, PinsMatch
<1>3. Logged(b) <=> \E i \in 1 .. Len(lh) : lh[i] = b
  BY LoggedIs, Zenon DEF IInv
<1>4. cache[b] = home[b]
  <2>1. CASE ~Logged(b)
    BY <1>1, <2>1, Zenon DEF Copied
  <2>2. CASE Logged(b) /\ phase = "erase"
    BY <1>1, <1>3, <2>2 DEF Copied
  <2>3. CASE Logged(b) /\ phase = "install"
    <3>1. PICK i \in 1 .. Len(lh) : lh[i] = b
      BY <1>3, <2>3, Zenon
    <3>2. i < tail
      BY <1>2, <2>3, <3>1 DEF Pinned, IInv, Types
    <3>3. QED
      BY <1>1, <2>3, <3>1, <3>2 DEF Copied, IInv, Types
  <2>4. QED
    BY <1>2, <1>3, <2>1, <2>2, <2>3, Zenon DEF Pinned
<1>5. QED
  BY <1>4, Zenon DEF Recycle, IInv, Types

LEMMA RecoveredLog ==
  ASSUME lh \in Seq(Blocks), Distinct(lh), NEW d, d = Recovered(lh, logged, home)
  PROVE  /\ \A i \in 1 .. Len(lh) : d[lh[i]] = logged[i]
         /\ \A b \in Blocks : (\A i \in 1 .. Len(lh) : lh[i] # b) => d[b] = home[b]
<1>1. /\ \A i \in 1 .. Len(lh) : Recovered(lh, logged, home)[lh[i]] = logged[i]
      /\ \A b \in Blocks :
           (\A i \in 1 .. Len(lh) : lh[i] # b) => Recovered(lh, logged, home)[b] = home[b]
  BY RecoveredIs
<1>2. QED
  BY <1>1, Zenon

\* Every step is one of AtomicDisk or changes nothing it sees: begin_op() and
\* end_op() begin and end, log_write() writes, write_head() commits, and the
\* rest of commit() and of recovery is invisible.
LEMMA AtomicStep ==
  ASSUME IInv, IInv', [Next]_vars
  PROVE  [Abstract!Next]_(Abstract!vars)
<1>t. Types
  BY Zenon DEF IInv
<1>k. Control
  BY Zenon DEF IInv
<1>n. NoFull => Copied
  BY Zenon DEF IInv
<1>0. ASSUME UNCHANGED <<Mem, Durable, Active>> PROVE UNCHANGED Abstract!vars
  BY <1>0, Zenon DEF Abstract!vars, Mem, Active
<1>d. ASSUME UNCHANGED disk PROVE Durable' = Durable
  BY <1>d, Zenon DEF Durable, disk
<1>r. Durable = Recovered(head, logged, home) /\ Durable' = Recovered(head', logged', home')
  BY Zenon  DEF Durable, Recovered
<1>c. ASSUME ~Halted PROVE Copied
  BY <1>n, <1>c, Zenon DEF Halted, NoFull
<1>1. ASSUME NEW p \in Procs, Call(p) PROVE UNCHANGED Abstract!vars
  <2>1. Active' = Active
    BY <1>t, <1>1, Zenon DEF Call, Active, Types
  <2>2. QED
    BY <1>0, <1>1, <1>d, <2>1, Zenon DEF Call, Mem
<1>2. ASSUME NEW p \in Procs, begin_op(p) PROVE [Abstract!Next]_(Abstract!vars)
  <2>1. UNCHANGED <<Mem, Durable>>
    BY <1>2, <1>d, Zenon DEF begin_op, Mem
  <2>2. CASE pc' = [pc EXCEPT ![p] = "asleep"]
    <3>1. Active' = Active
      BY <1>t, <1>2, <2>2, Zenon DEF begin_op, Active, Types
    <3>2. QED
      BY <1>0, <2>1, <3>1, Zenon
  <2>3. CASE pc' = [pc EXCEPT ![p] = "in"]
    <3>1. Active' = Active \cup {p} /\ p \notin Active
      BY <1>t, <1>2, <2>3, Zenon DEF begin_op, Active, Types
    <3>2. Abstract!Begin(p)
      BY <2>1, <3>1, Zenon DEF Abstract!Begin, Mem, Active
    <3>3. QED
      BY <3>2, Zenon DEF Abstract!Next
  <2>4. QED
    BY <1>2, <2>2, <2>3, Zenon DEF begin_op
<1>3. ASSUME NEW p \in Procs, NEW b \in Blocks, NEW v \in Vals, log_write(p, b, v)
      PROVE  [Abstract!Next]_(Abstract!vars)
  <2>1. up /\ up' /\ p \in Active
    BY <1>t, <1>k, <1>3, Zenon DEF log_write, Active, Control, Types
  <2>2. Active' = Active
    BY <1>t, <1>3, Zenon DEF log_write, Active, Types
  <2>3. Durable' = Durable
    BY <1>3, <1>d, Zenon DEF log_write
  <2>4. Mem' = [Mem EXCEPT ![b] = v]
    BY <1>3, <2>1, Zenon DEF log_write, Mem
  <2>5. Abstract!Write(p, b, v)
    BY <2>1, <2>2, <2>3, <2>4, Zenon DEF Abstract!Write, Mem, Active
  <2>6. QED
    BY <2>5, Zenon DEF Abstract!Next
<1>4. ASSUME NEW p \in Procs, end_op(p) PROVE [Abstract!Next]_(Abstract!vars)
  <2>1. UNCHANGED <<Mem, Durable>>
    BY <1>4, <1>d, Zenon DEF end_op, Mem
  <2>2. Active' = Active \ {p} /\ p \in Active
    BY <1>t, <1>4, Zenon DEF end_op, Active, wakeup, Types
  <2>3. Abstract!End(p)
    BY <2>1, <2>2, Zenon DEF Abstract!End, Mem, Active
  <2>4. QED
    BY <2>3, Zenon DEF Abstract!Next
<1>5. ASSUME NEW p \in Procs, end_op_done(p) PROVE UNCHANGED Abstract!vars
  <2>1. Active' = Active
    BY <1>t, <1>5, Zenon DEF end_op_done, Active, wakeup, Types
  <2>2. QED
    BY <1>0, <1>5, <1>d, <2>1, Zenon DEF end_op_done, Mem
<1>6. CASE write_log
  <2>1. head = <<>> /\ UNCHANGED <<head, home, cache, up>> /\ Active' = Active
    BY <1>k, <1>6, Zenon DEF write_log, oplocals, Active, Control
  <2>2. Durable' = Durable
    BY <2>1 DEF Durable
  <2>3. QED
    BY <1>0, <2>1, <2>2, Zenon DEF Mem
<1>7. CASE write_head
  <2>1. /\ up /\ Active = {} /\ Copied /\ phase = "write_head"
        /\ head' = lh /\ UNCHANGED <<logged, home, cache, up, lh>> /\ Active' = Active
    BY <1>k, <1>7, <1>c, Zenon DEF write_head, oplocals, Active, Control
  <2>2. lh \in Seq(Blocks) /\ Distinct(lh) /\ cache \in [Blocks -> Contents]
    BY <1>t, <1>k, Zenon DEF Types, Control
  <2>3. \A b \in Blocks : Durable'[b] = cache[b]
    <3>0. Durable' = Recovered(lh, logged, home)
      BY <1>r, <2>1, Zenon
    <3>1. /\ \A i \in 1 .. Len(lh) : Durable'[lh[i]] = logged[i]
          /\ \A b \in Blocks : (\A i \in 1 .. Len(lh) : lh[i] # b) => Durable'[b] = home[b]
      BY <2>2, <3>0, RecoveredLog, Zenon
    <3>2. \A b \in Blocks : Logged(b) <=> \E i \in 1 .. Len(lh) : lh[i] = b
      BY <1>t, LoggedIs, Zenon
    <3>3. /\ \A i \in 1 .. Len(lh) : logged[i] = cache[lh[i]]
          /\ \A b \in Blocks : ~Logged(b) => cache[b] = home[b]
      BY <2>1, Zenon DEF Copied
    <3>4. ASSUME NEW b \in Blocks PROVE Durable'[b] = cache[b]
      <4>1. CASE \E i \in 1 .. Len(lh) : lh[i] = b
        <5>1. PICK i \in 1 .. Len(lh) : lh[i] = b
          BY <4>1, Zenon
        <5>2. Durable'[lh[i]] = logged[i] /\ logged[i] = cache[lh[i]]
          BY <3>1, <3>3, Zenon
        <5>3. QED
          BY <5>1, <5>2, Zenon
      <4>2. CASE ~\E i \in 1 .. Len(lh) : lh[i] = b
        BY <3>1, <3>2, <3>3, <4>2, Zenon
      <4>3. QED
        BY <4>1, <4>2, Zenon
    <3>5. QED
      BY <3>4, Zenon
  <2>4. Durable' = cache
    BY <2>2, <2>3, Zenon DEF Durable
  <2>5. Abstract!Commit
    BY <2>1, <2>4, Zenon DEF Abstract!Commit, Active
  <2>6. QED
    BY <2>5, Zenon DEF Abstract!Next
<1>8. CASE install_trans
  <2>1. /\ Copied /\ phase = "install" /\ head = lh /\ UNCHANGED <<head, logged, up>>
        /\ Active' = Active
    BY <1>k, <1>8, <1>c, Zenon DEF install_trans, oplocals, Active, Control
  <2>2. /\ lh \in Seq(Blocks) /\ Distinct(lh) /\ tail \in 1 .. Len(lh) /\ lh[tail] \in Blocks
        /\ home \in [Blocks -> Contents] /\ cache \in [Blocks -> Contents]
    BY <1>t, <1>k, <2>1 DEF Types, Control
  <2>3. Durable' = Durable
    <3>1. \A b \in Blocks : b # lh[tail] => home'[b] = home[b]
      BY <1>8, <2>2, Zenon DEF install_trans, bwrite
    <3>2. \E i \in DOMAIN head : head[i] = lh[tail]
      BY <2>1, <2>2
    <3>3. QED
      BY <2>1, <3>1, <3>2, Zenon DEF Durable
  <2>4. up => cache' = cache
    <3>1. cache' = [cache EXCEPT ![lh[tail]] = logged[tail]]
      BY <1>8, Zenon DEF install_trans
    <3>2. up => cache[lh[tail]] = logged[tail]
      BY <2>1, <2>2, Zenon DEF Copied
    <3>3. QED
      BY <2>2, <3>1, <3>2, Zenon
  <2>5. QED
    BY <1>0, <2>1, <2>3, <2>4, Zenon DEF Mem
<1>9. CASE erase
  <2>1. /\ Copied /\ phase = "erase" /\ head = lh /\ head' = <<>> /\ up'
        /\ UNCHANGED <<logged, home, cache>> /\ Active' = Active
    BY <1>k, <1>9, <1>c, Zenon DEF erase, oplocals, Active, Control
  <2>2. /\ lh \in Seq(Blocks) /\ Distinct(lh)
        /\ home \in [Blocks -> Contents] /\ cache \in [Blocks -> Contents]
    BY <1>t, <1>k, Zenon DEF Types, Control
  <2>3. /\ \A i \in 1 .. Len(lh) : Durable[lh[i]] = logged[i]
        /\ \A b \in Blocks : (\A i \in 1 .. Len(lh) : lh[i] # b) => Durable[b] = home[b]
    <3>1. Durable = Recovered(lh, logged, home)
      BY <1>r, <2>1, Zenon
    <3>2. QED
      BY <2>2, <3>1, RecoveredLog, Zenon
  <2>4. \A b \in Blocks : Durable[b] = home[b] /\ cache[b] = home[b]
    <3>1. \A b \in Blocks : Logged(b) <=> \E i \in 1 .. Len(lh) : lh[i] = b
      BY <1>t, LoggedIs, Zenon
    <3>2. /\ \A i \in 1 .. Len(lh) : home[lh[i]] = logged[i] /\ cache[lh[i]] = logged[i]
          /\ \A b \in Blocks : ~Logged(b) => cache[b] = home[b]
      BY <2>1, Zenon DEF Copied
    <3>3. ASSUME NEW b \in Blocks PROVE Durable[b] = home[b] /\ cache[b] = home[b]
      <4>1. CASE \E i \in 1 .. Len(lh) : lh[i] = b
        <5>1. PICK i \in 1 .. Len(lh) : lh[i] = b
          BY <4>1, Zenon
        <5>2. Durable[lh[i]] = logged[i] /\ home[lh[i]] = logged[i] /\ cache[lh[i]] = logged[i]
          BY <2>3, <3>2, Zenon
        <5>3. QED
          BY <5>1, <5>2, Zenon
      <4>2. CASE ~\E i \in 1 .. Len(lh) : lh[i] = b
        BY <2>3, <3>1, <3>2, <4>2, Zenon
      <4>3. QED
        BY <4>1, <4>2, Zenon
    <3>4. QED
      BY <3>3, Zenon
  <2>5. Durable = home /\ cache = home
    <3>1. cache = home
      BY <2>2, <2>4
    <3>2. Durable = [b \in Blocks |-> Durable[b]]
      BY Zenon DEF Durable
    <3>3. home = [b \in Blocks |-> home[b]]
      BY <2>2, Zenon
    <3>4. QED
      BY <2>4, <3>1, <3>2, <3>3, Zenon
  <2>6. Durable' = home
    BY <2>1, <2>2 DEF Durable
  <2>7. QED
    BY <1>0, <2>1, <2>5, <2>6, Zenon DEF Mem
<1>10. CASE Crash
  <2>1. Durable' = Durable /\ ~up' /\ Active' = {}
    BY <1>10, <1>d, Zenon DEF Crash, Active
  <2>2. Abstract!Crash
    BY <2>1, Zenon DEF Abstract!Crash, Active
  <2>3. QED
    BY <2>2, Zenon DEF Abstract!Next
<1>11. CASE Recover
  <2>1. Active' = Active
    BY <1>11, Zenon DEF Recover, oplocals, Active
  <2>2. QED
    BY <1>0, <1>11, <1>d, <2>1, Zenon DEF Recover, Mem
<1>12. ASSUME NEW b \in Blocks, Recycle(b) PROVE UNCHANGED Abstract!vars
  <2>1. Active' = Active
    BY <1>12, Zenon DEF Recycle, oplocals, Active
  <2>2. cache' = cache
    BY <1>12, RecycleSame, Zenon
  <2>3. QED
    BY <1>0, <1>12, <1>d, <2>1, <2>2, Zenon DEF Recycle, Mem
<1>13. CASE UNCHANGED vars
  <2>1. Active' = Active
    BY <1>13, Zenon DEF vars, oplocals, Active
  <2>2. QED
    BY <1>0, <1>13, <1>d, <2>1, Zenon DEF vars, Mem
<1>14. QED
  BY <1>1, <1>2, <1>3, <1>4, <1>5, <1>6, <1>7, <1>8, <1>9, <1>10, <1>11, <1>12,
     <1>13, Zenon DEF Next, Op, Commit

\* The log implements AtomicDisk: whatever the moment of a crash, in commit()
\* or in recovery, an operation is on the disk as a whole or not at all.
THEOREM LogIsAtomic == Spec => Atomic
<1>1. Init => Abstract!Init
  <2> SUFFICES ASSUME Init PROVE Abstract!Init
    OBVIOUS
  <2>1. Durable = cache /\ Active = {}
    BY DEF Init, Durable, Active
  <2>2. QED
    BY <2>1, Zenon DEF Init, Abstract!Init, Active
<1>2. IInv /\ IInv' /\ [Next]_vars => [Abstract!Next]_(Abstract!vars)
  BY AtomicStep, Zenon
<1>3. QED
  BY <1>1, <1>2, Invariance, PTL DEF Spec, Atomic, Abstract!Spec
=============================================================================
