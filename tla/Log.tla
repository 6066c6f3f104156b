-------------------------------- MODULE Log ---------------------------------
(***************************************************************************)
(* The redo log of kernel/log.c: begin_op, log_write, end_op with commit,  *)
(* and recovery after a crash at any step.                                 *)
(*                                                                         *)
(* A system call that holds log.lock is one step.  commit() and recovery   *)
(* run without it, one disk write after the other.  A block is two sectors *)
(* long, so a crash can leave one half written: every block write passes   *)
(* through Torn.  The header fits in one sector and is written at once.    *)
(*                                                                         *)
(* Only one thread at a time is in commit() (log.committing) or in         *)
(* recovery, so phase and tail are single variables.  cache is what bread  *)
(* returns; a buffer nobody holds can be recycled and read again (Recycle),*)
(* unless log_write() has pinned it.                                       *)
(***************************************************************************)
EXTENDS Integers, Sequences, FiniteSets

CONSTANTS Procs, Blocks, Vals, InitVal,
          Torn,          \* a block of which one sector is old and one new
          MAXOPBLOCKS,   \* blocks an operation may write
          LOGBLOCKS,     \* data blocks of the log
          NBUF           \* buffers of the buffer cache

ASSUME LogAssumption ==
  /\ IsFiniteSet(Procs) /\ IsFiniteSet(Blocks)
  /\ InitVal \in Vals /\ Torn \notin Vals
  /\ MAXOPBLOCKS \in Nat \ {0} /\ LOGBLOCKS \in Nat /\ NBUF \in Nat
  /\ MAXOPBLOCKS <= LOGBLOCKS

VARIABLES
  home, logged, head,        \* the disk: blocks, log blocks, log header
  cache, pins,               \* the buffer cache
  lh, outstanding, committing, \* struct log; lh.n is Len(lh)
  phase, tail, half,         \* the thread in commit() or in recovery
  up,                        \* initlog() has returned
  pc,                        \* out, begin, asleep, in, commit, panic
  wrote                      \* blocks the current operation has written

disk == <<home, logged, head>>
oplocals == <<pc, wrote>>
vars == <<disk, cache, pins, lh, outstanding, committing, phase, tail, half,
          up, oplocals>>

\* A new file system, after initlog().
Init ==
  /\ home = [b \in Blocks |-> InitVal]
  /\ logged = [i \in 1 .. LOGBLOCKS |-> InitVal]
  /\ head = <<>>
  /\ cache = home
  /\ pins = [b \in Blocks |-> 0]
  /\ lh = <<>>
  /\ outstanding = 0
  /\ committing = FALSE
  /\ phase = "idle"
  /\ tail = 1
  /\ half = FALSE
  /\ up = TRUE
  /\ pc = [p \in Procs |-> "out"]
  /\ wrote = [p \in Procs |-> {}]

Logged(b) == \E i \in DOMAIN lh : lh[i] = b

\* wakeup(&log)
wakeup(f) == [p \in Procs |-> IF f[p] = "asleep" THEN "begin" ELSE f[p]]

\* A panic() stops the machine until it is started again.
Halted == phase = "panic" \/ \E p \in Procs : pc[p] = "panic"

-----------------------------------------------------------------------------
(* begin_op(), log_write() and end_op() *)

\* A process enters a system call of the file system.
Call(p) ==
  /\ up /\ ~Halted /\ pc[p] = "out"
  /\ pc' = [pc EXCEPT ![p] = "begin"]
  /\ UNCHANGED <<disk, cache, pins, lh, outstanding, committing, phase, tail,
                 half, up, wrote>>

\* Mutant of begin_op: the reservations of the running operations are not
\* counted.
begin_opNoReserve(p) ==
  /\ up /\ ~Halted /\ pc[p] = "begin"
  /\ IF committing \/ Len(lh) + MAXOPBLOCKS > LOGBLOCKS
     THEN /\ pc' = [pc EXCEPT ![p] = "asleep"]
          /\ UNCHANGED outstanding
     ELSE /\ pc' = [pc EXCEPT ![p] = "in"]
          /\ outstanding' = outstanding + 1
  /\ UNCHANGED <<disk, cache, pins, lh, committing, phase, tail, half, up, wrote>>

\* One round of begin_op()'s loop; sleep(&log, &log.lock) loses no wakeup
\* (module Proc).
begin_op(p) ==
  /\ up /\ ~Halted /\ pc[p] = "begin"
  /\ IF committing \/ Len(lh) + (outstanding + 1) * MAXOPBLOCKS > LOGBLOCKS
     THEN /\ pc' = [pc EXCEPT ![p] = "asleep"]
          /\ UNCHANGED outstanding
     ELSE /\ pc' = [pc EXCEPT ![p] = "in"]
          /\ outstanding' = outstanding + 1
  /\ UNCHANGED <<disk, cache, pins, lh, committing, phase, tail, half, up, wrote>>

\* The caller changes a block it has locked and calls log_write(); an
\* operation writes no more blocks than it has reserved.
log_write(p, b, v) ==
  /\ ~Halted /\ pc[p] = "in"
  /\ Cardinality(wrote[p] \cup {b}) <= MAXOPBLOCKS
  /\ cache' = [cache EXCEPT ![b] = v]
  /\ IF Len(lh) >= LOGBLOCKS
     THEN /\ pc' = [pc EXCEPT ![p] = "panic"]
          /\ UNCHANGED <<lh, pins, wrote>>
     ELSE /\ lh' = IF Logged(b) THEN lh ELSE Append(lh, b)
          /\ pins' = [pins EXCEPT ![b] = IF Logged(b) THEN @ ELSE @ + 1]
          /\ wrote' = [wrote EXCEPT ![p] = @ \cup {b}]
          /\ UNCHANGED pc
  /\ UNCHANGED <<disk, outstanding, committing, phase, tail, half, up>>

\* end_op() up to its release(&log.lock); the last operation calls commit().
end_op(p) ==
  /\ ~Halted /\ pc[p] = "in"
  /\ outstanding' = outstanding - 1
  /\ wrote' = [wrote EXCEPT ![p] = {}]
  /\ IF outstanding = 1
     THEN /\ committing' = TRUE
          /\ phase' = IF lh = <<>> THEN "done" ELSE "write_log"
          /\ pc' = [pc EXCEPT ![p] = "commit"]
     ELSE /\ pc' = wakeup([pc EXCEPT ![p] = "out"])
          /\ UNCHANGED <<committing, phase>>
  /\ UNCHANGED <<disk, cache, pins, lh, tail, half, up>>

\* Mutant of end_op_done: the sleepers are not woken after a commit.
end_op_doneSilent(p) ==
  /\ ~Halted /\ pc[p] = "commit" /\ phase = "done"
  /\ committing' = FALSE
  /\ phase' = "idle"
  /\ pc' = [pc EXCEPT ![p] = "out"]
  /\ UNCHANGED <<disk, cache, pins, lh, outstanding, tail, half, up, wrote>>

\* The end of end_op() after commit().
end_op_done(p) ==
  /\ ~Halted /\ pc[p] = "commit" /\ phase = "done"
  /\ committing' = FALSE
  /\ phase' = "idle"
  /\ pc' = wakeup([pc EXCEPT ![p] = "out"])
  /\ UNCHANGED <<disk, cache, pins, lh, outstanding, tail, half, up, wrote>>

-----------------------------------------------------------------------------
(* commit(): write_log(), write_head(), install_trans(), write_head() *)

\* bwrite() of one block, in two steps: f' is f with f[i] Torn, then v.
bwrite(f, i, v) == [f EXCEPT ![i] = IF half THEN v ELSE Torn]

\* The loop variable after a step of a loop over lh that goes on at next.
Loop(next) ==
  /\ half' = ~half
  /\ IF half /\ tail = Len(lh)
     THEN tail' = 1 /\ phase' = next
     ELSE tail' = (IF half THEN tail + 1 ELSE tail) /\ UNCHANGED phase

\* bread() of the log block takes a buffer that is not pinned.
write_log ==
  /\ ~Halted /\ phase = "write_log"
  /\ IF Cardinality({b \in Blocks : pins[b] > 0}) >= NBUF
     THEN /\ phase' = "panic"
          /\ UNCHANGED <<logged, tail, half>>
     ELSE /\ logged' = bwrite(logged, tail, cache[lh[tail]])
          /\ Loop("write_head")
  /\ UNCHANGED <<home, head, cache, pins, lh, outstanding, committing, up,
                 oplocals>>

\* Mutant of write_head: the header is not written before the blocks are
\* installed.
write_headSkipped ==
  /\ ~Halted /\ phase = "write_head"
  /\ phase' = "install"
  /\ UNCHANGED <<disk, cache, pins, lh, outstanding, committing, tail, half, up,
                 oplocals>>

\* "the true point at which the current transaction commits"
write_head ==
  /\ ~Halted /\ phase = "write_head"
  /\ head' = lh
  /\ phase' = "install"
  /\ UNCHANGED <<home, logged, cache, pins, lh, outstanding, committing, tail,
                 half, up, oplocals>>

\* install_trans(recovering), where recovering is ~up.
install_trans ==
  /\ ~Halted /\ phase = "install"
  /\ home' = bwrite(home, lh[tail], logged[tail])
  /\ cache' = [cache EXCEPT ![lh[tail]] = logged[tail]]
  /\ pins' = IF up /\ half THEN [pins EXCEPT ![lh[tail]] = @ - 1] ELSE pins
  /\ Loop("erase")
  /\ UNCHANGED <<logged, head, lh, outstanding, committing, up, oplocals>>

\* log.lh.n = 0; write_head(), in commit() and in recover_from_log().
erase ==
  /\ ~Halted /\ phase = "erase"
  /\ lh' = <<>>
  /\ head' = <<>>
  /\ up' = TRUE
  /\ phase' = IF up THEN "done" ELSE "idle"
  /\ UNCHANGED <<home, logged, cache, pins, outstanding, committing, tail, half,
                 oplocals>>

-----------------------------------------------------------------------------
(* Crash and recovery *)

\* The machine stops and starts again: what is in memory is lost.
Crash ==
  /\ lh' = <<>> /\ outstanding' = 0 /\ committing' = FALSE
  /\ cache' = home /\ pins' = [b \in Blocks |-> 0]
  /\ phase' = "read_head" /\ tail' = 1 /\ half' = FALSE /\ up' = FALSE
  /\ pc' = [p \in Procs |-> "out"] /\ wrote' = [p \in Procs |-> {}]
  /\ UNCHANGED disk

\* recover_from_log(): read_head(), then install_trans(1) if there is anything
\* in the log.
Recover ==
  /\ ~up /\ phase = "read_head"
  /\ lh' = head
  /\ phase' = IF head = <<>> THEN "erase" ELSE "install"
  /\ UNCHANGED <<disk, cache, pins, outstanding, committing, tail, half, up,
                 oplocals>>

\* bget() recycles the buffer of a block that is not pinned; the next bread()
\* gets it from the disk.  install_trans() holds the buffer it is writing.
Recycle(b) ==
  /\ up /\ ~Halted
  /\ pins[b] = 0
  /\ ~(phase = "install" /\ lh[tail] = b)
  /\ cache' = [cache EXCEPT ![b] = home[b]]
  /\ UNCHANGED <<disk, pins, lh, outstanding, committing, phase, tail, half, up,
                 oplocals>>

-----------------------------------------------------------------------------
Commit == write_log \/ write_head \/ install_trans \/ erase \/ Recover

Op(p) == begin_op(p) \/ end_op(p) \/ end_op_done(p)

Next ==
  \/ Commit \/ Crash
  \/ \E p \in Procs : Call(p) \/ Op(p)
  \/ \E p \in Procs, b \in Blocks, v \in Vals : log_write(p, b, v)
  \/ \E b \in Blocks : Recycle(b)

Spec == Init /\ [][Next]_vars

-----------------------------------------------------------------------------
(* Properties *)

\* The blocks as a crash now would leave them, after recovery.
Durable ==
  [b \in Blocks |-> IF \E i \in DOMAIN head : head[i] = b
                    THEN logged[CHOOSE i \in DOMAIN head : head[i] = b]
                    ELSE home[b]]

Abstract == INSTANCE AtomicDisk WITH
  mem <- IF up THEN cache ELSE Durable,
  stable <- Durable,
  active <- {p \in Procs : pc[p] \in {"in", "panic"}}

\* Whatever the moment of a crash, and of further crashes during recovery, the
\* operations that end_op() has committed are on the disk as a whole and the
\* others not at all.
Atomic == Abstract!Spec

\* begin_op() has reserved enough: an operation that has not yet written its
\* MAXOPBLOCKS blocks finds room in the log for another one.
RoomReserved ==
  \A p \in Procs :
    (pc[p] = "in" /\ Cardinality(wrote[p]) < MAXOPBLOCKS) => Len(lh) < LOGBLOCKS

\* No wakeup is lost: a process sleeps in begin_op() only while it would have
\* to go back to sleep.
SleepersMustWait ==
  \A p \in Procs :
    pc[p] = "asleep" =>
      committing \/ Len(lh) + (outstanding + 1) * MAXOPBLOCKS > LOGBLOCKS
=============================================================================
