----------------------------- MODULE AtomicDisk -----------------------------
(***************************************************************************)
(* What kernel/log.c promises the file system: the writes of an operation  *)
(* reach the disk all together or not at all.  Operations work on mem; at  *)
(* moments when none is active the whole of mem becomes stable at once,    *)
(* and a crash throws mem away.                                            *)
(***************************************************************************)
CONSTANTS Procs, Blocks, Vals, InitVal

VARIABLES mem,      \* the blocks as the running system sees them
          stable,   \* the blocks as they are after a crash
          active    \* processes between begin_op() and end_op()

vars == <<mem, stable, active>>

Init ==
  /\ mem = [b \in Blocks |-> InitVal]
  /\ stable = mem
  /\ active = {}

Begin(p) ==
  /\ p \notin active
  /\ active' = active \cup {p}
  /\ UNCHANGED <<mem, stable>>

Write(p, b, v) ==
  /\ p \in active
  /\ mem' = [mem EXCEPT ![b] = v]
  /\ UNCHANGED <<stable, active>>

End(p) ==
  /\ p \in active
  /\ active' = active \ {p}
  /\ UNCHANGED <<mem, stable>>

Commit ==
  /\ active = {}
  /\ stable' = mem
  /\ UNCHANGED <<mem, active>>

Crash ==
  /\ mem' = stable
  /\ active' = {}
  /\ UNCHANGED stable

Next ==
  \/ Commit \/ Crash
  \/ \E p \in Procs : Begin(p) \/ End(p)
  \/ \E p \in Procs, b \in Blocks, v \in Vals : Write(p, b, v)

Spec == Init /\ [][Next]_vars
=============================================================================
