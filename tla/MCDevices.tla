----------------------------- MODULE MCDevices ------------------------------
(***************************************************************************)
(* Two of the sources of interrupts that devintr() tells apart, for TLC:   *)
(* the disk (Virtio) and the timer (Ticks).  Their handlers share no       *)
(* state, so a behaviour exercises one of them, chosen at the start; the   *)
(* other rests.                                                            *)
(***************************************************************************)
EXTENDS Virtio, Ticks, TLC

VARIABLE source

DevicesInit ==
  /\ source \in {"disk", "timer"}
  /\ Init /\ TInit
  /\ source # "timer" => ticks = 0

DevicesNext ==
  \/ source = "disk" /\ Next /\ UNCHANGED <<source, tvars>>
  \/ source = "timer" /\ TNext /\ UNCHANGED <<source, vars>>

DevicesSpec == DevicesInit /\ [][DevicesNext]_<<source, vars, tvars>>

\* Processes differ only in their names.
Symmetry == Permutations(Procs) \cup Permutations(Sleepers)
=============================================================================
