------------------------------- MODULE MCLog --------------------------------
(* Module Log with the symmetry of its processes and blocks; for safety only. *)
EXTENDS Log, TLC

Symmetry == Permutations(Procs) \cup Permutations(Blocks)
=============================================================================
