------------------------------- MODULE MCMlfq -------------------------------
(* The scheduler for TLC, with slices and threshold scaled down: the slices *)
(* keep doubling from level to level.                                       *)
EXTENDS Mlfq, TLC

\* The harts are interchangeable.
Harts == Permutations(CPUs)
=============================================================================
