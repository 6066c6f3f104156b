------------------------------ MODULE MCLocks -------------------------------
(***************************************************************************)
(* What processes share with each other and with interrupt handlers, for   *)
(* TLC: spinlocks (Spinlock) on two harts; the sleep-locks built on them   *)
(* with the buffers they protect (Bio), for which two processes compete;   *)
(* and the console (Console) between readers, a writer and the handler of  *)
(* the UART.  A behaviour exercises one of the three, chosen at the start; *)
(* the others rest.                                                        *)
(***************************************************************************)
EXTENDS Spinlock, Bio, Console, TLC

VARIABLE kind

allvars == <<kind, vars, bvars, rvars>>

LocksInit ==
  /\ kind \in {"spin", "sleep", "console"}
  /\ Init /\ BInit /\ CInit
  /\ kind # "sleep" => lru[1] = CHOOSE b \in Bufs : TRUE

LocksNext ==
  \/ kind = "spin" /\ Next /\ UNCHANGED <<kind, bvars, rvars>>
  \/ kind = "sleep" /\ BNext /\ UNCHANGED <<kind, vars, rvars>>
  \/ kind = "console" /\ CNext /\ UNCHANGED <<kind, vars, bvars>>

LocksSpec == LocksInit /\ [][LocksNext]_allvars

\* The harts are interchangeable, and so are processes and readers.
Symmetry == Permutations(CPUs) \cup Permutations(Procs) \cup Permutations(Readers)
=============================================================================
