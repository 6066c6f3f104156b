------------------------------- MODULE MCProc -------------------------------
(***************************************************************************)
(* Processes for TLC: their life in the process table (Proc), their memory *)
(* (Vm), and the shell that starts them and connects them by pipes         *)
(* (Shell).  A behaviour exercises one of the three, chosen at the start;  *)
(* the others rest.                                                        *)
(***************************************************************************)
EXTENDS Proc, Sequences, TLC

CONSTANTS Users, NPAGES, Programs, MaxArgs, MaxCalls,       \* of Vm
          Sessions, MaxTokens, NFILE, NOFILE, MAXARGS       \* of Shell

VARIABLES view, mem, ps, as, last, calls, vpanic,           \* of Vm
          session, typed, procs, ftable, shell, halted      \* of Shell

Memory == INSTANCE Vm WITH Procs <- Users
Sh == INSTANCE Shell

mvars == <<mem, ps, as, last, calls, vpanic>>
shvars == <<session, typed, procs, ftable, shell, halted>>
allvars == <<view, vars, mvars, shvars>>

ProcInit ==
  /\ view \in {"table", "memory", "shell"}
  /\ Init /\ Memory!VInit /\ Sh!ShInit
  /\ view # "memory" => mem.free = {}
  /\ view # "shell" => session.tokens # {}

ProcNext ==
  \/ view = "table" /\ Next /\ UNCHANGED <<view, mvars, shvars>>
  \/ view = "memory" /\ Memory!VNext /\ UNCHANGED <<view, vars, shvars>>
  \/ view = "shell" /\ Sh!ShNext /\ UNCHANGED <<view, vars, mvars>>

\* The fairness of Proc!FairSpec.
ProcSpec ==
  /\ ProcInit /\ [][ProcNext]_allvars
  /\ \A p \in Procs : SF_vars(view = "table" /\ Kernel(p))
  /\ WF_vars(view = "table" /\ Wait(initproc))

\* No page of memory is lost and none is used twice, whatever calls have failed
\* half-way (Vm: kalloc(), kfree(), uvmalloc(), uvmcopy(), kexec(), ...).
PagesAccounted == view = "memory" => Memory!PagesAccounted

\* A process finds in its memory what its own calls put there (Vm: uvmcopy(),
\* vmfault(), copyout(), kexec()).
MemoryPrivate == view = "memory" => Memory!MemoryPrivate

\* No call panics, and one that fails has no effect (Vm: kfork(), kexec(),
\* growproc()).
CallsAtomic == Memory!CallsAtomic

\* The parser of sh.c gives every line the meaning of its outermost marks, or
\* refuses it when it has none (Shell: parsecmd()).
ParsesAsMeant == Sh!ParsesAsMeant

\* A program has the standard input and output of its command line, and no
\* other descriptor (Shell: runcmd()).
Plumbed == Sh!Plumbed

\* End of file is not waited for in a circle, and the file table counts its
\* descriptors (Shell: runcmd(), filedup(), fileclose()).
EofArrives == Sh!EofArrives

-----------------------------------------------------------------------------
Seg(va, memsz, filesz, perm, whole) ==
  [va |-> va, memsz |-> memsz, filesz |-> filesz, perm |-> perm, whole |-> whole]

\* Text only; text, data and bss; and a file that ends too early.
Executables == {<<Seg(0, 1, 1, {"X"}, TRUE)>>,
                <<Seg(0, 2, 1, {"X"}, TRUE), Seg(2, 3, 0, {"W"}, TRUE)>>,
                <<Seg(0, 2, 2, {"X"}, TRUE), Seg(2, 2, 2, {"W"}, FALSE)>>}

\* Room for every process of these lines, the last of which is an error.
Roomy == {<<"a", "|", "b", "|", "c">>,
          <<"(", "a", ";", "b", "<", "f", ")", "|", "c", ">", "g">>,
          <<"a", "|", "b", ">", "g">>,
          <<"a", "(">>}

\* Processes in the background use up the table, and fork() fails.
Tight == {<<"a", "|", "b">>, <<"a", "&">>, <<"a", "<", "f", ">", "g">>}

Typing == {"a", "|", "&", ";", "(", ")", "<", ">"}

SmallSessions == {[lines |-> Roomy, nproc |-> 7, tokens |-> {}],
                  [lines |-> Tight, nproc |-> 5, tokens |-> {}],
                  [lines |-> {}, nproc |-> 1, tokens |-> Typing]}
=============================================================================
