------------------------------ MODULE Spinlock ------------------------------
(***************************************************************************)
(* kernel/spinlock.c: acquire, release, holding, push_off and pop_off, one *)
(* step per access to shared memory or to sstatus.SIE, called by the code  *)
(* of every CPU and by the interrupt handlers that break into that code.   *)
(*                                                                         *)
(* Each CPU has two control paths: the thread it runs (process or          *)
(* scheduler) and, while a trap is being served, the handler.  kerneltrap  *)
(* never re-enables interrupts, so handlers do not nest.                   *)
(*                                                                         *)
(* The callers are the rest of the kernel.  A path takes locks in the      *)
(* order of their numbers, never takes one it already has, releases in any *)
(* order (sleep() releases lk while it keeps p->lock) and pairs its own    *)
(* push_off() with pop_off().  What a path does not know is what the path  *)
(* it interrupted was doing.                                               *)
(***************************************************************************)
EXTENDS Integers, FiniteSets

CONSTANTS CPUs,     \* harts
          Locks,    \* spinlocks, numbered in the order in which they nest
          NoCPU,    \* lk->cpu == 0
          MaxPush   \* bound: unreleased push_off() calls made by one path

ASSUME SpinlockAssumption ==
  /\ Locks \subseteq Nat \ {0} /\ IsFiniteSet(Locks)
  /\ NoCPU \notin CPUs
  /\ MaxPush \in Nat

VARIABLES
  locked,   \* lk->locked
  cpu,      \* lk->cpu
  intr,     \* sstatus.SIE of each CPU
  noff,     \* struct cpu.noff
  intena,   \* struct cpu.intena
  cur,      \* the path each CPU is executing
  pc,       \* where each path is in spinlock.c
  arg,      \* the lk argument of the call in progress, 0 outside of one
  old,      \* push_off()'s local variable
  owns,     \* locks the path has been granted and has not given back
  pushes,   \* push_off() calls of the path itself still to be popped
  enabled   \* what the thread last asked of intr_on()/intr_off()

vars == <<locked, cpu, intr, noff, intena, cur, pc, arg, old, owns, pushes,
          enabled>>

Paths == {"thread", "handler"}

Exec == CPUs \X Paths

Pcs == {"code", "push", "hold", "spin", "own", "unlock", "pop", "panic"}

\* Path x of CPU c is the one that takes the CPU's next step.
Active(c, x) == cur[c] = x

\* lk->locked && lk->cpu == mycpu().  Only CPU c itself ever stores c into
\* lk->cpu, so the two loads can be taken together.
holding(c, l) == locked[l] /\ cpu[l] = c

Init ==
  /\ locked = [l \in Locks |-> FALSE]
  /\ cpu = [l \in Locks |-> NoCPU]
  /\ intr = [c \in CPUs |-> FALSE]
  /\ noff = [c \in CPUs |-> 0]
  /\ intena = [c \in CPUs |-> FALSE]
  /\ cur = [c \in CPUs |-> "thread"]
  /\ pc = [t \in Exec |-> "code"]
  /\ arg = [t \in Exec |-> 0]
  /\ old = [t \in Exec |-> FALSE]
  /\ owns = [t \in Exec |-> {}]
  /\ pushes = [t \in Exec |-> 0]
  /\ enabled = [c \in CPUs |-> FALSE]

-----------------------------------------------------------------------------
(* What the callers do. *)

\* A call of acquire(lk).  Its first statement is push_off(), whose first
\* statement reads sstatus.
Acquire(c, x, l) ==
  LET t == <<c, x>> IN
  /\ Active(c, x) /\ pc[t] = "code"
  /\ \A m \in owns[t] : m < l
  /\ arg' = [arg EXCEPT ![t] = l]
  /\ old' = [old EXCEPT ![t] = intr[c]]
  /\ pc' = [pc EXCEPT ![t] = "push"]
  /\ UNCHANGED <<locked, cpu, intr, noff, intena, cur, owns, pushes, enabled>>

\* A call of push_off() by code that holds interrupts off without a lock.
PushOff(c, x) ==
  LET t == <<c, x>> IN
  /\ Active(c, x) /\ pc[t] = "code"
  /\ pushes[t] < MaxPush
  /\ old' = [old EXCEPT ![t] = intr[c]]
  /\ pc' = [pc EXCEPT ![t] = "push"]
  /\ UNCHANGED <<locked, cpu, intr, noff, intena, cur, arg, owns, pushes,
                 enabled>>

\* A call of pop_off() that matches such a push_off().
PopOff(c, x) ==
  LET t == <<c, x>> IN
  /\ Active(c, x) /\ pc[t] = "code"
  /\ pushes[t] > 0
  /\ pushes' = [pushes EXCEPT ![t] = @ - 1]
  /\ pc' = [pc EXCEPT ![t] = "pop"]
  /\ UNCHANGED <<locked, cpu, intr, noff, intena, cur, arg, old, owns, enabled>>

\* The thread's own intr_on() and intr_off(): scheduler(), usertrap() and
\* prepare_return() call them with no lock held.
SetIntr(c, on) ==
  LET t == <<c, "thread">> IN
  /\ Active(c, "thread") /\ pc[t] = "code"
  /\ owns[t] = {} /\ pushes[t] = 0
  /\ intr' = [intr EXCEPT ![c] = on]
  /\ enabled' = [enabled EXCEPT ![c] = on]
  /\ UNCHANGED <<locked, cpu, noff, intena, cur, pc, arg, old, owns, pushes>>

\* The hardware takes an interrupt: it clears SIE and enters kernelvec.
Interrupt(c) ==
  /\ Active(c, "thread") /\ intr[c]
  /\ intr' = [intr EXCEPT ![c] = FALSE]
  /\ cur' = [cur EXCEPT ![c] = "handler"]
  /\ UNCHANGED <<locked, cpu, noff, intena, pc, arg, old, owns, pushes, enabled>>

\* kerneltrap() restores the sstatus it saved and returns with sret.
TrapReturn(c) ==
  LET t == <<c, "handler">> IN
  /\ Active(c, "handler") /\ pc[t] = "code"
  /\ owns[t] = {} /\ pushes[t] = 0
  /\ intr' = [intr EXCEPT ![c] = TRUE]
  /\ cur' = [cur EXCEPT ![c] = "thread"]
  /\ UNCHANGED <<locked, cpu, noff, intena, pc, arg, old, owns, pushes, enabled>>

-----------------------------------------------------------------------------
(* spinlock.c *)

\* Mutant of push_off: every call overwrites intena.
push_offOverwrites(c, x) ==
  LET t == <<c, x>> IN
  /\ Active(c, x) /\ pc[t] = "push"
  /\ intr' = [intr EXCEPT ![c] = FALSE]
  /\ intena' = [intena EXCEPT ![c] = old[t]]
  /\ noff' = [noff EXCEPT ![c] = @ + 1]
  /\ IF arg[t] = 0
     THEN /\ pushes' = [pushes EXCEPT ![t] = @ + 1]
          /\ pc' = [pc EXCEPT ![t] = "code"]
     ELSE /\ pc' = [pc EXCEPT ![t] = "hold"]
          /\ UNCHANGED pushes
  /\ UNCHANGED <<locked, cpu, cur, arg, old, owns, enabled>>

\* The rest of push_off(): intr_off(), then the bookkeeping in struct cpu.
push_off(c, x) ==
  LET t == <<c, x>> IN
  /\ Active(c, x) /\ pc[t] = "push"
  /\ intr' = [intr EXCEPT ![c] = FALSE]
  /\ intena' = [intena EXCEPT ![c] = IF noff[c] = 0 THEN old[t] ELSE @]
  /\ noff' = [noff EXCEPT ![c] = @ + 1]
  /\ IF arg[t] = 0
     THEN /\ pushes' = [pushes EXCEPT ![t] = @ + 1]
          /\ pc' = [pc EXCEPT ![t] = "code"]
     ELSE /\ pc' = [pc EXCEPT ![t] = "hold"]
          /\ UNCHANGED pushes
  /\ UNCHANGED <<locked, cpu, cur, arg, old, owns, enabled>>

\* acquire(): if(holding(lk)) panic("acquire").
acquire_check(c, x) ==
  LET t == <<c, x>> IN
  /\ Active(c, x) /\ pc[t] = "hold"
  /\ pc' = [pc EXCEPT ![t] = IF holding(c, arg[t]) THEN "panic" ELSE "spin"]
  /\ UNCHANGED <<locked, cpu, intr, noff, intena, cur, arg, old, owns, pushes,
                 enabled>>

\* Mutant of acquire_swap: a plain store, without looking at the old value.
acquire_swapBlind(c, x) ==
  LET t == <<c, x>> IN
  /\ Active(c, x) /\ pc[t] = "spin"
  /\ locked' = [locked EXCEPT ![arg[t]] = TRUE]
  /\ pc' = [pc EXCEPT ![t] = "own"]
  /\ UNCHANGED <<cpu, intr, noff, intena, cur, arg, old, owns, pushes, enabled>>

\* acquire(): the __sync_lock_test_and_set that finds the lock free.
acquire_swap(c, x) ==
  LET t == <<c, x>> IN
  /\ Active(c, x) /\ pc[t] = "spin"
  /\ ~locked[arg[t]]
  /\ locked' = [locked EXCEPT ![arg[t]] = TRUE]
  /\ pc' = [pc EXCEPT ![t] = "own"]
  /\ UNCHANGED <<cpu, intr, noff, intena, cur, arg, old, owns, pushes, enabled>>

\* acquire(): lk->cpu = mycpu(), and return to the caller.
acquire_own(c, x) ==
  LET t == <<c, x>> IN
  /\ Active(c, x) /\ pc[t] = "own"
  /\ cpu' = [cpu EXCEPT ![arg[t]] = c]
  /\ owns' = [owns EXCEPT ![t] = @ \cup {arg[t]}]
  /\ arg' = [arg EXCEPT ![t] = 0]
  /\ pc' = [pc EXCEPT ![t] = "code"]
  /\ UNCHANGED <<locked, intr, noff, intena, cur, old, pushes, enabled>>

\* Mutant of release_check: lk->cpu keeps the releasing CPU.
release_checkKeepsCpu(c, x, l) ==
  LET t == <<c, x>> IN
  /\ Active(c, x) /\ pc[t] = "code"
  /\ l \in owns[t]
  /\ owns' = [owns EXCEPT ![t] = @ \ {l}]
  /\ arg' = [arg EXCEPT ![t] = l]
  /\ pc' = [pc EXCEPT ![t] = IF holding(c, l) THEN "unlock" ELSE "panic"]
  /\ UNCHANGED <<locked, cpu, intr, noff, intena, cur, old, pushes, enabled>>

\* release(): the holding() check, then lk->cpu = 0.
release_check(c, x, l) ==
  LET t == <<c, x>> IN
  /\ Active(c, x) /\ pc[t] = "code"
  /\ l \in owns[t]
  /\ owns' = [owns EXCEPT ![t] = @ \ {l}]
  /\ arg' = [arg EXCEPT ![t] = l]
  /\ IF holding(c, l)
     THEN /\ cpu' = [cpu EXCEPT ![l] = NoCPU]
          /\ pc' = [pc EXCEPT ![t] = "unlock"]
     ELSE /\ pc' = [pc EXCEPT ![t] = "panic"]
          /\ UNCHANGED cpu
  /\ UNCHANGED <<locked, intr, noff, intena, cur, old, pushes, enabled>>

\* release(): __sync_lock_release.
release_unlock(c, x) ==
  LET t == <<c, x>> IN
  /\ Active(c, x) /\ pc[t] = "unlock"
  /\ locked' = [locked EXCEPT ![arg[t]] = FALSE]
  /\ arg' = [arg EXCEPT ![t] = 0]
  /\ pc' = [pc EXCEPT ![t] = "pop"]
  /\ UNCHANGED <<cpu, intr, noff, intena, cur, old, owns, pushes, enabled>>

\* pop_off(), called by release() or by the path itself.
pop_off(c, x) ==
  LET t == <<c, x>> IN
  /\ Active(c, x) /\ pc[t] = "pop"
  /\ IF intr[c] \/ noff[c] < 1
     THEN /\ pc' = [pc EXCEPT ![t] = "panic"]
          /\ UNCHANGED <<noff, intr>>
     ELSE /\ noff' = [noff EXCEPT ![c] = @ - 1]
          /\ intr' = [intr EXCEPT ![c] = noff[c] = 1 /\ intena[c]]
          /\ pc' = [pc EXCEPT ![t] = "code"]
  /\ UNCHANGED <<locked, cpu, intena, cur, arg, old, owns, pushes, enabled>>

-----------------------------------------------------------------------------
PathStep(c, x) ==
  \/ \E l \in Locks : Acquire(c, x, l) \/ release_check(c, x, l)
  \/ PushOff(c, x) \/ PopOff(c, x)
  \/ push_off(c, x) \/ pop_off(c, x)
  \/ acquire_check(c, x) \/ acquire_swap(c, x) \/ acquire_own(c, x)
  \/ release_unlock(c, x)

Next ==
  \E c \in CPUs :
    \/ \E x \in Paths : PathStep(c, x)
    \/ \E on \in BOOLEAN : SetIntr(c, on)
    \/ Interrupt(c) \/ TrapReturn(c)

Spec == Init /\ [][Next]_vars

-----------------------------------------------------------------------------
(* Properties *)

\* A lock that acquire() granted to one control path (a thread or a handler,
\* on any CPU) and that was not released belongs to that path alone.
MutualExclusion ==
  \A t, u \in Exec : t # u => owns[t] \cap owns[u] = {}

\* acquire() and release() never panic for a kernel that respects the lock
\* order: holding() is never true of a lock the caller lacks nor false of one
\* it has, although it reads lk->locked and lk->cpu without any protection,
\* and an interrupt handler never meets a lock held by the code it broke into.
NoPanic == \A t \in Exec : pc[t] # "panic"

\* The number of push_off() calls a path still has to undo.
Depth(t) ==
  Cardinality(owns[t]) + pushes[t]
    + (IF pc[t] \in {"hold", "spin", "own", "unlock", "pop"} THEN 1 ELSE 0)

\* push_off() and pop_off() are matched: once everything a path pushed is
\* popped, SIE is again what the thread last set it to (off in a handler),
\* and until then it is off, whatever locks, nested calls and interrupts came
\* between.
InterruptsRestored ==
  \A c \in CPUs : \A x \in Paths :
    Active(c, x) =>
      /\ Depth(<<c, x>>) > 0 => ~intr[c]
      /\ (Depth(<<c, x>>) = 0 /\ pc[<<c, x>>] # "panic") =>
           intr[c] = (x = "thread" /\ enabled[c])
=============================================================================
