-------------------------------- MODULE Proc --------------------------------
(***************************************************************************)
(* The life of a process in kernel/proc.c: allocproc, freeproc, kfork,     *)
(* kexit with reparent, kwait, kkill, sleep and wakeup, with wait_lock and *)
(* the p->locks.                                                           *)
(*                                                                         *)
(* Every process advances on its own, as it does on a machine with a hart  *)
(* for each: "RUNNABLE" stands for RUNNABLE and RUNNING, and module Mlfq   *)
(* says who runs where.  A critical section is one step unless another     *)
(* process can see the inside of it: lock[q] is p->lock held from one step *)
(* to the next (inside sleep() and the end of kexit()), and wait_lock is   *)
(* held through the loops of kexit() and kwait().  Slot 1 is initproc.     *)
(***************************************************************************)
EXTENDS Integers

CONSTANTS NPROC,     \* slots of the process table
          MaxPid,    \* allocpid() is not called beyond this pid
          KillPids   \* arguments of kill()

ASSUME ProcAssumption ==
  /\ NPROC \in Nat \ {0}
  /\ MaxPid \in Nat \ {0}
  /\ KillPids \subseteq Nat \ {1}

VARIABLES
  state, pid, parent, chan, killed,   \* struct proc; 0 is the null pointer
  nextpid,
  lock,                               \* p->lock is held across a step
  wait_lock,                          \* its holder, 0 when free
  pc,                                 \* where the thread of each slot is
  idx, widx,                          \* pp of kexit/kwait, p of wakeup
  np, havekids,                       \* locals of kfork and kwait
  asked                               \* history: pids killed on purpose

pvars == <<state, pid, parent, chan, killed, nextpid>>
locals == <<idx, widx, np, havekids>>
vars == <<pvars, lock, wait_lock, pc, locals, asked>>

Procs == 1 .. NPROC
initproc == 1

\* userinit()
Init ==
  /\ state = [p \in Procs |-> IF p = initproc THEN "RUNNABLE" ELSE "UNUSED"]
  /\ pid = [p \in Procs |-> IF p = initproc THEN 1 ELSE 0]
  /\ nextpid = 2
  /\ parent = [p \in Procs |-> 0]
  /\ chan = [p \in Procs |-> 0]
  /\ killed = [p \in Procs |-> FALSE]
  /\ lock = [p \in Procs |-> FALSE]
  /\ wait_lock = 0
  /\ pc = [p \in Procs |-> IF p = initproc THEN "user" ELSE "none"]
  /\ idx = [p \in Procs |-> 1]
  /\ widx = [p \in Procs |-> 1]
  /\ np = [p \in Procs |-> 0]
  /\ havekids = [p \in Procs |-> FALSE]
  /\ asked = {}

Goto(p, label) == pc' = [pc EXCEPT ![p] = label]

\* The pp++ of a loop over the table: the slot after i, 1 at the end.
Following(i) == IF i < NPROC THEN i + 1 ELSE 1

-----------------------------------------------------------------------------
(* kfork() *)

\* allocproc() and kfork() up to its first release(&np->lock).  The scan for
\* an UNUSED slot holds one lock at a time: slots before the one it finds may
\* have become UNUSED behind it.  When kalloc() or uvmcopy() fails, freeproc()
\* gives the slot back; its pid is spent.
ForkAlloc(p, q, ok) ==
  /\ pc[p] = "user" /\ ~killed[p]
  /\ state[q] = "UNUSED" /\ ~lock[q]
  /\ nextpid <= MaxPid
  /\ nextpid' = nextpid + 1
  /\ IF ok
     THEN /\ pid' = [pid EXCEPT ![q] = nextpid]
          /\ state' = [state EXCEPT ![q] = "USED"]
          /\ np' = [np EXCEPT ![p] = q]
          /\ Goto(p, "fork_parent")
          /\ UNCHANGED killed
     ELSE /\ killed' = [killed EXCEPT ![q] = FALSE]
          /\ UNCHANGED <<pid, state, np, pc>>
  /\ UNCHANGED <<parent, chan, lock, wait_lock, idx, widx, havekids, asked>>

\* np->parent = p, under wait_lock.
ForkParent(p) ==
  /\ pc[p] = "fork_parent" /\ wait_lock = 0
  /\ parent' = [parent EXCEPT ![np[p]] = p]
  /\ Goto(p, "fork_ready")
  /\ UNCHANGED <<state, pid, chan, killed, nextpid, lock, wait_lock, locals,
                 asked>>

\* np->state = RUNNABLE, under np->lock: the child can run.
ForkReady(p) ==
  /\ pc[p] = "fork_ready" /\ ~lock[np[p]]
  /\ state' = [state EXCEPT ![np[p]] = "RUNNABLE"]
  /\ pc' = [pc EXCEPT ![p] = "user", ![np[p]] = "user"]
  /\ np' = [np EXCEPT ![p] = 0]
  /\ UNCHANGED <<pid, parent, chan, killed, nextpid, lock, wait_lock, idx,
                 widx, havekids, asked>>

-----------------------------------------------------------------------------
(* kexit(), with reparent() and wakeup() *)

\* kexit() up to acquire(&wait_lock): the files are closed.  usertrap() calls
\* it for a killed process, sys_exit() for the others.
Exit(p) ==
  /\ pc[p] = "user" /\ p # initproc
  /\ Goto(p, "exit")
  /\ UNCHANGED <<pvars, lock, wait_lock, locals, asked>>

ExitLock(p) ==
  /\ pc[p] = "exit" /\ wait_lock = 0
  /\ wait_lock' = p
  /\ Goto(p, "reparent")
  /\ UNCHANGED <<pvars, lock, locals, asked>>

\* Mutant of Reparent: the last slot is left out.
ReparentSkipsLast(p) ==
  /\ pc[p] = "reparent"
  /\ IF parent[idx[p]] = p /\ idx[p] < NPROC
     THEN /\ parent' = [parent EXCEPT ![idx[p]] = initproc]
          /\ Goto(p, "wake_init")
          /\ UNCHANGED idx
     ELSE /\ idx' = [idx EXCEPT ![p] = Following(@)]
          /\ Goto(p, IF idx[p] < NPROC THEN "reparent" ELSE "wake_parent")
          /\ UNCHANGED parent
  /\ UNCHANGED <<state, pid, chan, killed, nextpid, lock, wait_lock, widx, np,
                 havekids, asked>>

\* One iteration of reparent()'s loop.
Reparent(p) ==
  /\ pc[p] = "reparent"
  /\ IF parent[idx[p]] = p
     THEN /\ parent' = [parent EXCEPT ![idx[p]] = initproc]
          /\ Goto(p, "wake_init")
          /\ UNCHANGED idx
     ELSE /\ idx' = [idx EXCEPT ![p] = Following(@)]
          /\ Goto(p, IF idx[p] < NPROC THEN "reparent" ELSE "wake_parent")
          /\ UNCHANGED parent
  /\ UNCHANGED <<state, pid, chan, killed, nextpid, lock, wait_lock, widx, np,
                 havekids, asked>>

\* One iteration of wakeup(c), called by p, which continues at label.
WakeupStep(p, c, label) ==
  LET q == widx[p] IN
  /\ IF q = p
     THEN UNCHANGED state
     ELSE /\ ~lock[q]
          /\ state' = [state EXCEPT ![q] =
               IF @ = "SLEEPING" /\ chan[q] = c THEN "RUNNABLE" ELSE @]
  /\ widx' = [widx EXCEPT ![p] = Following(q)]
  /\ IF q < NPROC THEN UNCHANGED pc ELSE Goto(p, label)
  /\ UNCHANGED <<pid, parent, chan, killed, nextpid, lock, wait_lock, np,
                 havekids, asked>>

\* wakeup(initproc) in reparent(), for the child just handed over; then pp++.
WakeInit(p) ==
  /\ pc[p] = "wake_init"
  /\ WakeupStep(p, initproc, IF idx[p] < NPROC THEN "reparent" ELSE "wake_parent")
  /\ idx' = IF widx[p] < NPROC THEN idx ELSE [idx EXCEPT ![p] = Following(@)]

\* wakeup(p->parent)
WakeParent(p) ==
  /\ pc[p] = "wake_parent"
  /\ WakeupStep(p, parent[p], "zombie")
  /\ UNCHANGED idx

\* Mutant of Zombie: p->lock is not held at the end of kexit().
ZombieUnlocked(p) ==
  /\ pc[p] = "zombie" /\ ~lock[p]
  /\ state' = [state EXCEPT ![p] = "ZOMBIE"]
  /\ Goto(p, "exit_unlock")
  /\ UNCHANGED <<pid, parent, chan, killed, nextpid, lock, wait_lock, locals,
                 asked>>

\* acquire(&p->lock); p->state = ZOMBIE
Zombie(p) ==
  /\ pc[p] = "zombie" /\ ~lock[p]
  /\ lock' = [lock EXCEPT ![p] = TRUE]
  /\ state' = [state EXCEPT ![p] = "ZOMBIE"]
  /\ Goto(p, "exit_unlock")
  /\ UNCHANGED <<pid, parent, chan, killed, nextpid, wait_lock, locals, asked>>

ExitUnlock(p) ==
  /\ pc[p] = "exit_unlock"
  /\ wait_lock' = 0
  /\ Goto(p, "exit_sched")
  /\ UNCHANGED <<pvars, lock, locals, asked>>

\* sched(): the scheduler, now on its own stack, releases p->lock.
ExitSched(p) ==
  /\ pc[p] = "exit_sched"
  /\ lock' = [lock EXCEPT ![p] = FALSE]
  /\ Goto(p, "none")
  /\ UNCHANGED <<pvars, wait_lock, locals, asked>>

-----------------------------------------------------------------------------
(* kwait(), with sleep() *)

Wait(p) ==
  /\ pc[p] = "user" /\ ~killed[p]
  /\ Goto(p, "wait")
  /\ UNCHANGED <<pvars, lock, wait_lock, locals, asked>>

WaitLock(p) ==
  /\ pc[p] = "wait" /\ wait_lock = 0
  /\ wait_lock' = p
  /\ Goto(p, "scan")
  /\ UNCHANGED <<pvars, lock, locals, asked>>

\* Mutant of freeproc: p->killed survives.
freeprocKeepsKilled(q) ==
  /\ state' = [state EXCEPT ![q] = "UNUSED"]
  /\ pid' = [pid EXCEPT ![q] = 0]
  /\ parent' = [parent EXCEPT ![q] = 0]
  /\ chan' = [chan EXCEPT ![q] = 0]
  /\ UNCHANGED <<killed, nextpid>>

freeproc(q) ==
  /\ state' = [state EXCEPT ![q] = "UNUSED"]
  /\ pid' = [pid EXCEPT ![q] = 0]
  /\ parent' = [parent EXCEPT ![q] = 0]
  /\ chan' = [chan EXCEPT ![q] = 0]
  /\ killed' = [killed EXCEPT ![q] = FALSE]
  /\ UNCHANGED nextpid

\* The iteration of kwait()'s loop that finds a zombie child.  copyout() of
\* the status can fail; init passes no address.
Collect(p, fault) ==
  LET q == idx[p] IN
  /\ pc[p] = "scan"
  /\ parent[q] = p /\ ~lock[q] /\ state[q] = "ZOMBIE"
  /\ IF fault THEN p # initproc /\ UNCHANGED pvars ELSE freeproc(q)
  /\ wait_lock' = 0
  /\ idx' = [idx EXCEPT ![p] = 1]
  /\ havekids' = [havekids EXCEPT ![p] = FALSE]
  /\ Goto(p, "user")
  /\ UNCHANGED <<lock, widx, np, asked>>

\* Mutant of ScanNext: pp < &proc[NPROC - 1].
ScanNextSkipsLast(p) ==
  LET q == idx[p] IN
  /\ pc[p] = "scan"
  /\ parent[q] = p => ~lock[q] /\ state[q] # "ZOMBIE"
  /\ havekids' = [havekids EXCEPT ![p] = @ \/ parent[q] = p]
  /\ idx' = [idx EXCEPT ![p] = IF q + 1 < NPROC THEN q + 1 ELSE 1]
  /\ IF q + 1 < NPROC THEN UNCHANGED pc ELSE Goto(p, "check")
  /\ UNCHANGED <<pvars, lock, wait_lock, widx, np, asked>>

\* An iteration that finds none.
ScanNext(p) ==
  LET q == idx[p] IN
  /\ pc[p] = "scan"
  /\ parent[q] = p => ~lock[q] /\ state[q] # "ZOMBIE"
  /\ havekids' = [havekids EXCEPT ![p] = @ \/ parent[q] = p]
  /\ idx' = [idx EXCEPT ![p] = Following(q)]
  /\ IF q < NPROC THEN UNCHANGED pc ELSE Goto(p, "check")
  /\ UNCHANGED <<pvars, lock, wait_lock, widx, np, asked>>

\* if(!havekids || killed(p)) return -1;  otherwise sleep(p, &wait_lock).
Check(p) ==
  /\ pc[p] = "check"
  /\ IF ~havekids[p] \/ killed[p]
     THEN wait_lock' = 0 /\ Goto(p, "user")
     ELSE UNCHANGED wait_lock /\ Goto(p, "sleep")
  /\ havekids' = [havekids EXCEPT ![p] = FALSE]
  /\ UNCHANGED <<pvars, lock, idx, widx, np, asked>>

\* sleep(): acquire(&p->lock); release(lk)
SleepLock(p) ==
  /\ pc[p] = "sleep" /\ ~lock[p]
  /\ lock' = [lock EXCEPT ![p] = TRUE]
  /\ wait_lock' = 0
  /\ Goto(p, "sleep_sched")
  /\ UNCHANGED <<pvars, locals, asked>>

\* p->chan = chan; p->state = SLEEPING; sched(), and the scheduler releases
\* p->lock.
SleepSched(p) ==
  /\ pc[p] = "sleep_sched"
  /\ chan' = [chan EXCEPT ![p] = p]
  /\ state' = [state EXCEPT ![p] = "SLEEPING"]
  /\ lock' = [lock EXCEPT ![p] = FALSE]
  /\ Goto(p, "asleep")
  /\ UNCHANGED <<pid, parent, killed, nextpid, wait_lock, locals, asked>>

\* sched() returns: p->chan = 0, then back to acquire(lk).
Awake(p) ==
  /\ pc[p] = "asleep" /\ state[p] = "RUNNABLE" /\ ~lock[p]
  /\ chan' = [chan EXCEPT ![p] = 0]
  /\ Goto(p, "wait")
  /\ UNCHANGED <<state, pid, parent, killed, nextpid, lock, wait_lock, locals,
                 asked>>

-----------------------------------------------------------------------------
(* kkill() and setkilled() *)

\* The iteration of kkill(t)'s loop that finds the pid.
Kill(p, q, t) ==
  /\ pc[p] = "user" /\ ~killed[p]
  /\ pid[q] = t /\ ~lock[q]
  /\ killed' = [killed EXCEPT ![q] = TRUE]
  /\ state' = [state EXCEPT ![q] = IF @ = "SLEEPING" THEN "RUNNABLE" ELSE @]
  /\ asked' = asked \cup {t}
  /\ UNCHANGED <<pid, parent, chan, nextpid, lock, wait_lock, pc, locals>>

\* usertrap() on an exception: setkilled(p).
Fault(p) ==
  /\ pc[p] = "user" /\ p # initproc /\ ~lock[p]
  /\ killed' = [killed EXCEPT ![p] = TRUE]
  /\ asked' = asked \cup {pid[p]}
  /\ UNCHANGED <<state, pid, parent, chan, nextpid, lock, wait_lock, pc,
                 locals>>

-----------------------------------------------------------------------------
\* Steps inside the kernel, once a system call has been entered.
Kernel(p) ==
  \/ ForkParent(p) \/ ForkReady(p)
  \/ ExitLock(p) \/ Reparent(p) \/ WakeInit(p) \/ WakeParent(p) \/ Zombie(p)
  \/ ExitUnlock(p) \/ ExitSched(p)
  \/ WaitLock(p) \/ Collect(p, FALSE) \/ Collect(p, TRUE) \/ ScanNext(p)
  \/ Check(p) \/ SleepLock(p) \/ SleepSched(p) \/ Awake(p)

\* What a process asks for.
User(p) ==
  \/ Exit(p) \/ Wait(p) \/ Fault(p)
  \/ \E q \in Procs, ok \in BOOLEAN : ForkAlloc(p, q, ok)
  \/ \E q \in Procs, t \in KillPids : Kill(p, q, t)

Next == \E p \in Procs : Kernel(p) \/ User(p)

Spec == Init /\ [][Next]_vars

\* A hart that spins in acquire() gets the lock if it is free again and again,
\* and user/init.c calls wait() whenever it has nothing else to do.
FairSpec ==
  /\ Spec
  /\ \A p \in Procs : SF_vars(Kernel(p))
  /\ WF_vars(Wait(initproc))

-----------------------------------------------------------------------------
(* Properties *)

Alive(p) == state[p] \in {"RUNNABLE", "SLEEPING"}

\* "make sure the child isn't still in exit() or swtch()": when kwait() has
\* freed a slot, no thread executes on its kernel stack any more.
OffStack == \A p \in Procs : state[p] = "UNUSED" => pc[p] = "none"

\* Whenever wait_lock is free, the parent of every process but init is alive:
\* reparent() leaves no child behind, and no parent pointer leads to a slot
\* that is free, a zombie, or used again by a process that is not the parent.
ParentAlive ==
  wait_lock = 0 =>
    \A p \in Procs \ {initproc} :
      state[p] \in {"RUNNABLE", "SLEEPING", "ZOMBIE"} =>
        parent[p] \in Procs /\ Alive(parent[p])

\* A process dies only by its own fault or because its pid was passed to
\* kill(): the killed flag does not leak from one user of a slot to the next.
KilledOnRequest ==
  \A p \in Procs : killed[p] => state[p] = "UNUSED" \/ pid[p] \in asked

\* Every zombie that init has inherited or forked is collected.
ZombiesReaped ==
  \A q \in Procs :
    (state[q] = "ZOMBIE" /\ parent[q] = initproc) ~> (state[q] = "UNUSED")
=============================================================================
