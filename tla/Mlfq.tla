-------------------------------- MODULE Mlfq --------------------------------
(***************************************************************************)
(* The MLFQ scheduler of kernel/proc.c on several harts: the scheduler     *)
(* loop, the timer path (clockintr, mlfq_tick, boost_all_priorities,       *)
(* usertrap/kerneltrap, yield) at the grain of single memory accesses, and *)
(* the process operations that change p->state, each one atomic because it *)
(* runs under p->lock with interrupts off.                                 *)
(*                                                                         *)
(* mlfq_tick and boost_all_priorities take no lock, so each of their loads *)
(* and stores is a step of its own.  Everything else that touches p->state *)
(* acquires p->lock: its action has the guard lock[p] = NoCPU.             *)
(*                                                                         *)
(* Fields that only feed getprocinfo (sched_count, the time stamps,        *)
(* yielded_io) influence no decision of the scheduler and are left out.    *)
(***************************************************************************)
EXTENDS Integers

CONSTANTS CPUs,                  \* harts
          NPROC,                 \* slots of the process table
          TIMESLICE_HIGH, TIMESLICE_MEDIUM, TIMESLICE_LOW,
          STARVATION_THRESHOLD,  \* ticks (of any hart) between boosts
          NoCPU,                 \* an unheld p->lock
          NoProc                 \* c->proc == 0

ASSUME MlfqAssumption ==
  /\ NPROC \in Nat \ {0}
  /\ TIMESLICE_HIGH \in Nat \ {0}
  /\ TIMESLICE_MEDIUM \in Nat \ {0}
  /\ TIMESLICE_LOW \in Nat \ {0}
  /\ STARVATION_THRESHOLD \in Nat \ {0}
  /\ NoCPU \notin CPUs
  /\ NoProc \notin 1 .. NPROC

VARIABLES
  state, priority, timeslice, timeslice_used,  \* struct proc
  killed,              \* struct proc.killed
  lock,                \* the hart that holds p->lock, or NoCPU
  resume,              \* where the saved p->context continues
  newborn,             \* kfork()'s np while the child is USED
  proc,                \* struct cpu.proc
  pc,                  \* where each hart is
  level, slot,         \* loop variables of scheduler() and boost
  sum,                 \* value loaded by a ++ of mlfq_tick, not yet stored
  starvation_counter

pvars == <<state, priority, timeslice, timeslice_used, killed, lock, resume,
           newborn>>
cvars == <<proc, pc, level, slot, sum>>
vars == <<pvars, cvars, starvation_counter>>

MLFQ_HIGH == 0
MLFQ_MEDIUM == 1
MLFQ_LOW == 2
Levels == MLFQ_HIGH .. MLFQ_LOW

Procs == 1 .. NPROC

States == {"UNUSED", "USED", "SLEEPING", "RUNNABLE", "RUNNING", "ZOMBIE"}

get_timeslice(prio) ==
  IF prio = MLFQ_HIGH THEN TIMESLICE_HIGH
  ELSE IF prio = MLFQ_MEDIUM THEN TIMESLICE_MEDIUM
  ELSE TIMESLICE_LOW

\* userinit(): the first process is RUNNABLE, every other slot is zeroed.
Init ==
  /\ state = [p \in Procs |-> IF p = 1 THEN "RUNNABLE" ELSE "UNUSED"]
  /\ priority = [p \in Procs |-> MLFQ_HIGH]
  /\ timeslice = [p \in Procs |-> IF p = 1 THEN TIMESLICE_HIGH ELSE 0]
  /\ timeslice_used = [p \in Procs |-> 0]
  /\ killed = [p \in Procs |-> FALSE]
  /\ lock = [p \in Procs |-> NoCPU]
  /\ resume = [p \in Procs |-> "run"]
  /\ newborn = [p \in Procs |-> NoProc]
  /\ proc = [c \in CPUs |-> NoProc]
  /\ pc = [c \in CPUs |-> "top"]
  /\ level = [c \in CPUs |-> MLFQ_HIGH]
  /\ slot = [c \in CPUs |-> 1]
  /\ sum = [c \in CPUs |-> 0]
  /\ starvation_counter = 0

Goto(c, label) == pc' = [pc EXCEPT ![c] = label]

\* Hart c executes process p, or serves a trap taken while it did.
At(c, label, p) == pc[c] = label /\ p \in Procs /\ proc[c] = p

-----------------------------------------------------------------------------
(* scheduler() *)

\* The top of the loop, after the intr_on()/intr_off() window.
StartScan(c) ==
  /\ pc[c] = "top"
  /\ Goto(c, "scan")
  /\ UNCHANGED <<pvars, proc, level, slot, sum, starvation_counter>>

\* Mutant of ScanNext: priority < MLFQ_LOW as the loop condition.
ScanNextSkipsLow(c) ==
  LET p == slot[c] IN
  /\ pc[c] = "scan"
  /\ lock[p] = NoCPU
  /\ ~(state[p] = "RUNNABLE" /\ priority[p] = level[c])
  /\ slot' = [slot EXCEPT ![c] = IF p < NPROC THEN p + 1 ELSE 1]
  /\ IF p < NPROC
     THEN UNCHANGED <<level, pc>>
     ELSE IF level[c] + 1 < MLFQ_LOW
          THEN level' = [level EXCEPT ![c] = @ + 1] /\ UNCHANGED pc
          ELSE level' = [level EXCEPT ![c] = MLFQ_HIGH] /\ Goto(c, "wfi")
  /\ UNCHANGED <<pvars, proc, sum, starvation_counter>>

\* One iteration of the two loops that does not pick the process.
ScanNext(c) ==
  LET p == slot[c] IN
  /\ pc[c] = "scan"
  /\ lock[p] = NoCPU
  /\ ~(state[p] = "RUNNABLE" /\ priority[p] = level[c])
  /\ slot' = [slot EXCEPT ![c] = IF p < NPROC THEN p + 1 ELSE 1]
  /\ IF p < NPROC
     THEN UNCHANGED <<level, pc>>
     ELSE IF level[c] < MLFQ_LOW
          THEN level' = [level EXCEPT ![c] = @ + 1] /\ UNCHANGED pc
          ELSE level' = [level EXCEPT ![c] = MLFQ_HIGH] /\ Goto(c, "wfi")
  /\ UNCHANGED <<pvars, proc, sum, starvation_counter>>

\* Mutant of Dispatch: the next scan goes on behind p, as in a plain
\* round-robin scheduler, instead of starting over.
DispatchKeepsSlot(c) ==
  LET p == slot[c] IN
  /\ pc[c] = "scan"
  /\ lock[p] = NoCPU
  /\ state[p] = "RUNNABLE" /\ priority[p] = level[c]
  /\ state' = [state EXCEPT ![p] = "RUNNING"]
  /\ proc' = [proc EXCEPT ![c] = p]
  /\ Goto(c, resume[p])
  /\ level' = [level EXCEPT ![c] = MLFQ_HIGH]
  /\ slot' = [slot EXCEPT ![c] = IF p < NPROC THEN p + 1 ELSE 1]
  /\ UNCHANGED <<priority, timeslice, timeslice_used, killed, lock, resume,
                 newborn, sum, starvation_counter>>

\* The iteration that picks it: swtch to its context, which starts by
\* releasing p->lock (the end of yield() or sleep(), or forkret()).
Dispatch(c) ==
  LET p == slot[c] IN
  /\ pc[c] = "scan"
  /\ lock[p] = NoCPU
  /\ state[p] = "RUNNABLE" /\ priority[p] = level[c]
  /\ state' = [state EXCEPT ![p] = "RUNNING"]
  /\ proc' = [proc EXCEPT ![c] = p]
  /\ Goto(c, resume[p])
  /\ level' = [level EXCEPT ![c] = MLFQ_HIGH]
  /\ slot' = [slot EXCEPT ![c] = 1]
  /\ UNCHANGED <<priority, timeslice, timeslice_used, killed, lock, resume,
                 newborn, sum, starvation_counter>>

\* wfi returns when an interrupt is pending; the loop starts again.
Wfi(c) ==
  /\ pc[c] = "wfi"
  /\ Goto(c, "top")
  /\ UNCHANGED <<pvars, proc, level, slot, sum, starvation_counter>>

\* sched() has swtched to the scheduler, which clears c->proc, releases
\* p->lock and restarts its loops.
SchedReturn(c) ==
  \E p \in Procs :
    /\ At(c, "sched", p)
    /\ lock' = [lock EXCEPT ![p] = NoCPU]
    /\ proc' = [proc EXCEPT ![c] = NoProc]
    /\ Goto(c, "top")
    /\ UNCHANGED <<state, priority, timeslice, timeslice_used, killed, resume,
                   newborn, level, slot, sum, starvation_counter>>

-----------------------------------------------------------------------------
(* clockintr(), mlfq_tick() and boost_all_priorities() *)

\* A timer interrupt enters clockintr(); mlfq_tick() loads starvation_counter.
TimerIntr(c) ==
  /\ pc[c] \in {"run", "top"}
  /\ sum' = [sum EXCEPT ![c] = starvation_counter]
  /\ Goto(c, "count")
  /\ UNCHANGED <<pvars, proc, level, slot, starvation_counter>>

\* Mutant of Count: the boost is never called.
CountNeverBoosts(c) ==
  /\ pc[c] = "count"
  /\ starvation_counter' =
       IF sum[c] + 1 >= STARVATION_THRESHOLD THEN 0 ELSE sum[c] + 1
  /\ Goto(c, "account")
  /\ sum' = [sum EXCEPT ![c] = 0]
  /\ UNCHANGED <<pvars, proc, level, slot>>

\* The store of starvation_counter++ and the comparison.  Racing harts can
\* push the counter past the threshold; all such values act alike, and the
\* model keeps the threshold for them.
Count(c) ==
  /\ pc[c] = "count"
  /\ IF sum[c] + 1 >= STARVATION_THRESHOLD
     THEN starvation_counter' = STARVATION_THRESHOLD /\ Goto(c, "boost")
     ELSE starvation_counter' = sum[c] + 1 /\ Goto(c, "account")
  /\ sum' = [sum EXCEPT ![c] = 0]
  /\ UNCHANGED <<pvars, proc, level, slot>>

\* Leave one iteration of the boost loop; after the last one reset the counter.
BoostLoop(c) ==
  IF slot[c] < NPROC
  THEN /\ slot' = [slot EXCEPT ![c] = @ + 1]
       /\ Goto(c, "boost")
       /\ UNCHANGED starvation_counter
  ELSE /\ slot' = [slot EXCEPT ![c] = 1]
       /\ starvation_counter' = 0
       /\ Goto(c, "account")

\* The unlocked test of p->state, and p->priority = MLFQ_HIGH.
Boost(c) ==
  LET p == slot[c] IN
  /\ pc[c] = "boost"
  /\ IF state[p] \in {"RUNNABLE", "RUNNING"}
     THEN /\ priority' = [priority EXCEPT ![p] = MLFQ_HIGH]
          /\ Goto(c, "boost_slice")
          /\ UNCHANGED <<slot, starvation_counter>>
     ELSE UNCHANGED priority /\ BoostLoop(c)
  /\ UNCHANGED <<state, timeslice, timeslice_used, killed, lock, resume,
                 newborn, proc, level, sum>>

\* p->timeslice = get_timeslice(MLFQ_HIGH)
BoostSlice(c) ==
  /\ pc[c] = "boost_slice"
  /\ timeslice' = [timeslice EXCEPT ![slot[c]] = get_timeslice(MLFQ_HIGH)]
  /\ Goto(c, "boost_used")
  /\ UNCHANGED <<state, priority, timeslice_used, killed, lock, resume, newborn,
                 proc, level, slot, sum, starvation_counter>>

\* p->timeslice_used = 0, then the next iteration.
BoostUsed(c) ==
  /\ pc[c] = "boost_used"
  /\ timeslice_used' = [timeslice_used EXCEPT ![slot[c]] = 0]
  /\ BoostLoop(c)
  /\ UNCHANGED <<state, priority, timeslice, killed, lock, resume, newborn,
                 proc, level, sum>>

\* if(p != 0 && p->state == RUNNING), and the load of p->timeslice_used++.
\* Without a current process the trap returns to the scheduler's intr_off().
Account(c) ==
  LET p == proc[c] IN
  /\ pc[c] = "account"
  /\ IF p = NoProc
     THEN Goto(c, "scan") /\ UNCHANGED sum
     ELSE IF state[p] = "RUNNING"
          THEN /\ sum' = [sum EXCEPT ![c] = timeslice_used[p]]
               /\ Goto(c, "charge")
          ELSE Goto(c, "trapret") /\ UNCHANGED sum
  /\ UNCHANGED <<pvars, proc, level, slot, starvation_counter>>

\* The store of p->timeslice_used++ and the comparison with p->timeslice.
Charge(c) ==
  \E p \in Procs :
    /\ At(c, "charge", p)
    /\ timeslice_used' = [timeslice_used EXCEPT ![p] = sum[c] + 1]
    /\ Goto(c, IF sum[c] + 1 >= timeslice[p] THEN "demote" ELSE "trapret")
    /\ sum' = [sum EXCEPT ![c] = 0]
    /\ UNCHANGED <<state, priority, timeslice, killed, lock, resume, newborn,
                   proc, level, slot, starvation_counter>>

\* if(p->priority < MLFQ_LOW), and the load of p->priority++.
Demote(c) ==
  \E p \in Procs :
    /\ At(c, "demote", p)
    /\ IF priority[p] < MLFQ_LOW
       THEN /\ sum' = [sum EXCEPT ![c] = priority[p] + 1]
            /\ Goto(c, "lower")
       ELSE Goto(c, "expire") /\ UNCHANGED sum
    /\ UNCHANGED <<pvars, proc, level, slot, starvation_counter>>

\* The store of p->priority++.
Lower(c) ==
  \E p \in Procs :
    /\ At(c, "lower", p)
    /\ priority' = [priority EXCEPT ![p] = sum[c]]
    /\ Goto(c, "reslice")
    /\ UNCHANGED <<state, timeslice, timeslice_used, killed, lock, resume,
                   newborn, proc, level, slot, sum, starvation_counter>>

\* p->timeslice = get_timeslice(p->priority), the value just stored.
Reslice(c) ==
  \E p \in Procs :
    /\ At(c, "reslice", p)
    /\ timeslice' = [timeslice EXCEPT ![p] = get_timeslice(sum[c])]
    /\ sum' = [sum EXCEPT ![c] = 0]
    /\ Goto(c, "expire")
    /\ UNCHANGED <<state, priority, timeslice_used, killed, lock, resume,
                   newborn, proc, level, slot, starvation_counter>>

\* Mutant of Expire: timeslice_used keeps its value.
ExpireKeepsUsed(c) ==
  \E p \in Procs :
    /\ At(c, "expire", p)
    /\ state' = [state EXCEPT ![p] = "RUNNABLE"]
    /\ Goto(c, "trapret")
    /\ UNCHANGED <<priority, timeslice, timeslice_used, killed, lock, resume,
                   newborn, proc, level, slot, sum, starvation_counter>>

\* p->timeslice_used = 0 and, without p->lock, p->state = RUNNABLE.
Expire(c) ==
  \E p \in Procs :
    /\ At(c, "expire", p)
    /\ timeslice_used' = [timeslice_used EXCEPT ![p] = 0]
    /\ state' = [state EXCEPT ![p] = "RUNNABLE"]
    /\ Goto(c, "trapret")
    /\ UNCHANGED <<priority, timeslice, killed, lock, resume, newborn, proc,
                   level, slot, sum, starvation_counter>>

-----------------------------------------------------------------------------
(* The end of the trap: usertrap(), kerneltrap() and yield() *)

\* usertrap(): if(killed(p)) kexit(-1).  A process inside kfork() is in the
\* kernel, and kerneltrap() does not look at p->killed.
TrapExit(c) ==
  \E p \in Procs :
    /\ At(c, "trapret", p)
    /\ lock[p] = NoCPU
    /\ killed[p] /\ newborn[p] = NoProc
    /\ Goto(c, "exit")
    /\ UNCHANGED <<pvars, proc, level, slot, sum, starvation_counter>>

\* Mutant of Leave: p->lock is released before sched().
LeaveUnlocked(c, p, next) ==
  /\ lock[p] = NoCPU
  /\ state' = [state EXCEPT ![p] = next]
  /\ Goto(c, "sched")
  /\ UNCHANGED <<priority, timeslice, timeslice_used, killed, lock, newborn,
                 proc, level, slot, sum, starvation_counter>>

\* Acquire p->lock, give p its next state and call sched().
Leave(c, p, next) ==
  /\ lock[p] = NoCPU
  /\ lock' = [lock EXCEPT ![p] = c]
  /\ state' = [state EXCEPT ![p] = next]
  /\ Goto(c, "sched")
  /\ UNCHANGED <<priority, timeslice, timeslice_used, killed, newborn, proc,
                 level, slot, sum, starvation_counter>>

\* yield(), from usertrap() or from kerneltrap().
Yield(c) ==
  \E p \in Procs :
    /\ At(c, "trapret", p)
    /\ Leave(c, p, "RUNNABLE")
    /\ resume' = [resume EXCEPT ![p] = "run"]

-----------------------------------------------------------------------------
(* Process operations, under p->lock *)

\* sleep(), in a system call or in the begin_op()/iput() of kexit().
Sleep(c) ==
  \E p \in Procs :
    /\ At(c, "run", p) \/ At(c, "exit", p)
    /\ newborn[p] = NoProc
    /\ Leave(c, p, "SLEEPING")
    /\ resume' = [resume EXCEPT ![p] = pc[c]]

\* The end of kexit().  The first process is initproc, which never exits.
Exit(c) ==
  \E p \in Procs \ {1} :
    /\ At(c, "run", p) \/ At(c, "exit", p)
    /\ newborn[p] = NoProc
    /\ Leave(c, p, "ZOMBIE")
    /\ UNCHANGED resume

\* wakeup() reaches a process that sleeps on its channel.  The caller is a
\* system call, kexit(), or an interrupt handler (the window at the top of
\* scheduler() included).
Wakeup(c, q) ==
  /\ pc[c] \in {"run", "exit", "top"} /\ proc[c] # q
  /\ lock[q] = NoCPU
  /\ state[q] = "SLEEPING"
  /\ state' = [state EXCEPT ![q] = "RUNNABLE"]
  /\ UNCHANGED <<priority, timeslice, timeslice_used, killed, lock, resume,
                 newborn, cvars, starvation_counter>>

\* Mutant of Kill: the victim becomes RUNNABLE whatever it was doing.
KillAlwaysWakes(c, q) ==
  /\ pc[c] = "run" /\ newborn[proc[c]] = NoProc
  /\ q # 1 /\ state[q] # "UNUSED"
  /\ lock[q] = NoCPU
  /\ killed' = [killed EXCEPT ![q] = TRUE]
  /\ state' = [state EXCEPT ![q] = "RUNNABLE"]
  /\ UNCHANGED <<priority, timeslice, timeslice_used, lock, resume, newborn,
                 cvars, starvation_counter>>

\* kkill() of a process other than initproc (whose exit panics the kernel).
Kill(c, q) ==
  /\ pc[c] = "run" /\ newborn[proc[c]] = NoProc
  /\ q # 1 /\ state[q] # "UNUSED"
  /\ lock[q] = NoCPU
  /\ killed' = [killed EXCEPT ![q] = TRUE]
  /\ state' = [state EXCEPT ![q] = IF @ = "SLEEPING" THEN "RUNNABLE" ELSE @]
  /\ UNCHANGED <<priority, timeslice, timeslice_used, lock, resume, newborn,
                 cvars, starvation_counter>>

\* init_mlfq_proc(), called by allocproc()
init_mlfq_proc(q) ==
  /\ priority' = [priority EXCEPT ![q] = MLFQ_HIGH]
  /\ timeslice' = [timeslice EXCEPT ![q] = get_timeslice(MLFQ_HIGH)]
  /\ timeslice_used' = [timeslice_used EXCEPT ![q] = 0]

\* kfork() up to its first release(&np->lock).  The unlocked gaps of
\* allocproc()'s scan let it miss slots, so any UNUSED slot may be the one
\* found.  When kalloc() or uvmcopy() fails, freeproc() takes the slot back.
ForkAlloc(c, q, ok) ==
  \E p \in Procs :
    /\ At(c, "run", p) /\ newborn[p] = NoProc
    /\ lock[q] = NoCPU /\ state[q] = "UNUSED"
    /\ init_mlfq_proc(q)
    /\ resume' = [resume EXCEPT ![q] = "run"]
    /\ IF ok
       THEN /\ state' = [state EXCEPT ![q] = "USED"]
            /\ newborn' = [newborn EXCEPT ![p] = q]
            /\ UNCHANGED killed
       ELSE /\ killed' = [killed EXCEPT ![q] = FALSE]
            /\ UNCHANGED <<state, newborn>>
    /\ UNCHANGED <<lock, cvars, starvation_counter>>

\* The end of kfork(): np->state = RUNNABLE.
ForkPublish(c) ==
  \E p \in Procs :
    /\ At(c, "run", p) /\ newborn[p] # NoProc
    /\ lock[newborn[p]] = NoCPU
    /\ state' = [state EXCEPT ![newborn[p]] = "RUNNABLE"]
    /\ newborn' = [newborn EXCEPT ![p] = NoProc]
    /\ UNCHANGED <<priority, timeslice, timeslice_used, killed, lock, resume,
                   cvars, starvation_counter>>

\* freeproc() of a zombie by kwait().  Whose child it is does not matter here.
Reap(c, q) ==
  \E p \in Procs :
    /\ At(c, "run", p) /\ newborn[p] = NoProc
    /\ lock[q] = NoCPU /\ state[q] = "ZOMBIE"
    /\ state' = [state EXCEPT ![q] = "UNUSED"]
    /\ killed' = [killed EXCEPT ![q] = FALSE]
    /\ UNCHANGED <<priority, timeslice, timeslice_used, lock, resume, newborn,
                   cvars, starvation_counter>>

-----------------------------------------------------------------------------
\* Two harts execute the same process, on the same kernel stack.
DoubleRun ==
  \E c, d \in CPUs : c # d /\ proc[c] # NoProc /\ proc[c] = proc[d]

Scheduler(c) == StartScan(c) \/ ScanNext(c) \/ Dispatch(c) \/ Wfi(c)
                  \/ SchedReturn(c)

Tick(c) == \/ Count(c) \/ Boost(c) \/ BoostSlice(c) \/ BoostUsed(c)
           \/ Account(c) \/ Charge(c) \/ Demote(c) \/ Lower(c) \/ Reslice(c)
           \/ Expire(c)

ProcStep(c) ==
  \/ Sleep(c) \/ Exit(c) \/ TrapExit(c) \/ ForkPublish(c)
  \/ \E q \in Procs : Wakeup(c, q) \/ Kill(c, q) \/ Reap(c, q)
  \/ \E q \in Procs, ok \in BOOLEAN : ForkAlloc(c, q, ok)

\* Once two harts share a kernel stack the source no longer says what the
\* machine does: behaviours end there.
Next ==
  /\ ~DoubleRun
  /\ \E c \in CPUs : \/ Scheduler(c) \/ TimerIntr(c) \/ Tick(c) \/ Yield(c)
                     \/ ProcStep(c)

Spec == Init /\ [][Next]_vars

\* Harts keep executing, and clockintr() re-arms the timer on every tick.
Fairness ==
  \A c \in CPUs : /\ WF_vars(Scheduler(c)) /\ WF_vars(TimerIntr(c))
                  /\ WF_vars(Tick(c)) /\ WF_vars(Yield(c))

FairSpec == Spec /\ Fairness

\* A machine whose processes only fork and compute.  They leave a hart only
\* on a tick, so scheduler() runs right after one; it takes microseconds, a
\* tick a tenth of a second, and it reaches the next RUNNABLE process before
\* the timer fires again.
CpuBoundNext ==
  /\ ~DoubleRun
  /\ \E c \in CPUs :
       \/ Scheduler(c) \/ Tick(c) \/ Yield(c)
       \/ /\ pc[c] = "run" \/ \A p \in Procs : state[p] # "RUNNABLE"
          /\ TimerIntr(c)
       \/ ForkPublish(c) \/ \E q \in Procs : ForkAlloc(c, q, TRUE)

CpuBoundSpec == Init /\ [][CpuBoundNext]_vars /\ Fairness

-----------------------------------------------------------------------------
(* Properties *)

\* Labels at which a hart is inside mlfq_tick() for its current process.
ChargeLabels == {"charge", "demote", "lower", "reslice", "expire"}

TickLabels == {"count", "boost", "boost_slice", "boost_used", "account"}

\* Labels of usertrap()/kerneltrap()/kexit() after mlfq_tick().
Window == {"trapret", "exit"}

Labels == {"top", "scan", "wfi", "run", "sched"}
            \cup Window \cup TickLabels \cup ChargeLabels

TypeOK ==
  /\ state \in [Procs -> States]
  /\ priority \in [Procs -> Levels]
  /\ timeslice \in [Procs -> Nat]
  /\ timeslice_used \in [Procs -> Nat]
  /\ killed \in [Procs -> BOOLEAN]
  /\ lock \in [Procs -> CPUs \cup {NoCPU}]
  /\ resume \in [Procs -> {"run", "exit"}]
  /\ newborn \in [Procs -> Procs \cup {NoProc}]
  /\ proc \in [CPUs -> Procs \cup {NoProc}]
  /\ pc \in [CPUs -> Labels]
  /\ level \in [CPUs -> Levels]
  /\ slot \in [CPUs -> Procs]
  /\ sum \in [CPUs -> Nat]
  /\ starvation_counter \in 0 .. STARVATION_THRESHOLD

\* p->state says RUNNING exactly of the processes that harts execute: a
\* RUNNING process is the current one of a hart, and a hart that executes
\* process code (or its timer interrupt, up to the point where mlfq_tick()
\* ends the slice) has a current process that is RUNNING.
RunningIsCurrent ==
  /\ \A p \in Procs : state[p] = "RUNNING" => \E c \in CPUs : proc[c] = p
  /\ \A c \in CPUs : \A p \in Procs :
       (proc[c] = p /\ pc[c] \in {"run"} \cup TickLabels \cup ChargeLabels)
         => state[p] = "RUNNING"

\* The only way in which a process can come to execute on two harts is the
\* unlocked p->state = RUNNABLE of mlfq_tick(): one of the two harts is
\* between that store and yield() (or the end of kexit()), and p->lock is
\* free.  sleep(), yield(), wakeup(), kkill() and kfork() never cause it.
DoubleRunOnlyAfterExpiry ==
  \A c, d \in CPUs :
    (c # d /\ proc[c] # NoProc /\ proc[c] = proc[d])
      => /\ pc[c] \in Window \/ pc[d] \in Window
         /\ lock[proc[c]] = NoCPU

\* A process executes on at most one hart: its kernel stack, trapframe and
\* saved context are private to it ("these are private to the process").
NoDoubleRun == ~DoubleRun

\* A hart is inside one of the multi-store updates of p's MLFQ fields.
Updating(c, p) ==
  \/ proc[c] = p /\ pc[c] \in ChargeLabels
  \/ slot[c] = p /\ pc[c] \in {"boost_slice", "boost_used"}

\* Outside an update, a live process has the time slice of its level and has
\* not used it up: mlfq_tick(), boost_all_priorities() and init_mlfq_proc()
\* keep the three fields together.
SliceMatchesLevel ==
  \A p \in Procs :
    (state[p] # "UNUSED" /\ \A c \in CPUs : ~Updating(c, p))
      => /\ timeslice[p] = get_timeslice(priority[p])
         /\ timeslice_used[p] < timeslice[p]

\* A hart that idles in wfi does so because no process is RUNNABLE.
IdleMeansNoWork ==
  \A c \in CPUs : pc[c] = "wfi" => \A p \in Procs : state[p] # "RUNNABLE"

\* Rule 1 of the scheduler: the process a hart switches to has the best
\* priority of all RUNNABLE ones (and the first slot among equals), even
\* though scheduler() looks at the table one lock at a time.
PicksBest ==
  [][\A c \in CPUs : \A p \in Procs :
       (proc[c] = NoProc /\ proc'[c] = p) =>
         \A q \in Procs :
           state[q] = "RUNNABLE" =>
             \/ priority[p] < priority[q]
             \/ priority[p] = priority[q] /\ p <= q]_vars

\* What boost_all_priorities() is for: a RUNNABLE process is not starved, it
\* comes to execute.
NoStarvation ==
  \A p \in Procs :
    state[p] = "RUNNABLE" ~> \E c \in CPUs : proc[c] = p
=============================================================================
