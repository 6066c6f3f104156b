----------------------------- MODULE MlfqProofs -----------------------------
(***************************************************************************)
(* What holds of the scheduler for every number of harts and processes,    *)
(* every choice of slices and every threshold; and then what more holds on *)
(* a machine with one hart: scheduler() picks the best process although it *)
(* looks at the table one lock at a time, it idles only when there is      *)
(* nothing to run, no process executes twice, and the unlocked stores to   *)
(* the slice fields do no harm.                                            *)
(***************************************************************************)
EXTENDS Mlfq, TLAPS

\* The values a racing ++ carries from its load to its store.
SumInv ==
  \A c \in CPUs : pc[c] \in {"lower", "reslice"} => sum[c] \in Levels

\* The inductive invariant behind RunningIsCurrent and
\* DoubleRunOnlyAfterExpiry: which labels have a current process, what its
\* p->state can be there, who holds p->lock, and that kfork()'s child stays
\* USED and known to its parent alone until it is published.
HartIdle ==
  \A c \in CPUs : pc[c] \in {"top", "scan", "wfi"} => proc[c] = NoProc
HartBusy ==
  \A c \in CPUs : pc[c] \in {"run", "sched"} \cup Window \cup ChargeLabels
                    => proc[c] \in Procs
LockHeld ==
  \A c \in CPUs, p \in Procs :
    lock[p] = c <=> (pc[c] = "sched" /\ proc[c] = p)
WindowState ==
  \A c \in CPUs, p \in Procs :
    (proc[c] = p /\ pc[c] \in Window) => state[p] \in {"RUNNING", "RUNNABLE"}
SchedState ==
  \A c \in CPUs, p \in Procs :
    (proc[c] = p /\ pc[c] = "sched")
      => state[p] \in {"RUNNABLE", "SLEEPING", "ZOMBIE"}
NewbornUsed ==
  \A p \in Procs : newborn[p] # NoProc => state[newborn[p]] = "USED"
NewbornOnce ==
  \A p, r \in Procs : (newborn[p] # NoProc /\ newborn[p] = newborn[r]) => p = r

HartInv ==
  /\ HartIdle /\ HartBusy /\ LockHeld /\ WindowState /\ SchedState
  /\ NewbornUsed /\ NewbornOnce

\* The whole of it.
Safe == HartInv /\ RunningIsCurrent /\ DoubleRunOnlyAfterExpiry

-----------------------------------------------------------------------------
\* A step of one hart, the way Next composes it.
HartStep(c) ==
  Scheduler(c) \/ TimerIntr(c) \/ Tick(c) \/ Yield(c) \/ ProcStep(c)

\* userinit() leaves a well-typed table.
LEMMA InitTypes == Init => TypeOK /\ SumInv
BY MlfqAssumption DEF Init, TypeOK, SumInv, Levels, MLFQ_HIGH, MLFQ_LOW, Procs,
   States, Labels, Window, TickLabels, ChargeLabels

\* The boost loop stays inside the table.
LEMMA BoostLoopTypes ==
  ASSUME TypeOK, NEW c \in CPUs, BoostLoop(c)
  PROVE  /\ slot' \in [CPUs -> Procs]
         /\ starvation_counter' \in 0 .. STARVATION_THRESHOLD
         /\ pc' \in [CPUs -> Labels]
<1>1. CASE slot[c] < NPROC
  <2>1. slot[c] + 1 \in Procs
    BY <1>1, MlfqAssumption DEF TypeOK, Procs
  <2>2. "boost" \in Labels
    BY Zenon DEF Labels, TickLabels
  <2>3. QED
    BY <1>1, <2>1, <2>2, Zenon DEF BoostLoop, TypeOK, Goto
<1>2. CASE ~(slot[c] < NPROC)
  <2>1. 1 \in Procs /\ 0 \in 0 .. STARVATION_THRESHOLD
    BY MlfqAssumption DEF Procs
  <2>2. "account" \in Labels
    BY Zenon DEF Labels, TickLabels
  <2>3. QED
    BY <1>2, <2>1, <2>2, Zenon DEF BoostLoop, TypeOK, Goto
<1>3. QED
  BY <1>1, <1>2, Zenon

\* Every step of a hart keeps the types; mlfq_tick() demotes from a level
\* above MLFQ_LOW only, so p->priority stays a level although other harts
\* may write it between the test and the store.
LEMMA StepTypes ==
  ASSUME TypeOK, SumInv, NEW c \in CPUs, HartStep(c)
  PROVE  TypeOK'
<1>1. ASSUME StartScan(c) PROVE TypeOK'
  <2>1. pc' \in [CPUs -> Labels]
    BY <1>1, MlfqAssumption, Zenon DEF StartScan, Goto, TypeOK, SumInv, Labels,
       Window, TickLabels, ChargeLabels
  <2>2. QED
    BY <1>1, <2>1, Zenon DEF StartScan, Goto, TypeOK, pvars, cvars
<1>2. ASSUME ScanNext(c) PROVE TypeOK'
  <2>1. slot' \in [CPUs -> Procs]
    BY <1>2, MlfqAssumption DEF ScanNext, Goto, TypeOK, SumInv, Procs
  <2>2. level' \in [CPUs -> Levels]
    BY <1>2, MlfqAssumption DEF ScanNext, Goto, TypeOK, SumInv, Levels,
       MLFQ_HIGH, MLFQ_LOW
  <2>3. pc' \in [CPUs -> Labels]
    BY <1>2, MlfqAssumption DEF ScanNext, Goto, TypeOK, SumInv, Labels,
       Window, TickLabels, ChargeLabels
  <2>4. QED
    BY <1>2, <2>1, <2>2, <2>3, Zenon DEF ScanNext, Goto, TypeOK, pvars, cvars
<1>3. ASSUME Dispatch(c) PROVE TypeOK'
  <2>1. state' \in [Procs -> States]
    BY <1>3, MlfqAssumption, Zenon DEF Dispatch, Goto, TypeOK, SumInv, States
  <2>2. proc' \in [CPUs -> Procs \cup {NoProc}]
    BY <1>3, MlfqAssumption, Zenon DEF Dispatch, Goto, TypeOK, SumInv
  <2>3. pc' \in [CPUs -> Labels]
    BY <1>3, MlfqAssumption, Zenon DEF Dispatch, Goto, TypeOK, SumInv, Labels,
       Window, TickLabels, ChargeLabels
  <2>4. level' \in [CPUs -> Levels]
    BY <1>3, MlfqAssumption DEF Dispatch, Goto, TypeOK, SumInv, Levels,
       MLFQ_HIGH, MLFQ_LOW
  <2>5. slot' \in [CPUs -> Procs]
    BY <1>3, MlfqAssumption DEF Dispatch, Goto, TypeOK, SumInv, Procs
  <2>6. QED
    BY <1>3, <2>1, <2>2, <2>3, <2>4, <2>5, Zenon DEF Dispatch, Goto, TypeOK, pvars,
       cvars
<1>4. ASSUME Wfi(c) PROVE TypeOK'
  <2>1. pc' \in [CPUs -> Labels]
    BY <1>4, MlfqAssumption, Zenon DEF Wfi, Goto, TypeOK, SumInv, Labels, Window,
       TickLabels, ChargeLabels
  <2>2. QED
    BY <1>4, <2>1, Zenon DEF Wfi, Goto, TypeOK, pvars, cvars
<1>5. ASSUME SchedReturn(c) PROVE TypeOK'
  <2>1. lock' \in [Procs -> CPUs \cup {NoCPU}]
    BY <1>5, MlfqAssumption, Zenon DEF SchedReturn, At, Goto, TypeOK, SumInv
  <2>2. proc' \in [CPUs -> Procs \cup {NoProc}]
    BY <1>5, MlfqAssumption, Zenon DEF SchedReturn, At, Goto, TypeOK, SumInv
  <2>3. pc' \in [CPUs -> Labels]
    BY <1>5, MlfqAssumption, Zenon DEF SchedReturn, At, Goto, TypeOK, SumInv, Labels,
       Window, TickLabels, ChargeLabels
  <2>4. QED
    BY <1>5, <2>1, <2>2, <2>3, Zenon DEF SchedReturn, At, Goto, TypeOK, pvars, cvars
<1>6. ASSUME TimerIntr(c) PROVE TypeOK'
  <2>1. sum' \in [CPUs -> Nat]
    BY <1>6, MlfqAssumption DEF TimerIntr, Goto, TypeOK, SumInv, Levels,
       MLFQ_HIGH, MLFQ_LOW
  <2>2. pc' \in [CPUs -> Labels]
    BY <1>6, MlfqAssumption, Zenon DEF TimerIntr, Goto, TypeOK, SumInv, Labels,
       Window, TickLabels, ChargeLabels
  <2>3. QED
    BY <1>6, <2>1, <2>2, Zenon DEF TimerIntr, Goto, TypeOK, pvars, cvars
<1>7. ASSUME Count(c) PROVE TypeOK'
  <2>1. starvation_counter' \in 0 .. STARVATION_THRESHOLD
    BY <1>7, MlfqAssumption DEF Count, Goto, TypeOK, SumInv
  <2>2. sum' \in [CPUs -> Nat]
    BY <1>7, MlfqAssumption, Zenon DEF Count, Goto, TypeOK, SumInv, Levels,
       MLFQ_HIGH, MLFQ_LOW
  <2>3. pc' \in [CPUs -> Labels]
    BY <1>7, MlfqAssumption DEF Count, Goto, TypeOK, SumInv, Labels, Window,
       TickLabels, ChargeLabels
  <2>4. QED
    BY <1>7, <2>1, <2>2, <2>3, Zenon DEF Count, Goto, TypeOK, pvars, cvars
<1>8. ASSUME Boost(c) PROVE TypeOK'
  <2>1. priority' \in [Procs -> Levels]
    BY <1>8, MlfqAssumption DEF Boost, BoostLoop, Goto, TypeOK, SumInv,
       Levels, MLFQ_HIGH, MLFQ_LOW
  <2>2. slot' \in [CPUs -> Procs]
    BY <1>8, BoostLoopTypes, Zenon DEF Boost, Goto, TypeOK
  <2>3. starvation_counter' \in 0 .. STARVATION_THRESHOLD
    BY <1>8, BoostLoopTypes, Zenon DEF Boost, Goto, TypeOK
  <2>4. pc' \in [CPUs -> Labels]
    BY <1>8, BoostLoopTypes DEF Boost, Goto, TypeOK, Labels, Window,
       TickLabels, ChargeLabels
  <2>5. QED
    BY <1>8, <2>1, <2>2, <2>3, <2>4, Zenon DEF Boost, BoostLoop, Goto, TypeOK, pvars,
       cvars
<1>9. ASSUME BoostSlice(c) PROVE TypeOK'
  <2>1. timeslice' \in [Procs -> Nat]
    BY <1>9, MlfqAssumption, Zenon DEF BoostSlice, Goto, TypeOK, SumInv,
       get_timeslice
  <2>2. pc' \in [CPUs -> Labels]
    BY <1>9, MlfqAssumption, Zenon DEF BoostSlice, Goto, TypeOK, SumInv, Labels,
       Window, TickLabels, ChargeLabels
  <2>3. QED
    BY <1>9, <2>1, <2>2, Zenon DEF BoostSlice, Goto, TypeOK, pvars, cvars
<1>10. ASSUME BoostUsed(c) PROVE TypeOK'
  <2>1. timeslice_used' \in [Procs -> Nat]
    BY <1>10, MlfqAssumption, Zenon DEF BoostUsed, BoostLoop, Goto, TypeOK, SumInv
  <2>2. slot' \in [CPUs -> Procs]
    BY <1>10, BoostLoopTypes, Zenon DEF BoostUsed, Goto, TypeOK
  <2>3. starvation_counter' \in 0 .. STARVATION_THRESHOLD
    BY <1>10, BoostLoopTypes, Zenon DEF BoostUsed, Goto, TypeOK
  <2>4. pc' \in [CPUs -> Labels]
    BY <1>10, BoostLoopTypes, Zenon DEF BoostUsed, Goto, TypeOK
  <2>5. QED
    BY <1>10, <2>1, <2>2, <2>3, <2>4, Zenon DEF BoostUsed, BoostLoop, Goto, TypeOK,
       pvars, cvars
<1>11. ASSUME Account(c) PROVE TypeOK'
  <2>1. sum' \in [CPUs -> Nat]
    BY <1>11, MlfqAssumption DEF Account, Goto, TypeOK, SumInv, Levels,
       MLFQ_HIGH, MLFQ_LOW
  <2>2. pc' \in [CPUs -> Labels]
    BY <1>11, MlfqAssumption DEF Account, Goto, TypeOK, SumInv, Labels,
       Window, TickLabels, ChargeLabels
  <2>3. QED
    BY <1>11, <2>1, <2>2, Zenon DEF Account, Goto, TypeOK, pvars, cvars
<1>12. ASSUME Charge(c) PROVE TypeOK'
  <2>1. timeslice_used' \in [Procs -> Nat]
    BY <1>12, MlfqAssumption DEF Charge, At, Goto, TypeOK, SumInv
  <2>2. sum' \in [CPUs -> Nat]
    BY <1>12, MlfqAssumption DEF Charge, At, Goto, TypeOK, SumInv, Levels,
       MLFQ_HIGH, MLFQ_LOW
  <2>3. pc' \in [CPUs -> Labels]
    BY <1>12, MlfqAssumption DEF Charge, At, Goto, TypeOK, SumInv, Labels,
       Window, TickLabels, ChargeLabels
  <2>4. QED
    BY <1>12, <2>1, <2>2, <2>3 DEF Charge, At, Goto, TypeOK, pvars, cvars
<1>13. ASSUME Demote(c) PROVE TypeOK'
  <2>1. sum' \in [CPUs -> Nat]
    BY <1>13, MlfqAssumption DEF Demote, At, Goto, TypeOK, SumInv, Levels,
       MLFQ_HIGH, MLFQ_LOW
  <2>2. pc' \in [CPUs -> Labels]
    BY <1>13, MlfqAssumption DEF Demote, At, Goto, TypeOK, SumInv, Labels,
       Window, TickLabels, ChargeLabels
  <2>3. QED
    BY <1>13, <2>1, <2>2, Zenon DEF Demote, At, Goto, TypeOK, pvars, cvars
<1>14. ASSUME Lower(c) PROVE TypeOK'
  <2>1. priority' \in [Procs -> Levels]
    BY <1>14, MlfqAssumption, Zenon DEF Lower, At, Goto, TypeOK, SumInv, Levels,
       MLFQ_HIGH, MLFQ_LOW
  <2>2. pc' \in [CPUs -> Labels]
    BY <1>14, MlfqAssumption, Zenon DEF Lower, At, Goto, TypeOK, SumInv, Labels,
       Window, TickLabels, ChargeLabels
  <2>3. QED
    BY <1>14, <2>1, <2>2 DEF Lower, At, Goto, TypeOK, pvars, cvars
<1>15. ASSUME Reslice(c) PROVE TypeOK'
  <2>1. timeslice' \in [Procs -> Nat]
    BY <1>15, MlfqAssumption DEF Reslice, Goto, At, TypeOK, SumInv,
       get_timeslice
  <2>2. sum' \in [CPUs -> Nat]
    BY <1>15, MlfqAssumption DEF Reslice, Goto, At, TypeOK, SumInv, Levels,
       MLFQ_HIGH, MLFQ_LOW
  <2>3. pc' \in [CPUs -> Labels]
    BY <1>15, MlfqAssumption, Zenon DEF Reslice, Goto, At, TypeOK, SumInv, Labels,
       Window, TickLabels, ChargeLabels
  <2>4. QED
    BY <1>15, <2>1, <2>2, <2>3 DEF Reslice, Goto, At, TypeOK, pvars, cvars
<1>16. ASSUME Expire(c) PROVE TypeOK'
  <2>1. timeslice_used' \in [Procs -> Nat]
    BY <1>16, MlfqAssumption DEF Expire, At, Goto, TypeOK, SumInv
  <2>2. state' \in [Procs -> States]
    BY <1>16, MlfqAssumption, Zenon DEF Expire, At, Goto, TypeOK, SumInv, States
  <2>3. pc' \in [CPUs -> Labels]
    BY <1>16, MlfqAssumption, Zenon DEF Expire, At, Goto, TypeOK, SumInv, Labels,
       Window, TickLabels, ChargeLabels
  <2>4. QED
    BY <1>16, <2>1, <2>2, <2>3 DEF Expire, At, Goto, TypeOK, pvars, cvars
<1>17. ASSUME Yield(c) PROVE TypeOK'
  <2>1. lock' \in [Procs -> CPUs \cup {NoCPU}]
    BY <1>17, MlfqAssumption DEF Yield, Leave, At, Goto, TypeOK, SumInv
  <2>2. state' \in [Procs -> States]
    BY <1>17, MlfqAssumption, Zenon DEF Yield, Leave, At, Goto, TypeOK, SumInv,
       States
  <2>3. pc' \in [CPUs -> Labels]
    BY <1>17, MlfqAssumption DEF Yield, Leave, At, Goto, TypeOK, SumInv,
       Labels, Window, TickLabels, ChargeLabels
  <2>4. resume' \in [Procs -> {"run", "exit"}]
    BY <1>17, MlfqAssumption, Zenon DEF Yield, Leave, At, Goto, TypeOK, SumInv
  <2>5. QED
    BY <1>17, <2>1, <2>2, <2>3, <2>4 DEF Yield, Leave, At, Goto, TypeOK,
       pvars, cvars
<1>18. ASSUME Sleep(c) PROVE TypeOK'
  <2>1. lock' \in [Procs -> CPUs \cup {NoCPU}]
    BY <1>18, MlfqAssumption DEF Sleep, Leave, At, Goto, TypeOK, SumInv
  <2>2. state' \in [Procs -> States]
    BY <1>18, MlfqAssumption, Zenon DEF Sleep, Leave, At, Goto, TypeOK, SumInv,
       States
  <2>3. pc' \in [CPUs -> Labels]
    BY <1>18, MlfqAssumption, Zenon DEF Sleep, Leave, At, Goto, TypeOK, SumInv,
       Labels, Window, TickLabels, ChargeLabels
  <2>4. resume' \in [Procs -> {"run", "exit"}]
    BY <1>18, MlfqAssumption, Zenon DEF Sleep, Leave, At, Goto, TypeOK, SumInv
  <2>5. QED
    BY <1>18, <2>1, <2>2, <2>3, <2>4 DEF Sleep, Leave, At, Goto, TypeOK,
       pvars, cvars
<1>19. ASSUME Exit(c) PROVE TypeOK'
  <2>1. lock' \in [Procs -> CPUs \cup {NoCPU}]
    BY <1>19, MlfqAssumption DEF Exit, Leave, At, Goto, TypeOK, SumInv
  <2>2. state' \in [Procs -> States]
    BY <1>19, MlfqAssumption, Zenon DEF Exit, Leave, At, Goto, TypeOK, SumInv, States
  <2>3. pc' \in [CPUs -> Labels]
    BY <1>19, MlfqAssumption DEF Exit, Leave, At, Goto, TypeOK, SumInv,
       Labels, Window, TickLabels, ChargeLabels
  <2>4. QED
    BY <1>19, <2>1, <2>2, <2>3 DEF Exit, Leave, At, Goto, TypeOK, pvars, cvars
<1>20. ASSUME TrapExit(c) PROVE TypeOK'
  <2>1. pc' \in [CPUs -> Labels]
    BY <1>20, MlfqAssumption DEF TrapExit, At, Goto, TypeOK, SumInv, Labels,
       Window, TickLabels, ChargeLabels
  <2>2. QED
    BY <1>20, <2>1 DEF TrapExit, At, Goto, TypeOK, pvars, cvars
<1>21. ASSUME ForkPublish(c) PROVE TypeOK'
  <2>1. state' \in [Procs -> States]
    BY <1>21, MlfqAssumption, Zenon DEF ForkPublish, At, TypeOK, SumInv, States
  <2>2. newborn' \in [Procs -> Procs \cup {NoProc}]
    BY <1>21, MlfqAssumption, Zenon DEF ForkPublish, At, TypeOK, SumInv
  <2>3. QED
    BY <1>21, <2>1, <2>2 DEF ForkPublish, At, TypeOK, pvars, cvars
<1>22. ASSUME NEW q \in Procs, Wakeup(c, q)
      PROVE  TypeOK'
  <2>1. state' \in [Procs -> States]
    BY <1>22, MlfqAssumption, Zenon DEF Wakeup, TypeOK, SumInv, States
  <2>2. QED
    BY <1>22, <2>1, Zenon DEF Wakeup, TypeOK, pvars, cvars
<1>23. ASSUME NEW q \in Procs, Kill(c, q)
      PROVE  TypeOK'
  <2>1. killed' \in [Procs -> BOOLEAN]
    BY <1>23, MlfqAssumption, Zenon DEF Kill, TypeOK, SumInv
  <2>2. state' \in [Procs -> States]
    BY <1>23, MlfqAssumption, Zenon DEF Kill, TypeOK, SumInv, States
  <2>3. QED
    BY <1>23, <2>1, <2>2, Zenon DEF Kill, TypeOK, pvars, cvars
<1>24. ASSUME NEW q \in Procs, Reap(c, q)
      PROVE  TypeOK'
  <2>1. state' \in [Procs -> States]
    BY <1>24, MlfqAssumption DEF Reap, At, TypeOK, SumInv, States
  <2>2. killed' \in [Procs -> BOOLEAN]
    BY <1>24, MlfqAssumption, Zenon DEF Reap, At, TypeOK, SumInv
  <2>3. QED
    BY <1>24, <2>1, <2>2 DEF Reap, At, TypeOK, pvars, cvars
<1>25. ASSUME NEW q \in Procs, NEW ok \in BOOLEAN, ForkAlloc(c, q, ok)
      PROVE  TypeOK'
  <2>1. state' \in [Procs -> States]
    BY <1>25, MlfqAssumption DEF ForkAlloc, At, init_mlfq_proc, TypeOK,
       SumInv, States
  <2>2. priority' \in [Procs -> Levels]
    BY <1>25, MlfqAssumption DEF ForkAlloc, At, init_mlfq_proc, TypeOK,
       SumInv, Levels, MLFQ_HIGH, MLFQ_LOW
  <2>3. timeslice' \in [Procs -> Nat]
    BY <1>25, MlfqAssumption DEF ForkAlloc, At, init_mlfq_proc, TypeOK,
       SumInv, get_timeslice
  <2>4. timeslice_used' \in [Procs -> Nat]
    BY <1>25, MlfqAssumption DEF ForkAlloc, At, init_mlfq_proc, TypeOK, SumInv
  <2>5. killed' \in [Procs -> BOOLEAN]
    <3>1. CASE ok
      BY <1>25, <3>1, Zenon DEF ForkAlloc, TypeOK
    <3>2. CASE ~ok
      BY <1>25, <3>2, Zenon DEF ForkAlloc, TypeOK
    <3>3. QED
      BY <3>1, <3>2, Zenon
  <2>6. resume' \in [Procs -> {"run", "exit"}]
    BY <1>25, MlfqAssumption, Zenon DEF ForkAlloc, At, init_mlfq_proc, TypeOK, SumInv
  <2>7. newborn' \in [Procs -> Procs \cup {NoProc}]
    BY <1>25, MlfqAssumption DEF ForkAlloc, At, init_mlfq_proc, TypeOK, SumInv
  <2>8. QED
    BY <1>25, <2>1, <2>2, <2>3, <2>4, <2>5, <2>6, <2>7, Zenon DEF ForkAlloc, At,
       init_mlfq_proc, TypeOK, pvars, cvars
<1>26. QED
  BY <1>1, <1>2, <1>3, <1>4, <1>5, <1>6, <1>7, <1>8, <1>9, <1>10, <1>11,
     <1>12, <1>13, <1>14, <1>15, <1>16, <1>17, <1>18, <1>19, <1>20, <1>21,
     <1>22, <1>23, <1>24, <1>25, Zenon DEF HartStep, Scheduler, Tick, ProcStep

\* The labels that carry a level in sum keep it one.
LEMMA StepSum ==
  ASSUME TypeOK, SumInv, NEW c \in CPUs, HartStep(c)
  PROVE  SumInv'
<1>1. ASSUME StartScan(c) PROVE SumInv'
  BY <1>1, Zenon DEF StartScan, Goto, TypeOK, SumInv, pvars, cvars
<1>2. ASSUME ScanNext(c) PROVE SumInv'
  BY <1>2, Zenon DEF ScanNext, Goto, TypeOK, SumInv, pvars, cvars
<1>3. ASSUME Dispatch(c) PROVE SumInv'
  BY <1>3, Zenon DEF Dispatch, Goto, TypeOK, SumInv, pvars, cvars
<1>4. ASSUME Wfi(c) PROVE SumInv'
  BY <1>4, Zenon DEF Wfi, Goto, TypeOK, SumInv, pvars, cvars
<1>5. ASSUME SchedReturn(c) PROVE SumInv'
  BY <1>5 DEF SchedReturn, At, Goto, TypeOK, SumInv, pvars, cvars
<1>6. ASSUME TimerIntr(c) PROVE SumInv'
  BY <1>6, Zenon DEF TimerIntr, Goto, TypeOK, SumInv, pvars, cvars
<1>7. ASSUME Count(c) PROVE SumInv'
  BY <1>7, Zenon DEF Count, Goto, TypeOK, SumInv, pvars, cvars
<1>8. ASSUME Boost(c) PROVE SumInv'
  BY <1>8 DEF Boost, BoostLoop, Goto, TypeOK, SumInv, pvars, cvars
<1>9. ASSUME BoostSlice(c) PROVE SumInv'
  BY <1>9, Zenon DEF BoostSlice, Goto, TypeOK, SumInv, pvars, cvars
<1>10. ASSUME BoostUsed(c) PROVE SumInv'
  BY <1>10, Zenon DEF BoostUsed, BoostLoop, Goto, TypeOK, SumInv, pvars, cvars
<1>11. ASSUME Account(c) PROVE SumInv'
  BY <1>11 DEF Account, Goto, TypeOK, SumInv, pvars, cvars
<1>12. ASSUME Charge(c) PROVE SumInv'
  BY <1>12 DEF Charge, At, Goto, TypeOK, SumInv, pvars, cvars
<1>13. ASSUME Demote(c) PROVE SumInv'
  BY <1>13 DEF Demote, At, Goto, TypeOK, SumInv, pvars, cvars, Levels,
     MLFQ_HIGH, MLFQ_LOW
<1>14. ASSUME Lower(c) PROVE SumInv'
  BY <1>14, Zenon DEF Lower, At, Goto, TypeOK, SumInv, pvars, cvars, Levels,
     MLFQ_HIGH, MLFQ_LOW
<1>15. ASSUME Reslice(c) PROVE SumInv'
  BY <1>15 DEF Reslice, Goto, At, TypeOK, SumInv, pvars, cvars, Levels,
     MLFQ_HIGH, MLFQ_LOW
<1>16. ASSUME Expire(c) PROVE SumInv'
  BY <1>16 DEF Expire, At, Goto, TypeOK, SumInv, pvars, cvars
<1>17. ASSUME Yield(c) PROVE SumInv'
  BY <1>17 DEF Yield, Leave, At, Goto, TypeOK, SumInv, pvars, cvars
<1>18. ASSUME Sleep(c) PROVE SumInv'
  BY <1>18 DEF Sleep, Leave, At, Goto, TypeOK, SumInv, pvars, cvars
<1>19. ASSUME Exit(c) PROVE SumInv'
  BY <1>19 DEF Exit, Leave, At, Goto, TypeOK, SumInv, pvars, cvars
<1>20. ASSUME TrapExit(c) PROVE SumInv'
  BY <1>20, Zenon DEF TrapExit, At, Goto, TypeOK, SumInv, pvars, cvars
<1>21. ASSUME ForkPublish(c) PROVE SumInv'
  BY <1>21, Zenon DEF ForkPublish, At, TypeOK, SumInv, pvars, cvars
<1>22. ASSUME NEW q \in Procs, Wakeup(c, q)
      PROVE  SumInv'
  BY <1>22, Zenon DEF Wakeup, TypeOK, SumInv, pvars, cvars
<1>23. ASSUME NEW q \in Procs, Kill(c, q)
      PROVE  SumInv'
  BY <1>23, Zenon DEF Kill, TypeOK, SumInv, pvars, cvars
<1>24. ASSUME NEW q \in Procs, Reap(c, q)
      PROVE  SumInv'
  BY <1>24, Zenon DEF Reap, At, TypeOK, SumInv, pvars, cvars
<1>25. ASSUME NEW q \in Procs, NEW ok \in BOOLEAN, ForkAlloc(c, q, ok)
      PROVE  SumInv'
  BY <1>25, Zenon DEF ForkAlloc, At, init_mlfq_proc, TypeOK, SumInv, pvars, cvars
<1>26. QED
  BY <1>1, <1>2, <1>3, <1>4, <1>5, <1>6, <1>7, <1>8, <1>9, <1>10, <1>11,
     <1>12, <1>13, <1>14, <1>15, <1>16, <1>17, <1>18, <1>19, <1>20, <1>21,
     <1>22, <1>23, <1>24, <1>25, Zenon DEF HartStep, Scheduler, Tick, ProcStep

\* A hart that neither enters nor leaves sched() keeps the locks as they are.
LEMMA LockKept ==
  ASSUME LockHeld, UNCHANGED lock, NEW c \in CPUs,
         pc[c] # "sched", pc'[c] # "sched",
         \A d \in CPUs : d # c => proc'[d] = proc[d] /\ pc'[d] = pc[d]
  PROVE  LockHeld'
<1>1. ASSUME NEW d \in CPUs, NEW p \in Procs
      PROVE  lock'[p] = d <=> (pc'[d] = "sched" /\ proc'[d] = p)
  <2>1. lock[p] = d <=> (pc[d] = "sched" /\ proc[d] = p)
    BY DEF LockHeld
  <2>2. CASE d = c
    BY <2>1, <2>2, Zenon
  <2>3. CASE d # c
    BY <2>1, <2>3, Zenon
  <2>4. QED
    BY <2>2, <2>3, Zenon
<1>2. QED
  BY <1>1, Zenon DEF LockHeld

\* scheduler() picks a process whose p->lock is free: if another hart has it as
\* its current process, that hart has passed mlfq_tick()'s store.
LEMMA DispatchStep ==
  ASSUME TypeOK, ~DoubleRun, HartInv, RunningIsCurrent, NEW c \in CPUs, Dispatch(c)
  PROVE  Safe'
<1> DEFINE p == slot[c]
<1> USE DEF Window, TickLabels, ChargeLabels
<1>1. /\ p \in Procs /\ lock[p] = NoCPU /\ state[p] = "RUNNABLE"
      /\ pc[c] = "scan" /\ proc[c] = NoProc
      /\ state' = [state EXCEPT ![p] = "RUNNING"]
      /\ proc' = [proc EXCEPT ![c] = p]
      /\ pc' = [pc EXCEPT ![c] = resume[p]]
      /\ resume[p] \in {"run", "exit"}
      /\ UNCHANGED <<lock, newborn>>
  BY Zenon DEF Dispatch, Goto, TypeOK, HartInv, HartIdle
<1>3. p # NoProc
  BY <1>1, MlfqAssumption, Zenon DEF Procs
<1> HIDE DEF p
<1>2. ASSUME NEW d \in CPUs, proc[d] = p PROVE pc[d] \in Window
  <2>1. pc[d] \notin {"top", "scan", "wfi"}
    BY <1>2, <1>3, Zenon DEF HartInv, HartIdle
  <2>2. pc[d] \notin {"run"} \cup TickLabels \cup ChargeLabels
    BY <1>1, <1>2, Zenon DEF RunningIsCurrent
  <2>3. pc[d] # "sched"
    BY <1>1, <1>2, MlfqAssumption DEF HartInv, LockHeld
  <2>4. QED
    BY <2>1, <2>2, <2>3, Zenon DEF TypeOK, Labels
<1>4. HartInv'
  <2>0. /\ proc'[c] = p /\ pc'[c] = resume[p] /\ state'[p] = "RUNNING"
        /\ \A d \in CPUs : d # c => proc'[d] = proc[d] /\ pc'[d] = pc[d]
        /\ \A q \in Procs : q # p => state'[q] = state[q]
    BY <1>1, Zenon DEF TypeOK
  <2>1. LockHeld'
    BY <1>1, <2>0, LockKept, Zenon DEF HartInv
  <2>2. \A r \in Procs : newborn[r] # NoProc => newborn[r] # p
    BY <1>1, Zenon DEF HartInv, NewbornUsed
  <2>3. WindowState'
    BY <1>1, <2>0 DEF HartInv, WindowState
  <2>4. SchedState'
    BY <1>1, <1>2, <2>0 DEF HartInv, SchedState
  <2>5. HartIdle' /\ HartBusy'
    BY <1>1, <1>3, <2>0 DEF HartInv, HartIdle, HartBusy
  <2>6. NewbornUsed' /\ NewbornOnce'
    BY <1>1, <2>2, <2>0 DEF HartInv, NewbornUsed, NewbornOnce, TypeOK
  <2>7. QED
    BY <2>1, <2>3, <2>4, <2>5, <2>6, Zenon DEF HartInv
<1>5. \A q \in Procs : state'[q] = "RUNNING" => \E d \in CPUs : proc'[d] = q
  <2>1. TAKE q \in Procs
  <2>2. HAVE state'[q] = "RUNNING"
  <2>3. CASE q = p
    BY <1>1, <2>3, Zenon DEF TypeOK
  <2>4. CASE q # p
    <3>1. PICK d \in CPUs : proc[d] = q
      BY <1>1, <2>2, <2>4, Zenon DEF RunningIsCurrent, TypeOK
    <3>2. proc'[d] = q
      BY <1>1, <3>1, MlfqAssumption, Zenon DEF TypeOK, Procs
    <3>3. QED
      BY <3>2, Zenon
  <2>5. QED
    BY <2>3, <2>4, Zenon
<1>6. \A d \in CPUs, q \in Procs :
        (proc'[d] = q /\ pc'[d] \in {"run"} \cup TickLabels \cup ChargeLabels)
          => state'[q] = "RUNNING"
  BY <1>1 DEF RunningIsCurrent, TypeOK
<1>7. RunningIsCurrent'
  BY <1>5, <1>6, Zenon DEF RunningIsCurrent
<1>8. DoubleRunOnlyAfterExpiry'
  BY <1>1, <1>2 DEF DoubleRunOnlyAfterExpiry, DoubleRun, TypeOK
<1>9. QED
  BY <1>4, <1>7, <1>8, Zenon DEF Safe

\* yield(), sleep() and kexit() enter sched() with the only hart that executes
\* p, and with p->lock.
LEMMA LeaveStep ==
  ASSUME TypeOK, ~DoubleRun, HartInv, RunningIsCurrent, NEW c \in CPUs,
         NEW p \in Procs, proc[c] = p, pc[c] \in {"run"} \cup Window,
         NEW next \in {"RUNNABLE", "SLEEPING", "ZOMBIE"}, Leave(c, p, next)
  PROVE  Safe'
<1> USE DEF Window, TickLabels, ChargeLabels
<1>1. /\ lock' = [lock EXCEPT ![p] = c]
      /\ state' = [state EXCEPT ![p] = next]
      /\ pc' = [pc EXCEPT ![c] = "sched"]
      /\ UNCHANGED <<proc, newborn>>
  BY Zenon DEF Leave, Goto
<1>2. p # NoProc
  BY MlfqAssumption, Zenon DEF Procs
<1>3. \A d \in CPUs : d # c => proc[d] # p
  BY <1>2, Zenon DEF DoubleRun
<1>4. state[p] \in {"RUNNING", "RUNNABLE"}
  BY Zenon DEF HartInv, WindowState, RunningIsCurrent
<1>5. \A r \in Procs : newborn[r] # NoProc => newborn[r] # p
  BY <1>4, Zenon DEF HartInv, NewbornUsed
<1>6. /\ lock'[p] = c /\ state'[p] = next /\ pc'[c] = "sched"
      /\ \A d \in CPUs : d # c => pc'[d] = pc[d]
      /\ \A q \in Procs : q # p => state'[q] = state[q] /\ lock'[q] = lock[q]
      /\ lock[p] = NoCPU
  BY <1>1 DEF TypeOK, Leave
<1>7. \A d \in CPUs, q \in Procs :
        (proc'[d] = q /\ pc'[d] \in {"run"} \cup TickLabels \cup ChargeLabels)
             => state'[q] = "RUNNING"
  BY <1>1, <1>3, <1>6 DEF RunningIsCurrent
<1>8. HartInv'
  <2>1. LockHeld'
    BY <1>1, <1>3, <1>6 DEF HartInv, LockHeld
  <2>2. WindowState'
    BY <1>1, <1>3, <1>6 DEF HartInv, WindowState
  <2>3. SchedState'
    BY <1>1, <1>3, <1>6 DEF HartInv, SchedState
  <2>4. HartIdle' /\ HartBusy'
    BY <1>1, <1>6, Zenon DEF HartInv, HartIdle, HartBusy
  <2>5. NewbornUsed' /\ NewbornOnce'
    BY <1>1, <1>5, <1>6 DEF HartInv, NewbornUsed, NewbornOnce, TypeOK
  <2>6. QED
    BY <2>1, <2>2, <2>3, <2>4, <2>5, Zenon DEF HartInv
<1>9. \A q \in Procs : state'[q] = "RUNNING" => \E d \in CPUs : proc'[d] = q
  BY <1>1, Zenon DEF RunningIsCurrent, TypeOK
<1>10. RunningIsCurrent'
  BY <1>7, <1>9, Zenon DEF RunningIsCurrent
<1>11. DoubleRunOnlyAfterExpiry'
  BY <1>1, Zenon DEF DoubleRunOnlyAfterExpiry, DoubleRun
<1>12. QED
  BY <1>8, <1>10, <1>11, Zenon DEF Safe

\* mlfq_tick()'s store opens the window and breaks nothing else.
LEMMA ExpireStep ==
  ASSUME TypeOK, ~DoubleRun, HartInv, RunningIsCurrent, NEW c \in CPUs, Expire(c)
  PROVE  Safe'
<1> USE DEF Window, TickLabels, ChargeLabels
<1>1. PICK p \in Procs :
        /\ proc[c] = p /\ pc[c] = "expire"
        /\ state' = [state EXCEPT ![p] = "RUNNABLE"]
        /\ pc' = [pc EXCEPT ![c] = "trapret"]
        /\ UNCHANGED <<proc, lock, newborn>>
  BY Zenon DEF Expire, At, Goto
<1>2. p # NoProc
  BY MlfqAssumption, Zenon DEF Procs
<1>3. \A d \in CPUs : d # c => proc[d] # p
  BY <1>1, <1>2, Zenon DEF DoubleRun
<1>4. state[p] = "RUNNING"
  BY <1>1, Zenon DEF RunningIsCurrent
<1>5. HartInv'
  <2>1. /\ state'[p] = "RUNNABLE" /\ pc'[c] = "trapret"
        /\ \A d \in CPUs : d # c => pc'[d] = pc[d]
        /\ \A q \in Procs : q # p => state'[q] = state[q]
    BY <1>1, Zenon DEF TypeOK
  <2>2. LockHeld'
    BY <1>1, <2>1, LockKept, Zenon DEF HartInv
  <2>3. WindowState'
    BY <1>1, <2>1 DEF HartInv, WindowState
  <2>4. SchedState'
    BY <1>1, <1>3, <2>1 DEF HartInv, SchedState
  <2>5. HartIdle' /\ HartBusy'
    BY <1>1, <2>1, Zenon DEF HartInv, HartIdle, HartBusy
  <2>6. NewbornUsed' /\ NewbornOnce'
    BY <1>1, <1>4, <2>1 DEF HartInv, NewbornUsed, NewbornOnce, TypeOK
  <2>7. QED
    BY <2>2, <2>3, <2>4, <2>5, <2>6, Zenon DEF HartInv
<1>6. \A d \in CPUs, q \in Procs :
        (proc'[d] = q /\ pc'[d] \in {"run"} \cup TickLabels \cup ChargeLabels)
             => state'[q] = "RUNNING"
  BY <1>1, <1>3 DEF RunningIsCurrent, TypeOK
<1>7. \A q \in Procs : state'[q] = "RUNNING" => \E d \in CPUs : proc'[d] = q
  BY <1>1, Zenon DEF RunningIsCurrent, TypeOK
<1>8. RunningIsCurrent'
  BY <1>6, <1>7, Zenon DEF RunningIsCurrent
<1>9. DoubleRunOnlyAfterExpiry'
  BY <1>1, Zenon DEF DoubleRunOnlyAfterExpiry, DoubleRun
<1>10. QED
  BY <1>5, <1>8, <1>9, Zenon DEF Safe

\* The invariant speaks of these five variables only.
LEMMA SameSafe ==
  ASSUME Safe, UNCHANGED <<proc, pc, state, lock, newborn>>
  PROVE  Safe'
<1>1. HartInv'
  <2>1. HartIdle' /\ HartBusy' /\ LockHeld'
    BY DEF Safe, HartInv, HartIdle, HartBusy, LockHeld, Window, ChargeLabels,
       Procs
  <2>2. WindowState' /\ SchedState'
    BY Zenon DEF Safe, HartInv, WindowState, SchedState, Window, Procs
  <2>3. NewbornUsed' /\ NewbornOnce'
    BY Zenon DEF Safe, HartInv, NewbornUsed, NewbornOnce, Procs
  <2>4. QED
    BY <2>1, <2>2, <2>3, Zenon DEF HartInv
<1>2. RunningIsCurrent'
  BY Zenon DEF Safe, RunningIsCurrent, TickLabels, ChargeLabels, Procs
<1>3. DoubleRunOnlyAfterExpiry'
  BY Zenon DEF Safe, DoubleRunOnlyAfterExpiry
<1>4. QED
  BY <1>1, <1>2, <1>3, Zenon DEF Safe

\* A step that only moves hart c to another label, one that suits the current
\* process, keeps the invariant.
LEMMA MoveStep ==
  ASSUME TypeOK, Safe, ~DoubleRun, NEW c \in CPUs, NEW l,
         pc' = [pc EXCEPT ![c] = l],
         UNCHANGED <<proc, state, lock, newborn>>,
         pc[c] # "sched", l # "sched",
         l \in {"top", "scan", "wfi"} => proc[c] = NoProc,
         l \in {"run"} \cup Window \cup ChargeLabels => proc[c] \in Procs,
         \A p \in Procs : (proc[c] = p /\ l \in Window)
                            => state[p] \in {"RUNNING", "RUNNABLE"},
         \A p \in Procs :
           (proc[c] = p /\ l \in {"run"} \cup TickLabels \cup ChargeLabels)
             => state[p] = "RUNNING"
  PROVE  Safe'
<1>1. pc'[c] = l /\ \A d \in CPUs : d # c => pc'[d] = pc[d]
  BY Zenon DEF TypeOK
<1>2. HartIdle' /\ HartBusy'
  BY <1>1, Zenon DEF Safe, HartInv, HartIdle, HartBusy
<1>3. LockHeld'
  BY <1>1, LockKept, Zenon DEF Safe, HartInv
<1>4. WindowState'
  BY <1>1 DEF Safe, HartInv, WindowState
<1>5. SchedState'
  BY <1>1 DEF Safe, HartInv, SchedState
<1>6. NewbornUsed' /\ NewbornOnce'
  BY Zenon DEF Safe, HartInv, NewbornUsed, NewbornOnce
<1>7. HartInv'
  BY <1>2, <1>3, <1>4, <1>5, <1>6, Zenon DEF HartInv
<1>8. \A d \in CPUs, p \in Procs :
        (proc[d] = p /\ pc'[d] \in {"run"} \cup TickLabels \cup ChargeLabels)
          => state[p] = "RUNNING"
  BY <1>1 DEF Safe, RunningIsCurrent
<1>9. \A p \in Procs : state[p] = "RUNNING" => \E d \in CPUs : proc[d] = p
  BY Zenon DEF Safe, RunningIsCurrent
<1>10. RunningIsCurrent'
  BY <1>8, <1>9, Zenon DEF RunningIsCurrent
<1>11. DoubleRunOnlyAfterExpiry'
  BY Zenon DEF DoubleRunOnlyAfterExpiry, DoubleRun
<1>12. QED
  BY <1>7, <1>10, <1>11, Zenon DEF Safe

\* A step that changes the state of a process no hart executes, under its
\* lock, keeps the invariant.
LEMMA RestateStep ==
  ASSUME TypeOK, Safe, ~DoubleRun, NEW q \in Procs, NEW s,
         state' = [state EXCEPT ![q] = s],
         UNCHANGED <<proc, pc, lock>>,
         state[q] \notin {"RUNNING", "RUNNABLE"}, s # "RUNNING",
         lock[q] = NoCPU,
         \A p \in Procs : newborn'[p] # NoProc => state'[newborn'[p]] = "USED",
         \A p, r \in Procs :
           (newborn'[p] # NoProc /\ newborn'[p] = newborn'[r]) => p = r
  PROVE  Safe'
<1>1. state'[q] = s /\ \A p \in Procs : p # q => state'[p] = state[p]
  BY Zenon DEF TypeOK
<1>2. \A d \in CPUs : d # NoCPU
  BY MlfqAssumption, Zenon
<1>3. \A d \in CPUs : ~(proc[d] = q /\ pc[d] \in Window)
  BY Zenon DEF Safe, HartInv, WindowState
<1>4. \A d \in CPUs : ~(proc[d] = q /\ pc[d] = "sched")
  BY <1>2 DEF Safe, HartInv, LockHeld
<1>5. \A d \in CPUs :
        ~(proc[d] = q /\ pc[d] \in {"run"} \cup TickLabels \cup ChargeLabels)
  BY Zenon DEF Safe, RunningIsCurrent
<1>6. WindowState' /\ SchedState'
  BY <1>1, <1>3, <1>4 DEF Safe, HartInv, WindowState, SchedState
<1>7. HartInv'
  <2>1. HartIdle' /\ HartBusy' /\ LockHeld'
    BY DEF Safe, HartInv, HartIdle, HartBusy, LockHeld
  <2>2. NewbornUsed' /\ NewbornOnce'
    BY Zenon DEF NewbornUsed, NewbornOnce
  <2>3. QED
    BY <1>6, <2>1, <2>2, Zenon DEF HartInv
<1>8. \A d \in CPUs, p \in Procs :
        (proc[d] = p /\ pc[d] \in {"run"} \cup TickLabels \cup ChargeLabels)
          => state'[p] = "RUNNING"
  BY <1>1, <1>5 DEF Safe, RunningIsCurrent
<1>9. \A p \in Procs : state'[p] = "RUNNING" => \E d \in CPUs : proc[d] = p
  BY <1>1 DEF Safe, RunningIsCurrent
<1>10. RunningIsCurrent'
  BY <1>8, <1>9 DEF RunningIsCurrent
<1>11. DoubleRunOnlyAfterExpiry'
  BY Zenon DEF DoubleRunOnlyAfterExpiry, DoubleRun
<1>12. QED
  BY <1>7, <1>10, <1>11, Zenon DEF Safe

\* Every step of a hart that starts with no process on two harts keeps the
\* invariant, whether or not it ends with one.
LEMMA StepSafe ==
  ASSUME TypeOK, Safe, ~DoubleRun, NEW c \in CPUs, HartStep(c)
  PROVE  Safe'
<1> USE DEF Window, TickLabels, ChargeLabels
<1>0. /\ pc[c] \in {"top", "scan", "wfi"} => proc[c] = NoProc
      /\ pc[c] \in {"run"} \cup Window \cup ChargeLabels => proc[c] \in Procs
      /\ \A p \in Procs :
           (proc[c] = p /\ pc[c] \in {"run"} \cup TickLabels \cup ChargeLabels)
             => state[p] = "RUNNING"
      /\ \A p \in Procs : (proc[c] = p /\ pc[c] \in Window)
                            => state[p] \in {"RUNNING", "RUNNABLE"}
      /\ NoProc \notin Procs
  BY MlfqAssumption, Zenon DEF Safe, HartInv, HartIdle, HartBusy, WindowState,
     RunningIsCurrent, Procs
<1>1. ASSUME StartScan(c) PROVE Safe'
  <2>1. /\ pc[c] = "top"
        /\ pc' = [pc EXCEPT ![c] = "scan"]
        /\ UNCHANGED <<proc, state, lock, newborn>>
    BY <1>1, Zenon DEF StartScan, Goto, pvars, cvars
  <2>2. QED
    BY <1>0, <2>1, MoveStep, Zenon
<1>2. ASSUME ScanNext(c) PROVE Safe'
  <2>1. /\ pc[c] = "scan"
        /\ pc' = pc \/ pc' = [pc EXCEPT ![c] = "wfi"]
        /\ UNCHANGED <<proc, state, lock, newborn>>
    BY <1>2, Zenon DEF ScanNext, Goto, pvars
  <2>2. pc' = [pc EXCEPT ![c] = "scan"] \/ pc' = [pc EXCEPT ![c] = "wfi"]
    BY <2>1, Zenon DEF TypeOK
  <2>3. CASE pc' = [pc EXCEPT ![c] = "scan"]
    BY <1>0, <2>1, <2>3, MoveStep, Zenon
  <2>4. CASE pc' = [pc EXCEPT ![c] = "wfi"]
    <3>1. proc[c] = NoProc /\ pc[c] # "sched" /\ \A p \in Procs : proc[c] # p
      BY <1>0, <2>1, Zenon
    <3>2. QED
      BY <2>1, <2>4, <3>1, MoveStep, Zenon
  <2>5. QED
    BY <2>2, <2>3, <2>4, Zenon
<1>3. ASSUME Dispatch(c) PROVE Safe'
  BY <1>3, DispatchStep, Zenon DEF Safe
<1>4. ASSUME Wfi(c) PROVE Safe'
  <2>1. /\ pc[c] = "wfi"
        /\ pc' = [pc EXCEPT ![c] = "top"]
        /\ UNCHANGED <<proc, state, lock, newborn>>
    BY <1>4, Zenon DEF Wfi, Goto, pvars, cvars
  <2>2. QED
    BY <1>0, <2>1, MoveStep, Zenon
<1>5. ASSUME SchedReturn(c) PROVE Safe'
  <2>1. PICK p \in Procs : At(c, "sched", p) /\ SchedReturn(c)
    BY <1>5, Zenon DEF SchedReturn
  <2>2. /\ lock' = [lock EXCEPT ![p] = NoCPU]
        /\ proc' = [proc EXCEPT ![c] = NoProc]
        /\ pc' = [pc EXCEPT ![c] = "top"]
        /\ UNCHANGED <<state, newborn>>
    BY <2>1, Zenon DEF SchedReturn, At, Goto
  <2>3. lock[p] = c /\ state[p] # "RUNNING" /\ NoProc \notin Procs
    BY <1>0, <2>1, Zenon DEF Safe, HartInv, LockHeld, SchedState, At
  <2>4. \A d \in CPUs : d # c => proc'[d] = proc[d] /\ pc'[d] = pc[d]
    BY <2>2, Zenon DEF TypeOK
  <2>5. proc'[c] = NoProc /\ pc'[c] = "top"
    BY <2>2, Zenon DEF TypeOK
  <2>6. HartInv'
    <3>1. HartIdle' /\ HartBusy'
      BY <2>4, <2>5, Zenon DEF Safe, HartInv, HartIdle, HartBusy
    <3>2. LockHeld'
      <4>1. \A d \in CPUs, q \in Procs :
              lock[q] = d <=> (pc[d] = "sched" /\ proc[d] = q)
        BY Zenon DEF Safe, HartInv, LockHeld
      <4>2. \A q \in Procs : q # p => lock'[q] = lock[q] /\ lock[q] # c
        BY <2>1, <2>2, <4>1 DEF TypeOK, At
      <4>3. lock'[p] = NoCPU
        BY <2>2, Zenon DEF TypeOK
      <4>4. ASSUME NEW d \in CPUs, NEW q \in Procs
            PROVE  lock'[q] = d <=> (pc'[d] = "sched" /\ proc'[d] = q)
        <5>1. CASE d = c
          BY <2>5, <4>2, <4>3, <5>1, MlfqAssumption, Zenon
        <5>2. CASE d # c /\ q # p
          BY <2>4, <4>1, <4>2, <5>2
        <5>3. CASE d # c /\ q = p
          <6>1. ~(pc[d] = "sched" /\ proc[d] = p)
            BY <2>3, <4>1, <5>3, Zenon
          <6>2. QED
            BY <2>4, <4>3, <5>3, <6>1, MlfqAssumption, Zenon
        <5>4. QED
          BY <5>1, <5>2, <5>3, Zenon
      <4>5. QED
        BY <4>4, Zenon DEF LockHeld
    <3>3. WindowState' /\ SchedState'
      <4>1. \A d \in CPUs, q \in Procs :
              proc'[d] = q => proc[d] = q /\ pc'[d] = pc[d]
        BY <2>3, <2>4, <2>5, Zenon
      <4>2. QED
        BY <2>2, <4>1 DEF Safe, HartInv, WindowState, SchedState
    <3>4. NewbornUsed' /\ NewbornOnce'
      BY <2>2, Zenon DEF Safe, HartInv, NewbornUsed, NewbornOnce
    <3>5. QED
      BY <3>1, <3>2, <3>3, <3>4, Zenon DEF HartInv
  <2>7. RunningIsCurrent'
    <3>1. \A d \in CPUs, q \in Procs :
            (proc'[d] = q /\ pc'[d] \in {"run"} \cup TickLabels \cup ChargeLabels)
              => state[q] = "RUNNING"
      BY <2>3, <2>4, <2>5 DEF Safe, RunningIsCurrent
    <3>2. \A q \in Procs : state[q] = "RUNNING" => \E d \in CPUs : proc'[d] = q
      BY <2>1, <2>3, <2>4 DEF Safe, RunningIsCurrent, At
    <3>3. QED
      BY <2>2, <3>1, <3>2, Zenon DEF RunningIsCurrent
  <2>8. DoubleRunOnlyAfterExpiry'
    BY <2>4, <2>5 DEF DoubleRunOnlyAfterExpiry, DoubleRun
  <2>9. QED
    BY <2>6, <2>7, <2>8, Zenon DEF Safe
<1>6. ASSUME TimerIntr(c) PROVE Safe'
  <2>1. /\ pc[c] \in {"run", "top"}
        /\ pc' = [pc EXCEPT ![c] = "count"]
        /\ UNCHANGED <<proc, state, lock, newborn>>
    BY <1>6, Zenon DEF TimerIntr, Goto, pvars
  <2>2. pc[c] # "sched" /\ \A p \in Procs : proc[c] = p => state[p] = "RUNNING"
    BY <1>0, <2>1, Zenon
  <2>3. QED
    BY <2>1, <2>2, MoveStep, Zenon
<1>7. ASSUME Count(c) PROVE Safe'
  <2>1. PICK l : /\ \/ l = "boost"
                    \/ l = "account"
                 /\ pc[c] = "count"
                 /\ pc' = [pc EXCEPT ![c] = l]
                 /\ UNCHANGED <<proc, state, lock, newborn>>
    BY <1>7, Zenon DEF Count, Goto, pvars, cvars
  <2>2. QED
    BY <1>0, <2>1, MoveStep, Zenon
<1>8. ASSUME Boost(c) PROVE Safe'
  <2>1. PICK l : /\ \/ l = "boost"
                    \/ l = "boost_slice"
                    \/ l = "account"
                 /\ pc[c] = "boost"
                 /\ pc' = [pc EXCEPT ![c] = l]
                 /\ UNCHANGED <<proc, state, lock, newborn>>
    BY <1>8, Zenon DEF Boost, Goto, pvars, cvars, BoostLoop
  <2>2. QED
    BY <1>0, <2>1, MoveStep, Zenon
<1>9. ASSUME BoostSlice(c) PROVE Safe'
  <2>1. /\ pc[c] = "boost_slice"
        /\ pc' = [pc EXCEPT ![c] = "boost_used"]
        /\ UNCHANGED <<proc, state, lock, newborn>>
    BY <1>9, Zenon DEF BoostSlice, Goto, pvars, cvars
  <2>2. QED
    BY <1>0, <2>1, MoveStep, Zenon
<1>10. ASSUME BoostUsed(c) PROVE Safe'
  <2>1. PICK l : /\ \/ l = "boost"
                    \/ l = "account"
                 /\ pc[c] = "boost_used"
                 /\ pc' = [pc EXCEPT ![c] = l]
                 /\ UNCHANGED <<proc, state, lock, newborn>>
    BY <1>10, Zenon DEF BoostUsed, Goto, pvars, cvars, BoostLoop
  <2>2. QED
    BY <1>0, <2>1, MoveStep, Zenon
<1>11. ASSUME Account(c) PROVE Safe'
  <2>1. PICK l : /\ \/ l = "scan" /\ proc[c] = NoProc
                    \/ l \in {"charge", "trapret"} /\ proc[c] # NoProc
                 /\ pc[c] = "account"
                 /\ pc' = [pc EXCEPT ![c] = l]
                 /\ UNCHANGED <<proc, state, lock, newborn>>
    BY <1>11, Zenon DEF Account, Goto, pvars
  <2>2. proc[c] # NoProc => proc[c] \in Procs
    BY Zenon DEF TypeOK
  <2>3. QED
    BY <1>0, <2>1, <2>2, MoveStep, Zenon
<1>12. ASSUME Charge(c) PROVE Safe'
  <2>1. PICK l : /\ \/ l = "demote"
                    \/ l = "trapret"
                 /\ pc[c] = "charge"
                 /\ pc' = [pc EXCEPT ![c] = l]
                 /\ UNCHANGED <<proc, state, lock, newborn>>
    BY <1>12, Zenon DEF Charge, Goto, pvars, cvars, At
  <2>2. QED
    BY <1>0, <2>1, MoveStep, Zenon
<1>13. ASSUME Demote(c) PROVE Safe'
  <2>1. PICK l : /\ \/ l = "lower"
                    \/ l = "expire"
                 /\ pc[c] = "demote"
                 /\ pc' = [pc EXCEPT ![c] = l]
                 /\ UNCHANGED <<proc, state, lock, newborn>>
    BY <1>13, Zenon DEF Demote, Goto, pvars, cvars, At
  <2>2. QED
    BY <1>0, <2>1, MoveStep, Zenon
<1>14. ASSUME Lower(c) PROVE Safe'
  <2>1. /\ pc[c] = "lower"
        /\ pc' = [pc EXCEPT ![c] = "reslice"]
        /\ UNCHANGED <<proc, state, lock, newborn>>
    BY <1>14, Zenon DEF Lower, Goto, pvars, cvars, At
  <2>2. QED
    BY <1>0, <2>1, MoveStep, Zenon
<1>15. ASSUME Reslice(c) PROVE Safe'
  <2>1. /\ pc[c] = "reslice"
        /\ pc' = [pc EXCEPT ![c] = "expire"]
        /\ UNCHANGED <<proc, state, lock, newborn>>
    BY <1>15, Zenon DEF Reslice, Goto, pvars, cvars, At
  <2>2. QED
    BY <1>0, <2>1, MoveStep, Zenon
<1>16. ASSUME Expire(c) PROVE Safe'
  BY <1>16, ExpireStep, Zenon DEF Safe
<1>17. ASSUME Yield(c) PROVE Safe'
  BY <1>17, LeaveStep, Zenon DEF Safe, Yield, At
<1>18. ASSUME Sleep(c) PROVE Safe'
  BY <1>18, LeaveStep, Zenon DEF Safe, Sleep, At
<1>19. ASSUME Exit(c) PROVE Safe'
  BY <1>19, LeaveStep, Zenon DEF Safe, Exit, At
<1>20. ASSUME TrapExit(c) PROVE Safe'
  <2>1. /\ pc[c] = "trapret"
        /\ pc' = [pc EXCEPT ![c] = "exit"]
        /\ UNCHANGED <<proc, state, lock, newborn>>
    BY <1>20, Zenon DEF TrapExit, Goto, pvars, cvars, At
  <2>2. /\ proc[c] \in Procs /\ pc[c] # "sched"
        /\ \A p \in Procs : proc[c] = p => state[p] \in {"RUNNING", "RUNNABLE"}
    BY <1>0, <2>1, Zenon
  <2>3. /\ "exit" \notin {"top", "scan", "wfi", "sched"}
        /\ "exit" \notin {"run"} \cup TickLabels \cup ChargeLabels
    OBVIOUS
  <2>4. QED
    BY <2>1, <2>2, <2>3, MoveStep, Zenon
<1>21. ASSUME ForkPublish(c) PROVE Safe'
  <2>1. PICK p \in Procs :
          /\ newborn[p] # NoProc /\ lock[newborn[p]] = NoCPU
          /\ state' = [state EXCEPT ![newborn[p]] = "RUNNABLE"]
          /\ newborn' = [newborn EXCEPT ![p] = NoProc]
          /\ UNCHANGED <<proc, pc, lock>>
    BY <1>21, Zenon DEF ForkPublish, At, cvars
  <2>2. newborn[p] \in Procs /\ state[newborn[p]] = "USED"
    BY <2>1, Zenon DEF TypeOK, Safe, HartInv, NewbornUsed
  <2>3. \A r, t \in Procs :
          (newborn[r] # NoProc /\ newborn[r] = newborn[t]) => r = t
    BY Zenon DEF Safe, HartInv, NewbornOnce
  <2>4. /\ newborn'[p] = NoProc
        /\ \A r \in Procs : r # p => newborn'[r] = newborn[r]
    BY <2>1, Zenon DEF TypeOK
  <2>5. \A r \in Procs : newborn'[r] # NoProc =>
          newborn[r] = newborn'[r] /\ newborn[r] \in Procs /\ newborn[r] # newborn[p]
    BY <2>1, <2>3, <2>4 DEF TypeOK
  <2>6. \A r \in Procs : newborn'[r] # NoProc => state'[newborn'[r]] = "USED"
    BY <2>1, <2>5 DEF TypeOK, Safe, HartInv, NewbornUsed
  <2>7. \A r, t \in Procs :
          (newborn'[r] # NoProc /\ newborn'[r] = newborn'[t]) => r = t
    BY <2>3, <2>4, Zenon
  <2>8. QED
    BY <2>1, <2>2, <2>6, <2>7, RestateStep, Zenon
<1>22. ASSUME NEW q \in Procs, Wakeup(c, q)
      PROVE  Safe'
  <2>1. /\ lock[q] = NoCPU /\ state[q] = "SLEEPING"
        /\ state' = [state EXCEPT ![q] = "RUNNABLE"]
        /\ UNCHANGED <<proc, pc, lock, newborn>>
    BY <1>22, Zenon DEF Wakeup, cvars
  <2>2. \A r \in Procs : newborn[r] # NoProc =>
          newborn[r] \in Procs /\ newborn[r] # q /\ state[newborn[r]] = "USED"
    BY <2>1, Zenon DEF TypeOK, Safe, HartInv, NewbornUsed
  <2>3. \A r \in Procs : newborn'[r] # NoProc => state'[newborn'[r]] = "USED"
    BY <2>1, <2>2, Zenon DEF TypeOK
  <2>4. \A r, t \in Procs :
          (newborn'[r] # NoProc /\ newborn'[r] = newborn'[t]) => r = t
    BY <2>1, Zenon DEF Safe, HartInv, NewbornOnce
  <2>5. QED
    BY <2>1, <2>3, <2>4, RestateStep, Zenon
<1>23. ASSUME NEW q \in Procs, Kill(c, q)
      PROVE  Safe'
  <2>1. /\ lock[q] = NoCPU
        /\ UNCHANGED <<proc, pc, lock, newborn>>
        /\ \/ state' = state
           \/ /\ state[q] = "SLEEPING"
              /\ state' = [state EXCEPT ![q] = "RUNNABLE"]
    BY <1>23, Zenon DEF Kill, cvars, TypeOK
  <2>2. CASE state' = state
    BY <2>1, <2>2, SameSafe, Zenon
  <2>3. CASE state[q] = "SLEEPING" /\ state' = [state EXCEPT ![q] = "RUNNABLE"]
    <3>1. \A r \in Procs : newborn[r] # NoProc =>
            newborn[r] \in Procs /\ newborn[r] # q /\ state[newborn[r]] = "USED"
      BY <2>3, Zenon DEF TypeOK, Safe, HartInv, NewbornUsed
    <3>2. \A r \in Procs : newborn'[r] # NoProc => state'[newborn'[r]] = "USED"
      BY <2>1, <2>3, <3>1, Zenon DEF TypeOK
    <3>3. \A r, t \in Procs :
            (newborn'[r] # NoProc /\ newborn'[r] = newborn'[t]) => r = t
      BY <2>1, Zenon DEF Safe, HartInv, NewbornOnce
    <3>4. QED
      BY <2>1, <2>3, <3>2, <3>3, RestateStep, Zenon
  <2>4. QED
    BY <2>1, <2>2, <2>3, Zenon
<1>24. ASSUME NEW q \in Procs, Reap(c, q)
      PROVE  Safe'
  <2>1. /\ lock[q] = NoCPU /\ state[q] = "ZOMBIE"
        /\ state' = [state EXCEPT ![q] = "UNUSED"]
        /\ UNCHANGED <<proc, pc, lock, newborn>>
    BY <1>24, Zenon DEF Reap, At, cvars
  <2>2. \A r \in Procs : newborn[r] # NoProc =>
          newborn[r] \in Procs /\ newborn[r] # q /\ state[newborn[r]] = "USED"
    BY <2>1, Zenon DEF TypeOK, Safe, HartInv, NewbornUsed
  <2>3. \A r \in Procs : newborn'[r] # NoProc => state'[newborn'[r]] = "USED"
    BY <2>1, <2>2, Zenon DEF TypeOK
  <2>4. \A r, t \in Procs :
          (newborn'[r] # NoProc /\ newborn'[r] = newborn'[t]) => r = t
    BY <2>1, Zenon DEF Safe, HartInv, NewbornOnce
  <2>5. QED
    BY <2>1, <2>3, <2>4, RestateStep, Zenon
<1>25. ASSUME NEW q \in Procs, NEW ok \in BOOLEAN, ForkAlloc(c, q, ok)
      PROVE  Safe'
  <2>1. PICK p \in Procs :
          /\ state[q] = "UNUSED" /\ lock[q] = NoCPU
          /\ \/ /\ state' = [state EXCEPT ![q] = "USED"]
                /\ newborn' = [newborn EXCEPT ![p] = q]
             \/ UNCHANGED <<state, newborn>>
          /\ UNCHANGED <<lock, pc, proc>>
    BY <1>25, Zenon DEF ForkAlloc, cvars
  <2>2. \A r \in Procs : newborn[r] # NoProc => newborn[r] # q
    BY <2>1, Zenon DEF Safe, HartInv, NewbornUsed
  <2>3. /\ \A r \in Procs : newborn'[r] # NoProc => state'[newborn'[r]] = "USED"
        /\ \A r, s \in Procs :
             (newborn'[r] # NoProc /\ newborn'[r] = newborn'[s]) => r = s
    <3>1. /\ \A r \in Procs : newborn[r] # NoProc => state[newborn[r]] = "USED"
          /\ \A r, s \in Procs :
               (newborn[r] # NoProc /\ newborn[r] = newborn[s]) => r = s
      BY Zenon DEF Safe, HartInv, NewbornUsed, NewbornOnce
    <3>2. /\ newborn \in [Procs -> Procs \cup {NoProc}]
          /\ state \in [Procs -> States]
      BY Zenon DEF TypeOK
    <3>3. CASE UNCHANGED <<state, newborn>>
      BY <3>1, <3>3, Zenon
    <3>4. CASE /\ state' = [state EXCEPT ![q] = "USED"]
               /\ newborn' = [newborn EXCEPT ![p] = q]
      BY <2>2, <3>1, <3>2, <3>4, Zenon
    <3>5. QED
      BY <2>1, <3>3, <3>4, Zenon
  <2>4. CASE UNCHANGED <<state, newborn>>
    BY <2>1, <2>4, SameSafe, Zenon
  <2>5. CASE /\ state' = [state EXCEPT ![q] = "USED"]
             /\ newborn' = [newborn EXCEPT ![p] = q]
    BY <2>1, <2>3, <2>5, RestateStep, Zenon
  <2>6. QED
    BY <2>1, <2>4, <2>5, Zenon
<1>26. QED
  BY <1>1, <1>2, <1>3, <1>4, <1>5, <1>6, <1>7, <1>8, <1>9, <1>10, <1>11,
     <1>12, <1>13, <1>14, <1>15, <1>16, <1>17, <1>18, <1>19, <1>20, <1>21,
     <1>22, <1>23, <1>24, <1>25, Zenon DEF HartStep, Scheduler, Tick, ProcStep

\* userinit() satisfies the invariant.
LEMMA InitSafe == Init => Safe
<1> SUFFICES ASSUME Init PROVE Safe
  OBVIOUS
<1> USE MlfqAssumption DEF Init, Window, TickLabels, ChargeLabels
<1>1. HartIdle /\ HartBusy /\ LockHeld
  BY Zenon DEF HartIdle, HartBusy, LockHeld
<1>2. WindowState /\ SchedState /\ NewbornUsed /\ NewbornOnce
  BY Zenon DEF WindowState, SchedState, NewbornUsed, NewbornOnce
<1>3. RunningIsCurrent /\ DoubleRunOnlyAfterExpiry
  BY Zenon DEF RunningIsCurrent, DoubleRunOnlyAfterExpiry
<1>4. QED
  BY <1>1, <1>2, <1>3, Zenon DEF Safe, HartInv

\* The inductive invariant of the scheduler holds, for any number of harts.
THEOREM Invariance == Spec => [](TypeOK /\ SumInv /\ Safe)
<1>1. Init => TypeOK /\ SumInv /\ Safe
  BY InitTypes, InitSafe, Zenon
<1>2. TypeOK /\ SumInv /\ Safe /\ [Next]_vars => (TypeOK /\ SumInv /\ Safe)'
  <2> SUFFICES ASSUME TypeOK, SumInv, Safe, [Next]_vars
               PROVE  (TypeOK /\ SumInv /\ Safe)'
    OBVIOUS
  <2>1. CASE Next
    <3>1. ~DoubleRun /\ \E c \in CPUs : HartStep(c)
      BY <2>1, Zenon DEF Next, HartStep
    <3>2. QED
      BY <3>1, StepTypes, StepSum, StepSafe, Zenon
  <2>2. CASE UNCHANGED vars
    <3>1. TypeOK'
      BY <2>2, Zenon DEF vars, pvars, cvars, TypeOK
    <3>2. SumInv'
      BY <2>2, Zenon DEF vars, pvars, cvars, SumInv
    <3>3. Safe'
      BY <2>2, SameSafe, Zenon DEF vars, pvars, cvars
    <3>4. QED
      BY <3>1, <3>2, <3>3, Zenon
  <2>3. QED
    BY <2>1, <2>2, Zenon
<1>3. QED
  BY <1>1, <1>2, PTL DEF Spec

\* Type correctness of the scheduler's state: in particular p->priority is
\* always one of the three levels and the loops stay inside the table.
THEOREM TypeCorrect == Spec => []TypeOK
BY Invariance, PTL

\* p->state == RUNNING says exactly which processes the harts execute.
THEOREM RunningCorrect == Spec => []RunningIsCurrent
<1>1. Safe => RunningIsCurrent
  BY Zenon DEF Safe
<1>2. QED
  BY <1>1, Invariance, PTL

\* On any number of harts, a process can come to execute on two of them only
\* through the unlocked store of mlfq_tick().
THEOREM DoubleRunCause == Spec => []DoubleRunOnlyAfterExpiry
<1>1. Safe => DoubleRunOnlyAfterExpiry
  BY Zenon DEF Safe
<1>2. QED
  BY <1>1, Invariance, PTL

-----------------------------------------------------------------------------
\* One hart.
Uniprocessor == \E c : CPUs = {c}

\* Where scheduler() is in its two loops, nothing it has passed is RUNNABLE.
ScanInv ==
  \A c \in CPUs :
    /\ pc[c] # "scan" => level[c] = MLFQ_HIGH
    /\ pc[c] \notin {"scan", "boost", "boost_slice", "boost_used"} => slot[c] = 1
    /\ pc[c] = "scan" =>
         \A q \in Procs : state[q] = "RUNNABLE" =>
           \/ level[c] < priority[q]
           \/ level[c] = priority[q] /\ slot[c] <= q

\* The slice fields through the stores of mlfq_tick() and the boost.
Matches(p) == timeslice[p] = get_timeslice(priority[p])

SliceOf(c, p) ==
  /\ ~Updating(c, p) => Matches(p) /\ timeslice_used[p] < timeslice[p]
  /\ (proc[c] = p /\ pc[c] \in {"charge", "demote", "expire"}) => Matches(p)
  /\ (proc[c] = p /\ pc[c] = "charge") => sum[c] < timeslice[p]
  /\ (proc[c] = p /\ pc[c] = "reslice") => priority[p] = sum[c]
  /\ (slot[c] = p /\ pc[c] \in {"boost_slice", "boost_used"})
       => priority[p] = MLFQ_HIGH
  /\ (slot[c] = p /\ pc[c] = "boost_used") => timeslice[p] = TIMESLICE_HIGH

SliceInv ==
  \A p \in Procs : state[p] # "UNUSED" => \A c \in CPUs : SliceOf(c, p)
-----------------------------------------------------------------------------
\* A hart that goes on scanning has passed nothing RUNNABLE.
LEMMA Scanning ==
  ASSUME NEW c \in CPUs, \A d \in CPUs : d = c, pc'[c] = "scan",
         \A q \in Procs : state'[q] = "RUNNABLE" =>
           level'[c] < priority'[q] \/ (level'[c] = priority'[q] /\ slot'[c] <= q)
  PROVE  ScanInv' /\ IdleMeansNoWork'
<1>1. ScanInv'
  BY Zenon DEF ScanInv
<1>2. IdleMeansNoWork'
  BY Zenon DEF IdleMeansNoWork
<1>3. QED
  BY <1>1, <1>2, Zenon

\* The scan begins at the first slot of the best level.
LEMMA ScanBegins ==
  ASSUME TypeOK, ScanInv, NEW c \in CPUs, \A d \in CPUs : d = c,
         pc[c] \in {"top", "account"}, pc' = [pc EXCEPT ![c] = "scan"],
         UNCHANGED <<state, priority, level, slot>>
  PROVE  ScanInv' /\ IdleMeansNoWork'
<1>1. level'[c] = 0 /\ slot'[c] = 1 /\ pc'[c] = "scan"
  BY Zenon DEF ScanInv, MLFQ_HIGH, TypeOK
<1>2. \A q \in Procs : priority'[q] \in 0 .. 2 /\ q >= 1 /\ q \in Int
  BY MlfqAssumption DEF TypeOK, Levels, MLFQ_HIGH, MLFQ_LOW, Procs
<1>3. \A q \in Procs :
        0 < priority'[q] \/ (0 = priority'[q] /\ 1 <= q)
  BY <1>2
<1>4. QED
  BY <1>1, <1>3 DEF ScanInv, IdleMeansNoWork, MLFQ_HIGH

\* A step that leaves the hart outside scheduler()'s loops.
LEMMA Relabel ==
  ASSUME TypeOK, ScanInv, NEW c \in CPUs, \A d \in CPUs : d = c,
         NEW l \in Labels \ {"scan", "wfi"}, pc' = [pc EXCEPT ![c] = l],
         level'[c] = MLFQ_HIGH,
         l \notin {"boost", "boost_slice", "boost_used"} => slot'[c] = 1
  PROVE  ScanInv' /\ IdleMeansNoWork'
<1>1. pc'[c] = l
  BY Zenon DEF TypeOK
<1>2. QED
  BY <1>1, Zenon DEF ScanInv, IdleMeansNoWork

\* An iteration that picks nothing moves past a process it may skip; after the
\* last one of the last level there is none left.
LEMMA ScanNextStep ==
  ASSUME TypeOK, ScanInv, NEW c \in CPUs, \A d \in CPUs : d = c, ScanNext(c)
  PROVE  ScanInv' /\ IdleMeansNoWork'
<1> DEFINE p == slot[c]
<1>1. /\ p \in 1 .. NPROC /\ NPROC \in Nat /\ level[c] \in 0 .. 2
      /\ pc[c] = "scan"
      /\ ~(state[p] = "RUNNABLE" /\ priority[p] = level[c])
      /\ UNCHANGED <<state, priority>>
  BY MlfqAssumption, Zenon DEF ScanNext, TypeOK, Procs, Levels, MLFQ_HIGH, MLFQ_LOW,
     pvars
<1>2. \A q \in Procs : q \in 1 .. NPROC /\ priority[q] \in 0 .. 2
  BY Zenon DEF TypeOK, Procs, Levels, MLFQ_HIGH, MLFQ_LOW
<1>3. ASSUME NEW q \in Procs, state[q] = "RUNNABLE"
      PROVE  level[c] < priority[q] \/ (level[c] = priority[q] /\ p < q)
  <2>1. level[c] < priority[q] \/ (level[c] = priority[q] /\ p <= q)
    BY <1>1, <1>3, Zenon DEF ScanInv
  <2>2. QED
    BY <1>1, <1>2, <1>3, <2>1
<1>4. CASE p < NPROC
  <2>1. slot'[c] = p + 1 /\ level'[c] = level[c] /\ pc'[c] = "scan"
    BY <1>1, <1>4, Zenon DEF ScanNext, TypeOK
  <2>2. \A q \in Procs : p < q => p + 1 <= q
    BY <1>1, <1>2
  <2>3. \A q \in Procs : state'[q] = "RUNNABLE" =>
          level'[c] < priority'[q] \/ (level'[c] = priority'[q] /\ slot'[c] <= q)
    BY <1>1, <1>3, <2>1, <2>2, Zenon
  <2>4. QED
    BY <2>1, <2>3, Scanning, Zenon
<1>5. CASE ~(p < NPROC) /\ level[c] < MLFQ_LOW
  <2>1. slot'[c] = 1 /\ level'[c] = level[c] + 1 /\ pc'[c] = "scan"
    BY <1>1, <1>5, Zenon DEF ScanNext, TypeOK
  <2>2. \A q \in Procs : state[q] = "RUNNABLE" =>
          level[c] + 1 < priority[q] \/ (level[c] + 1 = priority[q] /\ 1 <= q)
    BY <1>1, <1>2, <1>3, <1>5
  <2>3. \A q \in Procs : state'[q] = "RUNNABLE" =>
          level'[c] < priority'[q] \/ (level'[c] = priority'[q] /\ slot'[c] <= q)
    BY <1>1, <2>1, <2>2, Zenon
  <2>4. QED
    BY <2>1, <2>3, Scanning, Zenon
<1>6. CASE ~(p < NPROC) /\ ~(level[c] < MLFQ_LOW)
  <2>1. slot'[c] = 1 /\ level'[c] = MLFQ_HIGH /\ pc'[c] = "wfi"
    BY <1>1, <1>6, Zenon DEF ScanNext, TypeOK, Goto
  <2>2. \A q \in Procs : state[q] # "RUNNABLE"
    BY <1>1, <1>2, <1>3, <1>6 DEF MLFQ_LOW
  <2>3. QED
    BY <1>1, <2>1, <2>2, Zenon DEF ScanInv, IdleMeansNoWork
<1>7. QED
  BY <1>4, <1>5, <1>6, Zenon

\* A step that stays outside the updates of the slice fields.
LEMMA SliceQuiet ==
  ASSUME TypeOK, SliceInv, NEW c \in CPUs, \A d \in CPUs : d = c,
         pc[c] \notin ChargeLabels \cup {"boost_slice", "boost_used"},
         pc'[c] \notin ChargeLabels \cup {"boost_slice", "boost_used"},
         \A p \in Procs : state'[p] # "UNUSED" => state[p] # "UNUSED",
         UNCHANGED <<priority, timeslice, timeslice_used>>
  PROVE  SliceInv'
<1>1. \A p \in Procs : ~Updating(c, p) /\ ~Updating(c, p)'
  BY Zenon DEF Updating
<1>2. \A p \in Procs : state'[p] # "UNUSED" =>
        Matches(p)' /\ timeslice_used'[p] < timeslice'[p]
  BY <1>1, Zenon DEF SliceInv, SliceOf, Matches
<1>3. QED
  BY <1>1, <1>2, Zenon DEF SliceInv, SliceOf, ChargeLabels

\* A step inside an update of p's slice fields: it is the only update on the
\* hart, and the other processes keep theirs.
LEMMA SliceOne ==
  ASSUME TypeOK, SliceInv, NEW c \in CPUs, \A d \in CPUs : d = c,
         NEW p \in Procs,
         \A q \in Procs \ {p} :
           /\ ~Updating(c, q) /\ ~Updating(c, q)'
           /\ priority'[q] = priority[q] /\ timeslice'[q] = timeslice[q]
           /\ timeslice_used'[q] = timeslice_used[q]
           /\ state'[q] = state[q],
         state'[p] # "UNUSED" => SliceOf(c, p)'
  PROVE  SliceInv'
<1>1. \A q \in Procs \ {p} : state'[q] # "UNUSED" =>
        Matches(q)' /\ timeslice_used'[q] < timeslice'[q]
  BY Zenon DEF SliceInv, SliceOf, Matches
<1>2. \A q \in Procs \ {p} : state'[q] # "UNUSED" => SliceOf(c, q)'
  BY <1>1, Zenon DEF SliceOf, Updating, ChargeLabels
<1>3. QED
  BY <1>2, Zenon DEF SliceInv

\* The end of a slice starts the next one in full.
LEMMA SliceExpire ==
  ASSUME TypeOK, SliceInv, RunningIsCurrent, NEW c \in CPUs,
         \A d \in CPUs : d = c, Expire(c)
  PROVE  SliceInv'
<1>1. PICK p \in Procs :
        /\ proc[c] = p /\ pc[c] = "expire"
        /\ timeslice_used' = [timeslice_used EXCEPT ![p] = 0]
        /\ state' = [state EXCEPT ![p] = "RUNNABLE"]
        /\ pc' = [pc EXCEPT ![c] = "trapret"]
        /\ UNCHANGED <<proc, slot, timeslice, priority, sum>>
  BY Zenon DEF Expire, At, Goto
<1>2. state[p] # "UNUSED"
  BY <1>1, Zenon DEF RunningIsCurrent, ChargeLabels
<1>3. Matches(p) /\ 0 < timeslice[p]
  BY <1>1, <1>2, MlfqAssumption DEF SliceInv, SliceOf, Matches, get_timeslice
<1>4. \A q \in Procs : ~Updating(c, q)'
  BY <1>1, Zenon DEF Updating, ChargeLabels, TypeOK
<1>5. \A q \in Procs \ {p} : state[q] # "UNUSED" =>
        Matches(q) /\ timeslice_used[q] < timeslice[q]
  BY <1>1, Zenon DEF SliceInv, SliceOf, Updating
<1>6. \A q \in Procs : state'[q] # "UNUSED" =>
        Matches(q)' /\ timeslice_used'[q] < timeslice'[q]
  BY <1>1, <1>3, <1>5, Zenon DEF Matches, TypeOK
<1>7. QED
  BY <1>1, <1>4, <1>6 DEF SliceInv, SliceOf, TypeOK

\* Leaving the hart changes no slice.
LEMMA SliceLeave ==
  ASSUME TypeOK, SliceInv, HartInv, RunningIsCurrent, NEW c \in CPUs,
         \A d \in CPUs : d = c, NEW p \in Procs, proc[c] = p,
         pc[c] \in {"run"} \cup Window, NEW next \in States, Leave(c, p, next)
  PROVE  SliceInv'
<1>1. /\ state' = [state EXCEPT ![p] = next]
      /\ pc' = [pc EXCEPT ![c] = "sched"]
      /\ UNCHANGED <<proc, slot, timeslice, timeslice_used, priority, sum>>
  BY Zenon DEF Leave, Goto
<1>2. state[p] # "UNUSED"
  BY Zenon DEF RunningIsCurrent, HartInv, WindowState
<1>3. \A q \in Procs : ~Updating(c, q) /\ ~Updating(c, q)'
  BY <1>1, Zenon DEF Updating, ChargeLabels, TypeOK, Window
<1>4. \A q \in Procs : state[q] # "UNUSED" =>
        Matches(q) /\ timeslice_used[q] < timeslice[q]
  BY <1>3, Zenon DEF SliceInv, SliceOf
<1>5. \A q \in Procs : state'[q] # "UNUSED" =>
        Matches(q)' /\ timeslice_used'[q] < timeslice'[q]
  BY <1>1, <1>2, <1>4, Zenon DEF Matches, TypeOK
<1>6. QED
  BY <1>1, <1>3, <1>5 DEF SliceInv, SliceOf, TypeOK

\* Every step of the hart keeps what it knows of the table during a scan.
LEMMA StepScan ==
  ASSUME TypeOK, Safe, ScanInv, IdleMeansNoWork, NEW c \in CPUs,
         \A d \in CPUs : d = c, HartStep(c)
  PROVE  ScanInv' /\ IdleMeansNoWork'
<1>1. ASSUME StartScan(c) PROVE ScanInv' /\ IdleMeansNoWork'
  BY <1>1, ScanBegins, Zenon DEF StartScan, Goto, pvars
<1>2. ASSUME ScanNext(c) PROVE ScanInv' /\ IdleMeansNoWork'
  BY <1>2, ScanNextStep, Zenon
<1>3. ASSUME Dispatch(c) PROVE ScanInv' /\ IdleMeansNoWork'
  <2>1. /\ pc' = [pc EXCEPT ![c] = resume[slot[c]]]
        /\ level'[c] = MLFQ_HIGH /\ slot'[c] = 1
    BY <1>3, Zenon DEF Dispatch, Goto, TypeOK
  <2>2. resume[slot[c]] \in {"run", "exit"}
    BY Zenon DEF TypeOK
  <2>3. resume[slot[c]] \in Labels \ {"scan", "wfi"}
    BY <2>2, Zenon DEF Labels, Window
  <2>4. QED
    BY <2>1, <2>2, <2>3, Relabel, Zenon
<1>4. ASSUME Wfi(c) PROVE ScanInv' /\ IdleMeansNoWork'
  BY <1>4, MlfqAssumption, Zenon DEF Wfi, Goto, TypeOK, pvars, cvars, ScanInv,
     IdleMeansNoWork, Levels, Procs, MLFQ_HIGH, MLFQ_LOW
<1>5. ASSUME SchedReturn(c) PROVE ScanInv' /\ IdleMeansNoWork'
  BY <1>5, MlfqAssumption DEF SchedReturn, At, Goto, TypeOK, pvars, cvars,
     ScanInv, IdleMeansNoWork, Levels, Procs, MLFQ_HIGH, MLFQ_LOW
<1>6. ASSUME TimerIntr(c) PROVE ScanInv' /\ IdleMeansNoWork'
  BY <1>6, MlfqAssumption, Zenon DEF TimerIntr, Goto, TypeOK, pvars, cvars, ScanInv,
     IdleMeansNoWork, Levels, Procs, MLFQ_HIGH, MLFQ_LOW
<1>7. ASSUME Count(c) PROVE ScanInv' /\ IdleMeansNoWork'
  <2>1. PICK l \in {"boost", "account"} : pc' = [pc EXCEPT ![c] = l]
    BY <1>7, Zenon DEF Count, Goto
  <2>2. l \in Labels \ {"scan", "wfi"}
    BY <2>1, Zenon DEF Labels, TickLabels
  <2>3. level'[c] = MLFQ_HIGH /\ slot'[c] = 1
    BY <1>7, Zenon DEF Count, ScanInv
  <2>4. QED
    BY <2>1, <2>2, <2>3, Relabel, Zenon
<1>8. ASSUME Boost(c) PROVE ScanInv' /\ IdleMeansNoWork'
  BY <1>8, MlfqAssumption DEF Boost, BoostLoop, Goto, TypeOK, pvars, cvars,
     ScanInv, IdleMeansNoWork, Levels, Procs, MLFQ_HIGH, MLFQ_LOW
<1>9. ASSUME BoostSlice(c) PROVE ScanInv' /\ IdleMeansNoWork'
  BY <1>9, MlfqAssumption, Zenon DEF BoostSlice, Goto, TypeOK, pvars, cvars, ScanInv,
     IdleMeansNoWork, Levels, Procs, MLFQ_HIGH, MLFQ_LOW
<1>10. ASSUME BoostUsed(c) PROVE ScanInv' /\ IdleMeansNoWork'
  BY <1>10, MlfqAssumption DEF BoostUsed, BoostLoop, Goto, TypeOK, pvars,
     cvars, ScanInv, IdleMeansNoWork, Levels, Procs, MLFQ_HIGH, MLFQ_LOW
<1>11. ASSUME Account(c) PROVE ScanInv' /\ IdleMeansNoWork'
  <2>1. CASE proc[c] = NoProc
    BY <1>11, <2>1, ScanBegins, Zenon DEF Account, Goto, pvars
  <2>2. CASE proc[c] # NoProc
    <3>1. PICK l \in {"charge", "trapret"} : pc' = [pc EXCEPT ![c] = l]
      BY <1>11, <2>2, Zenon DEF Account, Goto
    <3>2. l \in Labels \ {"scan", "wfi"}
      BY <3>1, Zenon DEF Labels, Window, ChargeLabels
    <3>3. level'[c] = MLFQ_HIGH /\ slot'[c] = 1
      BY <1>11, Zenon DEF Account, ScanInv
    <3>4. QED
      BY <3>1, <3>2, <3>3, Relabel, Zenon
  <2>3. QED
    BY <2>1, <2>2, Zenon
<1>12. ASSUME Charge(c) PROVE ScanInv' /\ IdleMeansNoWork'
  BY <1>12, MlfqAssumption DEF Charge, At, Goto, TypeOK, pvars, cvars,
     ScanInv, IdleMeansNoWork, Levels, Procs, MLFQ_HIGH, MLFQ_LOW
<1>13. ASSUME Demote(c) PROVE ScanInv' /\ IdleMeansNoWork'
  <2>1. PICK l \in {"lower", "expire"} : pc' = [pc EXCEPT ![c] = l]
    BY <1>13, Zenon DEF Demote, Goto
  <2>2. l \in Labels \ {"scan", "wfi"}
    BY <2>1, Zenon DEF Labels, ChargeLabels
  <2>3. level'[c] = MLFQ_HIGH /\ slot'[c] = 1
    BY <1>13, Zenon DEF Demote, At, ScanInv
  <2>4. QED
    BY <2>1, <2>2, <2>3, Relabel, Zenon
<1>14. ASSUME Lower(c) PROVE ScanInv' /\ IdleMeansNoWork'
  BY <1>14, MlfqAssumption DEF Lower, At, Goto, TypeOK, pvars, cvars, ScanInv,
     IdleMeansNoWork, Levels, Procs, MLFQ_HIGH, MLFQ_LOW
<1>15. ASSUME Reslice(c) PROVE ScanInv' /\ IdleMeansNoWork'
  BY <1>15, MlfqAssumption DEF Reslice, Goto, At, TypeOK, pvars, cvars,
     ScanInv, IdleMeansNoWork, Levels, Procs, MLFQ_HIGH, MLFQ_LOW
<1>16. ASSUME Expire(c) PROVE ScanInv' /\ IdleMeansNoWork'
  BY <1>16, MlfqAssumption DEF Expire, At, Goto, TypeOK, pvars, cvars,
     ScanInv, IdleMeansNoWork, Levels, Procs, MLFQ_HIGH, MLFQ_LOW
<1>17. ASSUME Yield(c) PROVE ScanInv' /\ IdleMeansNoWork'
  BY <1>17, MlfqAssumption DEF Yield, Leave, At, Goto, TypeOK, pvars, cvars,
     ScanInv, IdleMeansNoWork, Levels, Procs, MLFQ_HIGH, MLFQ_LOW
<1>18. ASSUME Sleep(c) PROVE ScanInv' /\ IdleMeansNoWork'
  BY <1>18, MlfqAssumption DEF Sleep, Leave, At, Goto, TypeOK, pvars, cvars,
     ScanInv, IdleMeansNoWork, Levels, Procs, MLFQ_HIGH, MLFQ_LOW
<1>19. ASSUME Exit(c) PROVE ScanInv' /\ IdleMeansNoWork'
  BY <1>19, MlfqAssumption DEF Exit, Leave, At, Goto, TypeOK, pvars, cvars,
     ScanInv, IdleMeansNoWork, Levels, Procs, MLFQ_HIGH, MLFQ_LOW
<1>20. ASSUME TrapExit(c) PROVE ScanInv' /\ IdleMeansNoWork'
  BY <1>20, MlfqAssumption DEF TrapExit, At, Goto, TypeOK, pvars, cvars,
     ScanInv, IdleMeansNoWork, Levels, Procs, MLFQ_HIGH, MLFQ_LOW
<1>21. ASSUME ForkPublish(c) PROVE ScanInv' /\ IdleMeansNoWork'
  BY <1>21, MlfqAssumption, Zenon DEF ForkPublish, At, TypeOK, pvars, cvars, ScanInv,
     IdleMeansNoWork, Levels, Procs, MLFQ_HIGH, MLFQ_LOW
<1>22. ASSUME NEW q \in Procs, Wakeup(c, q)
      PROVE  ScanInv' /\ IdleMeansNoWork'
  BY <1>22, MlfqAssumption, Zenon DEF Wakeup, TypeOK, pvars, cvars, ScanInv,
     IdleMeansNoWork, Levels, Procs, MLFQ_HIGH, MLFQ_LOW
<1>23. ASSUME NEW q \in Procs, Kill(c, q)
      PROVE  ScanInv' /\ IdleMeansNoWork'
  BY <1>23, MlfqAssumption, Zenon DEF Kill, TypeOK, pvars, cvars, ScanInv,
     IdleMeansNoWork, Levels, Procs, MLFQ_HIGH, MLFQ_LOW
<1>24. ASSUME NEW q \in Procs, Reap(c, q)
      PROVE  ScanInv' /\ IdleMeansNoWork'
  BY <1>24, MlfqAssumption, Zenon DEF Reap, At, TypeOK, pvars, cvars, ScanInv,
     IdleMeansNoWork, Levels, Procs, MLFQ_HIGH, MLFQ_LOW
<1>25. ASSUME NEW q \in Procs, NEW ok \in BOOLEAN, ForkAlloc(c, q, ok)
      PROVE  ScanInv' /\ IdleMeansNoWork'
  BY <1>25, MlfqAssumption, Zenon DEF ForkAlloc, At, init_mlfq_proc, TypeOK, pvars,
     cvars, ScanInv, IdleMeansNoWork, Levels, Procs, MLFQ_HIGH, MLFQ_LOW
<1>26. QED
  BY <1>1, <1>2, <1>3, <1>4, <1>5, <1>6, <1>7, <1>8, <1>9, <1>10, <1>11,
     <1>12, <1>13, <1>14, <1>15, <1>16, <1>17, <1>18, <1>19, <1>20, <1>21,
     <1>22, <1>23, <1>24, <1>25, Zenon DEF HartStep, Scheduler, Tick, ProcStep

\* Every step of the hart keeps the slice fields together.
LEMMA StepSlice ==
  ASSUME TypeOK, SumInv, Safe, SliceInv, NEW c \in CPUs,
         \A d \in CPUs : d = c, HartStep(c)
  PROVE  SliceInv'
<1> USE DEF Safe
<1>1. ASSUME StartScan(c) PROVE SliceInv'
  <2>1. /\ pc[c] \notin ChargeLabels \cup {"boost_slice", "boost_used"}
        /\ pc'[c] \notin ChargeLabels \cup {"boost_slice", "boost_used"}
        /\ UNCHANGED <<priority, timeslice, timeslice_used>>
    BY <1>1, Zenon DEF StartScan, Goto, TypeOK, pvars, cvars, ChargeLabels
  <2>2. \A p \in Procs : state'[p] # "UNUSED" => state[p] # "UNUSED"
    BY <1>1, Zenon DEF StartScan, Goto, TypeOK, pvars, cvars
  <2>3. QED
    BY <2>1, <2>2, SliceQuiet, Zenon
<1>2. ASSUME ScanNext(c) PROVE SliceInv'
  <2>1. /\ pc[c] \notin ChargeLabels \cup {"boost_slice", "boost_used"}
        /\ pc'[c] \notin ChargeLabels \cup {"boost_slice", "boost_used"}
        /\ UNCHANGED <<priority, timeslice, timeslice_used>>
    BY <1>2, Zenon DEF ScanNext, Goto, TypeOK, pvars, cvars, ChargeLabels
  <2>2. \A p \in Procs : state'[p] # "UNUSED" => state[p] # "UNUSED"
    BY <1>2, Zenon DEF ScanNext, Goto, TypeOK, pvars, cvars
  <2>3. QED
    BY <2>1, <2>2, SliceQuiet, Zenon
<1>3. ASSUME Dispatch(c) PROVE SliceInv'
  <2>1. /\ pc[c] \notin ChargeLabels \cup {"boost_slice", "boost_used"}
        /\ pc'[c] \notin ChargeLabels \cup {"boost_slice", "boost_used"}
        /\ UNCHANGED <<priority, timeslice, timeslice_used>>
    BY <1>3, Zenon DEF Dispatch, Goto, TypeOK, pvars, cvars, ChargeLabels
  <2>2. \A p \in Procs : state'[p] # "UNUSED" => state[p] # "UNUSED"
    BY <1>3, Zenon DEF Dispatch, Goto, TypeOK, pvars, cvars
  <2>3. QED
    BY <2>1, <2>2, SliceQuiet, Zenon
<1>4. ASSUME Wfi(c) PROVE SliceInv'
  <2>1. /\ pc[c] \notin ChargeLabels \cup {"boost_slice", "boost_used"}
        /\ pc'[c] \notin ChargeLabels \cup {"boost_slice", "boost_used"}
        /\ UNCHANGED <<priority, timeslice, timeslice_used>>
    BY <1>4, Zenon DEF Wfi, Goto, TypeOK, pvars, cvars, ChargeLabels
  <2>2. \A p \in Procs : state'[p] # "UNUSED" => state[p] # "UNUSED"
    BY <1>4, Zenon DEF Wfi, Goto, TypeOK, pvars, cvars
  <2>3. QED
    BY <2>1, <2>2, SliceQuiet, Zenon
<1>5. ASSUME SchedReturn(c) PROVE SliceInv'
  <2>1. /\ pc[c] \notin ChargeLabels \cup {"boost_slice", "boost_used"}
        /\ pc'[c] \notin ChargeLabels \cup {"boost_slice", "boost_used"}
        /\ UNCHANGED <<priority, timeslice, timeslice_used>>
    BY <1>5 DEF SchedReturn, At, Goto, TypeOK, pvars, cvars, ChargeLabels
  <2>2. \A p \in Procs : state'[p] # "UNUSED" => state[p] # "UNUSED"
    BY <1>5, Zenon DEF SchedReturn, At, Goto, TypeOK, pvars, cvars
  <2>3. QED
    BY <2>1, <2>2, SliceQuiet, Zenon
<1>6. ASSUME TimerIntr(c) PROVE SliceInv'
  <2>1. /\ pc[c] \notin ChargeLabels \cup {"boost_slice", "boost_used"}
        /\ pc'[c] \notin ChargeLabels \cup {"boost_slice", "boost_used"}
        /\ UNCHANGED <<priority, timeslice, timeslice_used>>
    BY <1>6, Zenon DEF TimerIntr, Goto, TypeOK, pvars, cvars, ChargeLabels
  <2>2. \A p \in Procs : state'[p] # "UNUSED" => state[p] # "UNUSED"
    BY <1>6, Zenon DEF TimerIntr, Goto, TypeOK, pvars, cvars
  <2>3. QED
    BY <2>1, <2>2, SliceQuiet, Zenon
<1>7. ASSUME Count(c) PROVE SliceInv'
  <2>1. /\ pc[c] \notin ChargeLabels \cup {"boost_slice", "boost_used"}
        /\ pc'[c] \notin ChargeLabels \cup {"boost_slice", "boost_used"}
        /\ UNCHANGED <<priority, timeslice, timeslice_used>>
    BY <1>7, Zenon DEF Count, Goto, TypeOK, pvars, cvars, ChargeLabels
  <2>2. \A p \in Procs : state'[p] # "UNUSED" => state[p] # "UNUSED"
    BY <1>7, Zenon DEF Count, Goto, TypeOK, pvars, cvars
  <2>3. QED
    BY <2>1, <2>2, SliceQuiet, Zenon
<1>8. ASSUME Boost(c) PROVE SliceInv'
  <2>0. PICK p \in Procs : slot[c] = p
    BY Zenon DEF TypeOK
  <2>1. /\ slot[c] = p /\ pc[c] = "boost"
        /\ UNCHANGED <<state, timeslice, timeslice_used, proc, sum>>
    BY <1>8, <2>0, Zenon DEF Boost, TypeOK
  <2>2. CASE pc'[c] = "boost_slice"
    <3>1. priority' = [priority EXCEPT ![p] = MLFQ_HIGH] /\ slot'[c] = p
      BY <1>8, <2>1, <2>2, Zenon DEF Boost, BoostLoop, Goto, TypeOK
    <3>2. \A q \in Procs \ {p} :
            /\ ~Updating(c, q) /\ ~Updating(c, q)'
            /\ priority'[q] = priority[q] /\ timeslice'[q] = timeslice[q]
            /\ timeslice_used'[q] = timeslice_used[q]
            /\ state'[q] = state[q]
      BY <2>1, <2>2, <3>1, Zenon DEF Updating, ChargeLabels, TypeOK
    <3>3. SliceOf(c, p)'
      BY <2>1, <2>2, <3>1, Zenon DEF SliceOf, Updating, TypeOK
    <3>4. QED
      BY <2>1, <3>2, <3>3, SliceOne, Zenon
  <2>3. CASE pc'[c] # "boost_slice"
    <3>1. pc'[c] \in {"boost", "account"} /\ UNCHANGED priority
      BY <1>8, <2>3, Zenon DEF Boost, BoostLoop, Goto, TypeOK
    <3>2. QED
      BY <2>1, <3>1, SliceQuiet, Zenon DEF ChargeLabels
  <2>4. QED
    BY <2>2, <2>3, Zenon
<1>9. ASSUME BoostSlice(c) PROVE SliceInv'
  <2>0. PICK p \in Procs : slot[c] = p
    BY Zenon DEF TypeOK
  <2>1. /\ slot[c] = p /\ pc[c] = "boost_slice"
        /\ timeslice' = [timeslice EXCEPT ![p] = TIMESLICE_HIGH]
        /\ pc'[c] = "boost_used" /\ slot'[c] = p
        /\ UNCHANGED <<state, priority, timeslice_used, proc, sum>>
    BY <1>9, <2>0, Zenon DEF BoostSlice, Goto, TypeOK, get_timeslice
  <2>2. \A q \in Procs \ {p} :
          /\ ~Updating(c, q) /\ ~Updating(c, q)'
          /\ priority'[q] = priority[q] /\ timeslice'[q] = timeslice[q]
          /\ timeslice_used'[q] = timeslice_used[q]
          /\ state'[q] = state[q]
    BY <2>1, Zenon DEF Updating, ChargeLabels, TypeOK
  <2>3. state[p] # "UNUSED" => priority[p] = MLFQ_HIGH
    BY <2>1, Zenon DEF SliceInv, SliceOf
  <2>4. state'[p] # "UNUSED" => SliceOf(c, p)'
    BY <2>1, <2>3, Zenon DEF SliceOf, Updating, TypeOK
  <2>5. QED
    BY <2>1, <2>2, <2>4, SliceOne, Zenon
<1>10. ASSUME BoostUsed(c) PROVE SliceInv'
  <2>0. PICK p \in Procs : slot[c] = p
    BY Zenon DEF TypeOK
  <2>1. /\ slot[c] = p /\ pc[c] = "boost_used"
        /\ timeslice_used' = [timeslice_used EXCEPT ![p] = 0]
        /\ pc'[c] \in {"boost", "account"}
        /\ UNCHANGED <<state, priority, timeslice, proc, sum>>
    BY <1>10, <2>0, Zenon DEF BoostUsed, BoostLoop, Goto, TypeOK
  <2>2. \A q \in Procs \ {p} :
          /\ ~Updating(c, q) /\ ~Updating(c, q)'
          /\ priority'[q] = priority[q] /\ timeslice'[q] = timeslice[q]
          /\ timeslice_used'[q] = timeslice_used[q]
          /\ state'[q] = state[q]
    BY <2>1, Zenon DEF Updating, ChargeLabels, TypeOK
  <2>3. state[p] # "UNUSED" => Matches(p)' /\ timeslice_used'[p] < timeslice'[p]
    <3>1. state[p] # "UNUSED" =>
            priority[p] = MLFQ_HIGH /\ timeslice[p] = TIMESLICE_HIGH
      BY <2>1, Zenon DEF SliceInv, SliceOf
    <3>2. timeslice_used'[p] = 0
      BY <2>1, Zenon DEF TypeOK
    <3>3. UNCHANGED <<priority, timeslice>> /\ 0 < TIMESLICE_HIGH
      BY <2>1, MlfqAssumption
    <3>4. QED
      BY <3>1, <3>2, <3>3, Zenon DEF Matches, get_timeslice
  <2>4. state'[p] # "UNUSED" => SliceOf(c, p)'
    BY <2>1, <2>3, Zenon DEF SliceOf
  <2>5. QED
    BY <2>1, <2>2, <2>4, SliceOne, Zenon
<1>11. ASSUME Account(c) PROVE SliceInv'
  <2>1. /\ pc[c] = "account"
        /\ UNCHANGED <<state, priority, timeslice, timeslice_used, proc, slot>>
    BY <1>11, Zenon DEF Account, pvars
  <2>2. CASE pc'[c] = "charge"
    <3>1. PICK p \in Procs : proc[c] = p /\ sum'[c] = timeslice_used[p]
      BY <1>11, <2>2, Zenon DEF Account, Goto, TypeOK
    <3>2. \A q \in Procs \ {p} :
            /\ ~Updating(c, q) /\ ~Updating(c, q)'
            /\ priority'[q] = priority[q] /\ timeslice'[q] = timeslice[q]
            /\ timeslice_used'[q] = timeslice_used[q]
            /\ state'[q] = state[q]
      BY <2>1, <2>2, <3>1, Zenon DEF Updating, ChargeLabels
    <3>3. ~Updating(c, p)
      BY <2>1, Zenon DEF Updating, ChargeLabels
    <3>4. state[p] # "UNUSED" => Matches(p) /\ timeslice_used[p] < timeslice[p]
      BY <3>3, Zenon DEF SliceInv, SliceOf
    <3>5. Matches(p)' <=> Matches(p)
      BY <2>1, Zenon DEF Matches
    <3>6. state'[p] # "UNUSED" => SliceOf(c, p)'
      BY <2>1, <2>2, <3>1, <3>4, <3>5, Zenon DEF SliceOf, Updating
    <3>7. QED
      BY <3>2, <3>6, SliceOne, Zenon
  <2>3. CASE pc'[c] # "charge"
    <3>1. pc'[c] \in {"scan", "trapret"}
      BY <1>11, <2>3, Zenon DEF Account, Goto, TypeOK
    <3>2. QED
      BY <2>1, <3>1, SliceQuiet, Zenon DEF ChargeLabels
  <2>4. QED
    BY <2>2, <2>3, Zenon
<1>12. ASSUME Charge(c) PROVE SliceInv'
  <2>1. PICK p \in Procs :
        /\ pc[c] = "charge" /\ proc[c] = p
        /\ timeslice_used' = [timeslice_used EXCEPT ![p] = sum[c] + 1]
        /\ \/ pc'[c] = "demote"
           \/ pc'[c] = "trapret" /\ timeslice_used'[p] < timeslice[p]
        /\ UNCHANGED <<state, priority, timeslice, proc, slot>>
    <3>1. PICK p \in Procs :
            /\ pc[c] = "charge" /\ proc[c] = p
            /\ timeslice_used' = [timeslice_used EXCEPT ![p] = sum[c] + 1]
            /\ pc' = [pc EXCEPT ![c] = IF sum[c] + 1 >= timeslice[p]
                                       THEN "demote" ELSE "trapret"]
            /\ UNCHANGED <<state, priority, timeslice, proc, slot>>
      BY <1>12, Zenon DEF Charge, At, Goto
    <3>2. /\ timeslice_used'[p] = sum[c] + 1 /\ pc[c] = "charge" /\ proc[c] = p
          /\ pc'[c] = IF sum[c] + 1 >= timeslice[p] THEN "demote" ELSE "trapret"
          /\ sum[c] \in Nat /\ timeslice[p] \in Nat
      BY <3>1, Zenon DEF TypeOK
    <3>3. pc'[c] = "demote"
            \/ (pc'[c] = "trapret" /\ timeslice_used'[p] < timeslice[p])
      BY <3>2
    <3>4. QED
      BY <3>1, <3>2, <3>3, Zenon
  <2>2. \A q \in Procs \ {p} :
          /\ ~Updating(c, q) /\ ~Updating(c, q)'
          /\ priority'[q] = priority[q] /\ timeslice'[q] = timeslice[q]
          /\ timeslice_used'[q] = timeslice_used[q]
          /\ state'[q] = state[q]
    BY <2>1, Zenon DEF Updating, ChargeLabels, TypeOK
  <2>3. state[p] # "UNUSED" => Matches(p)'
    BY <2>1, MlfqAssumption, Zenon DEF SliceInv, SliceOf, Matches
  <2>4. state'[p] # "UNUSED" => SliceOf(c, p)'
    BY <2>1, <2>3, Zenon DEF SliceOf, Updating, ChargeLabels
  <2>5. QED
    BY <2>2, <2>4, SliceOne, Zenon
<1>13. ASSUME Demote(c) PROVE SliceInv'
  <2>1. PICK p \in Procs :
        /\ pc[c] = "demote" /\ proc[c] = p
        /\ pc'[c] \in {"lower", "expire"}
        /\ UNCHANGED <<state, priority, timeslice, timeslice_used, proc, slot>>
    BY <1>13, Zenon DEF Demote, pvars, Goto, At, TypeOK
  <2>2. \A q \in Procs \ {p} :
          /\ ~Updating(c, q) /\ ~Updating(c, q)'
          /\ priority'[q] = priority[q] /\ timeslice'[q] = timeslice[q]
          /\ timeslice_used'[q] = timeslice_used[q]
          /\ state'[q] = state[q]
    BY <2>1, Zenon DEF Updating, ChargeLabels, TypeOK
  <2>3. state[p] # "UNUSED" => Matches(p)'
    BY <2>1, MlfqAssumption, Zenon DEF SliceInv, SliceOf, Matches
  <2>4. state'[p] # "UNUSED" => SliceOf(c, p)'
    BY <2>1, <2>3, Zenon DEF SliceOf, Updating, ChargeLabels
  <2>5. QED
    BY <2>2, <2>4, SliceOne, Zenon
<1>14. ASSUME Lower(c) PROVE SliceInv'
  <2>1. PICK p \in Procs :
        /\ pc[c] = "lower" /\ proc[c] = p
        /\ priority' = [priority EXCEPT ![p] = sum[c]]
        /\ pc'[c] = "reslice" /\ sum'[c] = sum[c]
        /\ UNCHANGED <<state, timeslice, timeslice_used, proc, slot>>
    BY <1>14, Zenon DEF Lower, Goto, At, TypeOK
  <2>2. \A q \in Procs \ {p} :
          /\ ~Updating(c, q) /\ ~Updating(c, q)'
          /\ priority'[q] = priority[q] /\ timeslice'[q] = timeslice[q]
          /\ timeslice_used'[q] = timeslice_used[q]
          /\ state'[q] = state[q]
    BY <2>1, Zenon DEF Updating, ChargeLabels, TypeOK
  <2>3. state[p] # "UNUSED" => priority'[p] = sum'[c]
    BY <2>1, MlfqAssumption, Zenon DEF TypeOK
  <2>4. state'[p] # "UNUSED" => SliceOf(c, p)'
    BY <2>1, <2>3, Zenon DEF SliceOf, Updating, ChargeLabels
  <2>5. QED
    BY <2>2, <2>4, SliceOne, Zenon
<1>15. ASSUME Reslice(c) PROVE SliceInv'
  <2>1. PICK p \in Procs :
        /\ pc[c] = "reslice" /\ proc[c] = p
        /\ timeslice' = [timeslice EXCEPT ![p] = get_timeslice(sum[c])]
        /\ pc'[c] = "expire"
        /\ UNCHANGED <<state, priority, timeslice_used, proc, slot>>
    BY <1>15, Zenon DEF Reslice, Goto, At, TypeOK
  <2>2. \A q \in Procs \ {p} :
          /\ ~Updating(c, q) /\ ~Updating(c, q)'
          /\ priority'[q] = priority[q] /\ timeslice'[q] = timeslice[q]
          /\ timeslice_used'[q] = timeslice_used[q]
          /\ state'[q] = state[q]
    BY <2>1, Zenon DEF Updating, ChargeLabels, TypeOK
  <2>3. state[p] # "UNUSED" => Matches(p)'
    BY <2>1, MlfqAssumption, Zenon DEF SliceInv, SliceOf, Matches, TypeOK
  <2>4. state'[p] # "UNUSED" => SliceOf(c, p)'
    BY <2>1, <2>3, Zenon DEF SliceOf, Updating, ChargeLabels
  <2>5. QED
    BY <2>2, <2>4, SliceOne, Zenon
<1>16. ASSUME Expire(c) PROVE SliceInv'
  BY <1>16, SliceExpire, Zenon
<1>17. ASSUME Yield(c) PROVE SliceInv'
  BY <1>17, SliceLeave, Zenon DEF Yield, At, Window, States
<1>18. ASSUME Sleep(c) PROVE SliceInv'
  BY <1>18, SliceLeave, Zenon DEF Sleep, At, Window, States
<1>19. ASSUME Exit(c) PROVE SliceInv'
  BY <1>19, SliceLeave, Zenon DEF Exit, At, Window, States
<1>20. ASSUME TrapExit(c) PROVE SliceInv'
  <2>1. /\ pc[c] \notin ChargeLabels \cup {"boost_slice", "boost_used"}
        /\ pc'[c] \notin ChargeLabels \cup {"boost_slice", "boost_used"}
        /\ UNCHANGED <<priority, timeslice, timeslice_used>>
    BY <1>20, Zenon DEF TrapExit, At, Goto, Window, TypeOK, pvars, cvars, ChargeLabels
  <2>2. \A p \in Procs : state'[p] # "UNUSED" => state[p] # "UNUSED"
    BY <1>20, Zenon DEF TrapExit, At, Goto, Window, TypeOK, pvars, cvars
  <2>3. QED
    BY <2>1, <2>2, SliceQuiet, Zenon
<1>21. ASSUME ForkPublish(c) PROVE SliceInv'
  <2>1. /\ pc[c] \notin ChargeLabels \cup {"boost_slice", "boost_used"}
        /\ pc'[c] \notin ChargeLabels \cup {"boost_slice", "boost_used"}
        /\ UNCHANGED <<priority, timeslice, timeslice_used>>
    BY <1>21, Zenon DEF ForkPublish, At, TypeOK, pvars, cvars, ChargeLabels
  <2>2. \A p \in Procs : state'[p] # "UNUSED" => state[p] # "UNUSED"
    BY <1>21, Zenon DEF ForkPublish, HartInv, NewbornUsed, TypeOK
  <2>3. QED
    BY <2>1, <2>2, SliceQuiet, Zenon
<1>22. ASSUME NEW q \in Procs, Wakeup(c, q)
      PROVE  SliceInv'
  <2>1. /\ pc[c] \notin ChargeLabels \cup {"boost_slice", "boost_used"}
        /\ pc'[c] \notin ChargeLabels \cup {"boost_slice", "boost_used"}
        /\ UNCHANGED <<priority, timeslice, timeslice_used>>
    BY <1>22, Zenon DEF Wakeup, TypeOK, pvars, cvars, ChargeLabels
  <2>2. \A p \in Procs : state'[p] # "UNUSED" => state[p] # "UNUSED"
    BY <1>22, Zenon DEF Wakeup, TypeOK, pvars, cvars
  <2>3. QED
    BY <2>1, <2>2, SliceQuiet, Zenon
<1>23. ASSUME NEW q \in Procs, Kill(c, q)
      PROVE  SliceInv'
  <2>1. /\ pc[c] \notin ChargeLabels \cup {"boost_slice", "boost_used"}
        /\ pc'[c] \notin ChargeLabels \cup {"boost_slice", "boost_used"}
        /\ UNCHANGED <<priority, timeslice, timeslice_used>>
    BY <1>23, Zenon DEF Kill, TypeOK, pvars, cvars, ChargeLabels
  <2>2. \A p \in Procs : state'[p] # "UNUSED" => state[p] # "UNUSED"
    BY <1>23, Zenon DEF Kill, TypeOK, pvars, cvars
  <2>3. QED
    BY <2>1, <2>2, SliceQuiet, Zenon
<1>24. ASSUME NEW q \in Procs, Reap(c, q)
      PROVE  SliceInv'
  <2>1. /\ pc[c] \notin ChargeLabels \cup {"boost_slice", "boost_used"}
        /\ pc'[c] \notin ChargeLabels \cup {"boost_slice", "boost_used"}
        /\ UNCHANGED <<priority, timeslice, timeslice_used>>
    BY <1>24, Zenon DEF Reap, At, TypeOK, pvars, cvars, ChargeLabels
  <2>2. \A p \in Procs : state'[p] # "UNUSED" => state[p] # "UNUSED"
    BY <1>24, Zenon DEF Reap, At, TypeOK, pvars, cvars
  <2>3. QED
    BY <2>1, <2>2, SliceQuiet, Zenon
<1>25. ASSUME NEW q \in Procs, NEW ok \in BOOLEAN, ForkAlloc(c, q, ok)
      PROVE  SliceInv'
  <2>1. /\ pc[c] = "run"
        /\ priority' = [priority EXCEPT ![q] = MLFQ_HIGH]
        /\ timeslice' = [timeslice EXCEPT ![q] = TIMESLICE_HIGH]
        /\ timeslice_used' = [timeslice_used EXCEPT ![q] = 0]
        /\ \A r \in Procs \ {q} : state'[r] = state[r]
        /\ UNCHANGED <<proc, pc, slot>>
    BY <1>25 DEF ForkAlloc, At, init_mlfq_proc, get_timeslice, cvars, TypeOK
  <2>2. \A r \in Procs : ~Updating(c, r) /\ ~Updating(c, r)'
    BY <2>1, Zenon DEF Updating, ChargeLabels
  <2>3. \A r \in Procs \ {q} :
          /\ ~Updating(c, r) /\ ~Updating(c, r)'
          /\ priority'[r] = priority[r] /\ timeslice'[r] = timeslice[r]
          /\ timeslice_used'[r] = timeslice_used[r]
          /\ state'[r] = state[r]
    BY <2>1, <2>2, Zenon DEF TypeOK
  <2>4. Matches(q)' /\ timeslice_used'[q] < timeslice'[q]
    BY <2>1, MlfqAssumption DEF Matches, get_timeslice, TypeOK
  <2>5. SliceOf(c, q)'
    BY <2>1, <2>4, Zenon DEF SliceOf
  <2>6. QED
    BY <2>3, <2>5, SliceOne, Zenon
<1>26. QED
  BY <1>1, <1>2, <1>3, <1>4, <1>5, <1>6, <1>7, <1>8, <1>9, <1>10, <1>11,
     <1>12, <1>13, <1>14, <1>15, <1>16, <1>17, <1>18, <1>19, <1>20, <1>21,
     <1>22, <1>23, <1>24, <1>25, Zenon DEF HartStep, Scheduler, Tick, ProcStep

\* userinit() satisfies both invariants.
LEMMA InitUp == Init => ScanInv /\ SliceInv /\ IdleMeansNoWork
<1> SUFFICES ASSUME Init PROVE ScanInv /\ SliceInv /\ IdleMeansNoWork
  OBVIOUS
<1>1. ScanInv /\ IdleMeansNoWork
  BY Zenon DEF Init, ScanInv, IdleMeansNoWork
<1>2. ASSUME NEW p \in Procs, state[p] # "UNUSED", NEW c \in CPUs
      PROVE  SliceOf(c, p)
  BY <1>2, MlfqAssumption DEF Init, SliceOf, Matches, get_timeslice, Procs
<1>3. QED
  BY <1>1, <1>2, Zenon DEF SliceInv

\* Only scheduler() gives an idle hart a process.
LEMMA OnlyDispatch ==
  ASSUME TypeOK, NEW c \in CPUs, HartStep(c), ~Dispatch(c)
  PROVE  proc'[c] \in {proc[c], NoProc}
<1>1. ASSUME StartScan(c) PROVE proc'[c] \in {proc[c], NoProc}
  BY <1>1, Zenon DEF StartScan, Goto, TypeOK, pvars, cvars
<1>2. ASSUME ScanNext(c) PROVE proc'[c] \in {proc[c], NoProc}
  BY <1>2, Zenon DEF ScanNext, Goto, TypeOK, pvars, cvars
<1>3. ASSUME Dispatch(c) PROVE proc'[c] \in {proc[c], NoProc}
  BY <1>3, Zenon
<1>4. ASSUME Wfi(c) PROVE proc'[c] \in {proc[c], NoProc}
  BY <1>4, Zenon DEF Wfi, Goto, TypeOK, pvars, cvars
<1>5. ASSUME SchedReturn(c) PROVE proc'[c] \in {proc[c], NoProc}
  BY <1>5, Zenon DEF SchedReturn, At, Goto, TypeOK, pvars, cvars
<1>6. ASSUME TimerIntr(c) PROVE proc'[c] \in {proc[c], NoProc}
  BY <1>6, Zenon DEF TimerIntr, Goto, TypeOK, pvars, cvars
<1>7. ASSUME Count(c) PROVE proc'[c] \in {proc[c], NoProc}
  BY <1>7, Zenon DEF Count, Goto, TypeOK, pvars, cvars
<1>8. ASSUME Boost(c) PROVE proc'[c] \in {proc[c], NoProc}
  BY <1>8, Zenon DEF Boost, BoostLoop, Goto, TypeOK, pvars, cvars
<1>9. ASSUME BoostSlice(c) PROVE proc'[c] \in {proc[c], NoProc}
  BY <1>9, Zenon DEF BoostSlice, Goto, TypeOK, pvars, cvars
<1>10. ASSUME BoostUsed(c) PROVE proc'[c] \in {proc[c], NoProc}
  BY <1>10, Zenon DEF BoostUsed, BoostLoop, Goto, TypeOK, pvars, cvars
<1>11. ASSUME Account(c) PROVE proc'[c] \in {proc[c], NoProc}
  BY <1>11, Zenon DEF Account, Goto, TypeOK, pvars, cvars
<1>12. ASSUME Charge(c) PROVE proc'[c] \in {proc[c], NoProc}
  BY <1>12, Zenon DEF Charge, At, Goto, TypeOK, pvars, cvars
<1>13. ASSUME Demote(c) PROVE proc'[c] \in {proc[c], NoProc}
  BY <1>13, Zenon DEF Demote, At, Goto, TypeOK, pvars, cvars
<1>14. ASSUME Lower(c) PROVE proc'[c] \in {proc[c], NoProc}
  BY <1>14, Zenon DEF Lower, At, Goto, TypeOK, pvars, cvars
<1>15. ASSUME Reslice(c) PROVE proc'[c] \in {proc[c], NoProc}
  BY <1>15, Zenon DEF Reslice, Goto, At, TypeOK, pvars, cvars
<1>16. ASSUME Expire(c) PROVE proc'[c] \in {proc[c], NoProc}
  BY <1>16, Zenon DEF Expire, At, Goto, TypeOK, pvars, cvars
<1>17. ASSUME Yield(c) PROVE proc'[c] \in {proc[c], NoProc}
  BY <1>17, Zenon DEF Yield, Leave, At, Goto, TypeOK, pvars, cvars
<1>18. ASSUME Sleep(c) PROVE proc'[c] \in {proc[c], NoProc}
  BY <1>18, Zenon DEF Sleep, Leave, At, Goto, TypeOK, pvars, cvars
<1>19. ASSUME Exit(c) PROVE proc'[c] \in {proc[c], NoProc}
  BY <1>19, Zenon DEF Exit, Leave, At, Goto, TypeOK, pvars, cvars
<1>20. ASSUME TrapExit(c) PROVE proc'[c] \in {proc[c], NoProc}
  BY <1>20, Zenon DEF TrapExit, At, Goto, TypeOK, pvars, cvars
<1>21. ASSUME ForkPublish(c) PROVE proc'[c] \in {proc[c], NoProc}
  BY <1>21, Zenon DEF ForkPublish, At, TypeOK, pvars, cvars
<1>22. ASSUME NEW q \in Procs, Wakeup(c, q)
      PROVE  proc'[c] \in {proc[c], NoProc}
  BY <1>22, Zenon DEF Wakeup, TypeOK, pvars, cvars
<1>23. ASSUME NEW q \in Procs, Kill(c, q)
      PROVE  proc'[c] \in {proc[c], NoProc}
  BY <1>23, Zenon DEF Kill, TypeOK, pvars, cvars
<1>24. ASSUME NEW q \in Procs, Reap(c, q)
      PROVE  proc'[c] \in {proc[c], NoProc}
  BY <1>24, Zenon DEF Reap, At, TypeOK, pvars, cvars
<1>25. ASSUME NEW q \in Procs, NEW ok \in BOOLEAN, ForkAlloc(c, q, ok)
      PROVE  proc'[c] \in {proc[c], NoProc}
  BY <1>25, Zenon DEF ForkAlloc, At, init_mlfq_proc, TypeOK, pvars, cvars
<1>26. QED
  BY <1>1, <1>2, <1>3, <1>4, <1>5, <1>6, <1>7, <1>8, <1>9, <1>10, <1>11,
     <1>12, <1>13, <1>14, <1>15, <1>16, <1>17, <1>18, <1>19, <1>20, <1>21,
     <1>22, <1>23, <1>24, <1>25, Zenon DEF HartStep, Scheduler, Tick, ProcStep

\* The inductive invariant of the machine with one hart.
THEOREM UpInvariance ==
  ASSUME Uniprocessor
  PROVE  Spec => [](ScanInv /\ SliceInv /\ IdleMeansNoWork)
<1> DEFINE I == ScanInv /\ SliceInv /\ IdleMeansNoWork
           J == TypeOK /\ SumInv /\ Safe
<1>1. Init => I
  BY InitUp, Zenon
<1>2. I /\ J /\ [Next]_vars => I'
  <2> SUFFICES ASSUME I, J, [Next]_vars PROVE I'
    OBVIOUS
  <2>1. CASE Next
    <3>1. PICK c \in CPUs : HartStep(c)
      BY <2>1, Zenon DEF Next, HartStep
    <3>2. \A d \in CPUs : d = c
      BY Zenon DEF Uniprocessor
    <3>3. QED
      BY <3>1, <3>2, StepScan, StepSlice, Zenon
  <2>2. CASE UNCHANGED vars
    <3>1. ScanInv' /\ IdleMeansNoWork'
      BY <2>2, Zenon DEF vars, pvars, cvars, ScanInv, IdleMeansNoWork
    <3>2. ASSUME NEW p \in Procs, NEW c \in CPUs, SliceOf(c, p)
          PROVE  SliceOf(c, p)'
      <4>1. (Matches(p)' <=> Matches(p)) /\ (Updating(c, p)' <=> Updating(c, p))
        BY <2>2, Zenon DEF vars, pvars, cvars, Matches, Updating
      <4>2. QED
        BY <2>2, <3>2, <4>1, Zenon DEF vars, pvars, cvars, SliceOf
    <3>3. SliceInv'
      BY <2>2, <3>2, Zenon DEF vars, pvars, SliceInv
    <3>4. QED
      BY <3>1, <3>3, Zenon
  <2>3. QED
    BY <2>1, <2>2, Zenon
<1>3. Spec => []J
  BY Invariance, Zenon
<1>4. QED
  BY <1>1, <1>2, <1>3, PTL DEF Spec

\* On one hart the unlocked stores of mlfq_tick() and boost_all_priorities()
\* keep level, slice and used ticks together.
THEOREM UpSlice == ASSUME Uniprocessor PROVE Spec => []SliceMatchesLevel
<1>1. SliceInv => SliceMatchesLevel
  BY Zenon DEF Uniprocessor, SliceInv, SliceOf, SliceMatchesLevel, Matches
<1>2. QED
  BY <1>1, UpInvariance, PTL

\* On one hart, idle means that no process is RUNNABLE.
THEOREM UpIdle == ASSUME Uniprocessor PROVE Spec => []IdleMeansNoWork
BY UpInvariance, PTL

\* On one hart, scheduler() always switches to the best RUNNABLE process.
THEOREM UpPicksBest == ASSUME Uniprocessor PROVE Spec => PicksBest
<1> DEFINE
      Pick == \A c \in CPUs : \A p \in Procs :
                (proc[c] = NoProc /\ proc'[c] = p) =>
                  \A q \in Procs : state[q] = "RUNNABLE" =>
                    \/ priority[p] < priority[q]
                    \/ priority[p] = priority[q] /\ p <= q
<1>1. TypeOK /\ ScanInv /\ [Next]_vars => [Pick]_vars
  <2> SUFFICES ASSUME TypeOK, ScanInv, Next,
                      NEW c \in CPUs, NEW p \in Procs,
                      proc[c] = NoProc, proc'[c] = p,
                      NEW q \in Procs, state[q] = "RUNNABLE"
               PROVE  \/ priority[p] < priority[q]
                      \/ priority[p] = priority[q] /\ p <= q
    OBVIOUS
  <2>1. HartStep(c)
    BY Zenon DEF Next, HartStep, Uniprocessor
  <2>2. Dispatch(c)
    BY <2>1, OnlyDispatch, MlfqAssumption, Zenon DEF Procs
  <2>3. pc[c] = "scan" /\ p = slot[c] /\ priority[p] = level[c]
    BY <2>2, Zenon DEF Dispatch, TypeOK
  <2>4. QED
    BY <2>3, Zenon DEF ScanInv
<1>2. Spec => []TypeOK
  BY TypeCorrect, Zenon
<1>3. Spec => [](ScanInv /\ SliceInv /\ IdleMeansNoWork)
  BY UpInvariance, Zenon
<1>4. QED
  BY <1>1, <1>2, <1>3, PTL DEF Spec, PicksBest
=============================================================================
