----------------------------- MODULE ProcProofs -----------------------------
(***************************************************************************)
(* The life of a process, for every size of the process table: what the    *)
(* locks of kernel/proc.c are there for.                                   *)
(***************************************************************************)
EXTENDS Proc, TLAPS

States == {"UNUSED", "USED", "RUNNABLE", "SLEEPING", "ZOMBIE"}

\* Labels at which p->lock, and those at which wait_lock, is held.
Locking == {"sleep_sched", "exit_unlock", "exit_sched"}
Exiting == {"reparent", "wake_init", "wake_parent", "zombie", "exit_unlock"}
Waiting == {"scan", "check", "sleep"}
Forking == {"fork_parent", "fork_ready"}
Labels == {"none", "user", "exit", "wait", "asleep"}
            \cup Locking \cup Exiting \cup Waiting \cup Forking

Types ==
  /\ state \in [Procs -> States]
  /\ pid \in [Procs -> Nat]
  /\ parent \in [Procs -> Procs \cup {0}]
  /\ chan \in [Procs -> Procs \cup {0}]
  /\ killed \in [Procs -> BOOLEAN]
  /\ nextpid \in Nat \ {0}
  /\ lock \in [Procs -> BOOLEAN]
  /\ wait_lock \in Procs \cup {0}
  /\ pc \in [Procs -> Labels]
  /\ idx \in [Procs -> Procs] /\ widx \in [Procs -> Procs]
  /\ np \in [Procs -> Procs \cup {0}]
  /\ havekids \in [Procs -> BOOLEAN]
  /\ asked \in SUBSET Nat

\* What the state of a process says about its thread.
ThreadOf(p) ==
  /\ pc[p] = "none" => state[p] \in {"UNUSED", "USED", "ZOMBIE"}
  /\ pc[p] \in {"exit_unlock", "exit_sched"} => state[p] = "ZOMBIE"
  /\ pc[p] = "asleep" => state[p] \in {"SLEEPING", "RUNNABLE"}
  /\ pc[p] \notin {"none", "exit_unlock", "exit_sched", "asleep"} => state[p] = "RUNNABLE"

\* p->lock stays held only while its process is on the way to the scheduler.
LockHeld(p) == lock[p] <=> pc[p] \in Locking

WaitLockHeld == \A p \in Procs : wait_lock = p <=> pc[p] \in Exiting \cup Waiting

\* A child that is being made is known to its parent only.
Newborn(p) ==
  /\ pc[p] \in Forking =>
       /\ np[p] \in Procs /\ state[np[p]] = "USED"
       /\ \A q \in Procs : pc[q] \in Forking /\ np[q] = np[p] => q = p
  /\ pc[p] = "fork_ready" => parent[np[p]] = p

\* init does not exit and has no parent.
InitLives ==
  /\ pc[initproc] \notin {"none", "exit", "exit_sched"} \cup Exiting
  /\ parent[initproc] = 0

\* A loop over the table starts at its beginning.
LoopStart(p) == pc[p] \notin {"reparent", "wake_init", "scan"} => idx[p] = 1

Control ==
  /\ \A p \in Procs : ThreadOf(p) /\ LockHeld(p) /\ Newborn(p) /\ LoopStart(p)
  /\ WaitLockHeld
  /\ InitLives

\* The slots that reparent() has passed are no children of p.
Passed(p) ==
  /\ pc[p] = "reparent" => \A q \in Procs : q < idx[p] => parent[q] # p
  /\ pc[p] = "wake_init" => \A q \in Procs : q <= idx[p] => parent[q] # p
  /\ pc[p] \in {"wake_parent", "zombie"} => \A q \in Procs : parent[q] # p

\* The parent of a process that can run, or that waits to be collected.
HasParent(p) ==
  p # initproc /\ state[p] \in {"RUNNABLE", "SLEEPING", "ZOMBIE"} =>
    parent[p] \in Procs /\ Alive(parent[p])

\* The inductive invariant for OffStack and ParentAlive.
IInv == Types /\ Control /\ \A p \in Procs : Passed(p) /\ HasParent(p)

\* A free slot is not marked as killed.
KilledInv ==
  \A p \in Procs :
    /\ state[p] = "UNUSED" => pid[p] = 0 /\ ~killed[p]
    /\ state[p] # "UNUSED" => pid[p] # 0
    /\ killed[p] => pid[p] \in asked

-----------------------------------------------------------------------------
LEMMA InitInv == Init => IInv /\ KilledInv
<1> SUFFICES ASSUME Init PROVE IInv /\ KilledInv
  OBVIOUS
<1> USE ProcAssumption DEF Procs, initproc
<1>1. Types
  BY DEF Init, Types, States, Labels
<1>2. Control
  BY DEF Init, Control, ThreadOf, LockHeld, Newborn, WaitLockHeld, InitLives, LoopStart,
         Locking, Exiting, Waiting, Forking
<1>3. \A p \in Procs : Passed(p) /\ HasParent(p)
  BY Zenon DEF Init, Passed, HasParent
<1>4. KilledInv
  BY DEF Init, KilledInv
<1>5. QED
  BY <1>1, <1>2, <1>3, <1>4, Zenon DEF IInv

LEMMA LastSlot ==
  ASSUME NEW i \in Procs, ~(i < NPROC)
  PROVE  Following(i) = 1
BY Zenon DEF Following

LEMMA Slots == 0 \notin Procs /\ 1 \in Procs /\ initproc = 1
BY ProcAssumption DEF Procs, initproc

\* A loop over the table stays in it.
LEMMA FollowingIs ==
  ASSUME NEW i \in Procs
  PROVE  /\ Following(i) \in Procs
         /\ i < NPROC => Following(i) = i + 1
BY ProcAssumption DEF Procs, Following

LEMMA TypesStep ==
  ASSUME IInv, [Next]_vars
  PROVE  Types'
<1> USE DEF IInv, Types
<1>0. initproc \in Procs /\ 1 \in Procs
  BY ProcAssumption DEF initproc, Procs
<1>1. ASSUME NEW p \in Procs, NEW q \in Procs, NEW ok \in BOOLEAN, ForkAlloc(p, q, ok)
      PROVE  Types'
  <2>1. nextpid' \in Nat \ {0}
    BY <1>1 DEF ForkAlloc
  <2>2. /\ killed' \in [Procs -> BOOLEAN]
        /\ UNCHANGED <<parent, chan, lock, wait_lock, idx, widx, havekids, asked>>
    BY <1>1, Zenon DEF ForkAlloc
  <2>3. /\ pid' \in [Procs -> Nat] /\ state' \in [Procs -> States]
        /\ np' \in [Procs -> Procs \cup {0}] /\ pc' \in [Procs -> Labels]
    <3>1. CASE ok
      <4>1. /\ pid' = [pid EXCEPT ![q] = nextpid] /\ state' = [state EXCEPT ![q] = "USED"]
            /\ np' = [np EXCEPT ![p] = q] /\ pc' = [pc EXCEPT ![p] = "fork_parent"]
        BY <1>1, <3>1, Zenon DEF ForkAlloc, Goto
      <4>2. QED
        BY <4>1, Zenon DEF States, Labels, Forking
    <3>2. CASE ~ok
      BY <1>1, <3>2, Zenon DEF ForkAlloc
    <3>3. QED
      BY <3>1, <3>2, Zenon
  <2>4. QED
    BY <2>1, <2>2, <2>3, Zenon
<1>2. ASSUME NEW p \in Procs, ForkParent(p) PROVE Types'
  BY <1>2, Zenon DEF ForkParent, Goto, Labels, Forking, locals
<1>3. ASSUME NEW p \in Procs, ForkReady(p) PROVE Types'
  BY <1>3, Zenon DEF ForkReady, Labels, States
<1>4. ASSUME NEW p \in Procs, Exit(p) PROVE Types'
  BY <1>4, Zenon DEF Exit, Goto, Labels, locals, pvars
<1>5. ASSUME NEW p \in Procs, ExitLock(p) PROVE Types'
  BY <1>5, Zenon DEF ExitLock, Goto, Labels, Exiting, locals, pvars
<1>6. ASSUME NEW p \in Procs, Reparent(p) PROVE Types'
  BY <1>0, <1>6, FollowingIs DEF Reparent, Goto, Labels, Exiting
<1>7. ASSUME NEW p \in Procs, WakeInit(p) PROVE Types'
  BY <1>7, FollowingIs DEF WakeInit, WakeupStep, Goto, Labels, Exiting, States
<1>8. ASSUME NEW p \in Procs, WakeParent(p) PROVE Types'
  BY <1>8, FollowingIs DEF WakeParent, WakeupStep, Goto, Labels, Exiting, States
<1>9. ASSUME NEW p \in Procs, Zombie(p) PROVE Types'
  BY <1>9, Zenon DEF Zombie, Goto, Labels, Exiting, States, locals
<1>10. ASSUME NEW p \in Procs, ExitUnlock(p) PROVE Types'
  BY <1>10, Zenon DEF ExitUnlock, Goto, Labels, Locking, locals, pvars
<1>11. ASSUME NEW p \in Procs, ExitSched(p) PROVE Types'
  BY <1>11, Zenon DEF ExitSched, Goto, Labels, locals, pvars
<1>12. ASSUME NEW p \in Procs, Wait(p) PROVE Types'
  BY <1>12, Zenon DEF Wait, Goto, Labels, locals, pvars
<1>13. ASSUME NEW p \in Procs, WaitLock(p) PROVE Types'
  BY <1>13, Zenon DEF WaitLock, Goto, Labels, Waiting, locals, pvars
<1>14. ASSUME NEW p \in Procs, NEW fault \in BOOLEAN, Collect(p, fault) PROVE Types'
  <2>1. /\ wait_lock' = 0 /\ idx' = [idx EXCEPT ![p] = 1] /\ UNCHANGED <<lock, widx, np, asked>>
        /\ havekids' = [havekids EXCEPT ![p] = FALSE] /\ pc' = [pc EXCEPT ![p] = "user"]
    BY <1>14, Zenon DEF Collect, Goto
  <2>2. CASE fault
    BY <1>0, <1>14, <2>1, <2>2 DEF Collect, pvars, Labels
  <2>3. CASE ~fault
    <3>1. /\ state' \in [Procs -> States] /\ pid' \in [Procs -> Nat]
          /\ parent' \in [Procs -> Procs \cup {0}] /\ chan' \in [Procs -> Procs \cup {0}]
          /\ nextpid' = nextpid
      BY <1>14, <2>3 DEF Collect, freeproc, States
    <3>2. killed' \in [Procs -> BOOLEAN]
      BY <1>14, <2>3, Zenon DEF Collect, freeproc
    <3>3. QED
      BY <1>0, <2>1, <3>1, <3>2, Zenon DEF Labels
  <2>4. QED
    BY <2>2, <2>3, Zenon
<1>15. ASSUME NEW p \in Procs, ScanNext(p) PROVE Types'
  BY <1>15, FollowingIs, Zenon DEF ScanNext, Goto, Labels, Waiting, pvars
<1>16. ASSUME NEW p \in Procs, Check(p) PROVE Types'
  BY <1>16, Zenon DEF Check, Goto, Labels, Waiting, pvars
<1>17. ASSUME NEW p \in Procs, SleepLock(p) PROVE Types'
  BY <1>17, Zenon DEF SleepLock, Goto, Labels, Locking, locals, pvars
<1>18. ASSUME NEW p \in Procs, SleepSched(p) PROVE Types'
  BY <1>18, Zenon DEF SleepSched, Goto, Labels, States, locals
<1>19. ASSUME NEW p \in Procs, Awake(p) PROVE Types'
  BY <1>19, Zenon DEF Awake, Goto, Labels, locals
<1>20. ASSUME NEW p \in Procs, NEW q \in Procs, NEW t \in KillPids, Kill(p, q, t) PROVE Types'
  BY <1>20, ProcAssumption DEF Kill, States, locals
<1>21. ASSUME NEW p \in Procs, Fault(p) PROVE Types'
  BY <1>21, Zenon DEF Fault, locals
<1>22. CASE UNCHANGED vars
  BY <1>22, Zenon DEF vars, pvars, locals
<1> HIDE DEF Types
<1>23. QED
  BY <1>1, <1>2, <1>3, <1>4, <1>5, <1>6, <1>7, <1>8, <1>9, <1>10, <1>11, <1>12, <1>13, <1>14,
     <1>15, <1>16, <1>17, <1>18, <1>19, <1>20, <1>21, <1>22, Zenon DEF Next, Kernel, User

\* What ForkAlloc does, without the flag.
Forked(p, q) ==
  /\ pc[p] = "user" /\ state[q] = "UNUSED"
  /\ UNCHANGED <<parent, lock, wait_lock, idx>>
  /\ \/ /\ state' = [state EXCEPT ![q] = "USED"] /\ np' = [np EXCEPT ![p] = q]
        /\ pc' = [pc EXCEPT ![p] = "fork_parent"]
     \/ UNCHANGED <<state, np, pc>>

LEMMA ForkAllocDoes ==
  ASSUME NEW p \in Procs, NEW q \in Procs, NEW ok \in BOOLEAN, ForkAlloc(p, q, ok)
  PROVE  Forked(p, q)
<1> USE DEF Forked
<1>1. CASE ok
  BY <1>1, Zenon DEF ForkAlloc, Goto
<1>2. CASE ~ok
  BY <1>2, Zenon DEF ForkAlloc
<1>3. QED
  BY <1>1, <1>2, Zenon

\* The same for Collect: a child that left its stack is freed, or nothing is.
Collected(p) ==
  /\ pc[p] = "scan" /\ wait_lock' = 0 /\ pc' = [pc EXCEPT ![p] = "user"]
  /\ UNCHANGED <<lock, np>> /\ idx' = [idx EXCEPT ![p] = 1]
  /\ idx[p] \in Procs /\ parent[idx[p]] = p /\ state[idx[p]] = "ZOMBIE"
  /\ pc[idx[p]] = "none"
  /\ \/ UNCHANGED <<state, parent>>
     \/ /\ state' = [state EXCEPT ![idx[p]] = "UNUSED"]
        /\ parent' = [parent EXCEPT ![idx[p]] = 0]

LEMMA CollectDoes ==
  ASSUME IInv, NEW p \in Procs, NEW fault \in BOOLEAN, Collect(p, fault)
  PROVE  Collected(p)
<1> USE DEF Collected
<1>1. /\ pc[p] = "scan" /\ wait_lock' = 0 /\ pc' = [pc EXCEPT ![p] = "user"]
      /\ UNCHANGED <<lock, np>> /\ idx' = [idx EXCEPT ![p] = 1]
      /\ parent[idx[p]] = p /\ state[idx[p]] = "ZOMBIE" /\ ~lock[idx[p]]
  BY Zenon DEF Collect, Goto
<1>2. idx[p] \in Procs
  BY Zenon DEF IInv, Types
<1>3. pc[idx[p]] = "none"
  BY <1>1, <1>2, Zenon DEF IInv, Control, ThreadOf, LockHeld, Locking
<1>4. CASE fault
  BY <1>1, <1>2, <1>3, <1>4, Zenon DEF Collect, pvars
<1>5. CASE ~fault
  <2>1. /\ state' = [state EXCEPT ![idx[p]] = "UNUSED"]
        /\ parent' = [parent EXCEPT ![idx[p]] = 0]
    BY <1>5, Zenon DEF Collect, freeproc
  <2>2. QED
    BY <1>1, <1>2, <1>3, <2>1, Zenon
<1>6. QED
  BY <1>4, <1>5, Zenon

LEMMA ThreadStep ==
  ASSUME IInv, Types', [Next]_vars
  PROVE  \A r \in Procs : ThreadOf(r)'
<1>0. /\ state \in [Procs -> States] /\ pc \in [Procs -> Labels] /\ lock \in [Procs -> BOOLEAN]
      /\ parent \in [Procs -> Procs \cup {0}] /\ idx \in [Procs -> Procs]
      /\ np \in [Procs -> Procs \cup {0}] /\ wait_lock \in Procs \cup {0}
      /\ \A r \in Procs : ThreadOf(r) /\ Newborn(r)
  BY Zenon DEF IInv, Types, Control
<1> USE <1>0, Slots DEF Locking, Exiting, Waiting, Forking, Labels, ThreadOf, Newborn
<1>1. ASSUME NEW p \in Procs, NEW q \in Procs, NEW ok \in BOOLEAN, ForkAlloc(p, q, ok)
      PROVE  \A r \in Procs : ThreadOf(r)'
  <2>0. Forked(p, q)
    BY <1>1, ForkAllocDoes
  <2>1. CASE /\ state' = [state EXCEPT ![q] = "USED"] /\ np' = [np EXCEPT ![p] = q]
             /\ pc' = [pc EXCEPT ![p] = "fork_parent"]
    BY <2>0, <2>1 DEF Forked
  <2>2. CASE UNCHANGED <<state, np, pc>>
    BY <2>0, <2>2, Zenon DEF Forked
  <2>3. QED
    BY <2>0, <2>1, <2>2, Zenon DEF Forked
<1>2. ASSUME NEW p \in Procs, ForkParent(p) PROVE \A r \in Procs : ThreadOf(r)'
  BY <1>2 DEF ForkParent, Goto, locals
<1>3. ASSUME NEW p \in Procs, ForkReady(p) PROVE \A r \in Procs : ThreadOf(r)'
  BY <1>3 DEF ForkReady
<1>4. ASSUME NEW p \in Procs, Exit(p) PROVE \A r \in Procs : ThreadOf(r)'
  BY <1>4 DEF Exit, Goto, locals, pvars
<1>5. ASSUME NEW p \in Procs, ExitLock(p) PROVE \A r \in Procs : ThreadOf(r)'
  BY <1>5 DEF ExitLock, Goto, locals, pvars
<1>6. ASSUME NEW p \in Procs, Reparent(p) PROVE \A r \in Procs : ThreadOf(r)'
  BY <1>6 DEF Reparent, Goto
<1>7. ASSUME NEW p \in Procs, WakeInit(p) PROVE \A r \in Procs : ThreadOf(r)'
  BY <1>7 DEF WakeInit, WakeupStep, Goto
<1>8. ASSUME NEW p \in Procs, WakeParent(p) PROVE \A r \in Procs : ThreadOf(r)'
  BY <1>8 DEF WakeParent, WakeupStep, Goto
<1>9. ASSUME NEW p \in Procs, Zombie(p) PROVE \A r \in Procs : ThreadOf(r)'
  BY <1>9 DEF Zombie, Goto, locals
<1>10. ASSUME NEW p \in Procs, ExitUnlock(p) PROVE \A r \in Procs : ThreadOf(r)'
  BY <1>10 DEF ExitUnlock, Goto, locals, pvars
<1>11. ASSUME NEW p \in Procs, ExitSched(p) PROVE \A r \in Procs : ThreadOf(r)'
  BY <1>11 DEF ExitSched, Goto, locals, pvars
<1>12. ASSUME NEW p \in Procs, Wait(p) PROVE \A r \in Procs : ThreadOf(r)'
  BY <1>12 DEF Wait, Goto, locals, pvars
<1>13. ASSUME NEW p \in Procs, WaitLock(p) PROVE \A r \in Procs : ThreadOf(r)'
  BY <1>13 DEF WaitLock, Goto, locals, pvars
<1>14. ASSUME NEW p \in Procs, NEW fault \in BOOLEAN, Collect(p, fault)
      PROVE  \A r \in Procs : ThreadOf(r)'
  <2>0. Collected(p)
    BY <1>14, CollectDoes
  <2>1. CASE UNCHANGED <<state, parent>>
    BY <2>0, <2>1 DEF Collected
  <2>2. CASE /\ state' = [state EXCEPT ![idx[p]] = "UNUSED"]
             /\ parent' = [parent EXCEPT ![idx[p]] = 0]
    BY <2>0, <2>2 DEF Collected
  <2>3. QED
    BY <2>0, <2>1, <2>2, Zenon DEF Collected
<1>15. ASSUME NEW p \in Procs, ScanNext(p) PROVE \A r \in Procs : ThreadOf(r)'
  BY <1>15 DEF ScanNext, Goto, pvars
<1>16. ASSUME NEW p \in Procs, Check(p) PROVE \A r \in Procs : ThreadOf(r)'
  BY <1>16 DEF Check, Goto, pvars
<1>17. ASSUME NEW p \in Procs, SleepLock(p) PROVE \A r \in Procs : ThreadOf(r)'
  BY <1>17 DEF SleepLock, Goto, locals, pvars
<1>18. ASSUME NEW p \in Procs, SleepSched(p) PROVE \A r \in Procs : ThreadOf(r)'
  BY <1>18 DEF SleepSched, Goto, locals
<1>19. ASSUME NEW p \in Procs, Awake(p) PROVE \A r \in Procs : ThreadOf(r)'
  BY <1>19 DEF Awake, Goto, locals
<1>20. ASSUME NEW p \in Procs, NEW q \in Procs, NEW t \in KillPids, Kill(p, q, t)
      PROVE  \A r \in Procs : ThreadOf(r)'
  BY <1>20 DEF Kill, locals
<1>21. ASSUME NEW p \in Procs, Fault(p) PROVE \A r \in Procs : ThreadOf(r)'
  BY <1>21, Zenon DEF Fault, locals
<1>22. CASE UNCHANGED vars
  BY <1>22, Zenon DEF vars, pvars, locals
<1> HIDE <1>0, Slots DEF Locking, Exiting, Waiting, Forking, Labels, ThreadOf, Newborn
<1>23. QED
  BY <1>1, <1>2, <1>3, <1>4, <1>5, <1>6, <1>7, <1>8, <1>9, <1>10, <1>11, <1>12, <1>13, <1>14,
     <1>15, <1>16, <1>17, <1>18, <1>19, <1>20, <1>21, <1>22, Zenon DEF Next, Kernel, User

LEMMA LockStep ==
  ASSUME IInv, Types', [Next]_vars
  PROVE  \A r \in Procs : LockHeld(r)'
<1>0. /\ state \in [Procs -> States] /\ pc \in [Procs -> Labels] /\ lock \in [Procs -> BOOLEAN]
      /\ parent \in [Procs -> Procs \cup {0}] /\ idx \in [Procs -> Procs]
      /\ np \in [Procs -> Procs \cup {0}] /\ wait_lock \in Procs \cup {0}
      /\ \A r \in Procs : LockHeld(r)
  BY Zenon DEF IInv, Types, Control
<1> USE <1>0, Slots DEF Locking, Exiting, Waiting, Forking, Labels, LockHeld
<1>1. ASSUME NEW p \in Procs, NEW q \in Procs, NEW ok \in BOOLEAN, ForkAlloc(p, q, ok)
      PROVE  \A r \in Procs : LockHeld(r)'
  <2>0. Forked(p, q)
    BY <1>1, ForkAllocDoes
  <2>1. CASE /\ state' = [state EXCEPT ![q] = "USED"] /\ np' = [np EXCEPT ![p] = q]
             /\ pc' = [pc EXCEPT ![p] = "fork_parent"]
    BY <2>0, <2>1, Zenon DEF Forked
  <2>2. CASE UNCHANGED <<state, np, pc>>
    BY <2>0, <2>2, Zenon DEF Forked
  <2>3. QED
    BY <2>0, <2>1, <2>2, Zenon DEF Forked
<1>2. ASSUME NEW p \in Procs, ForkParent(p) PROVE \A r \in Procs : LockHeld(r)'
  BY <1>2, Zenon DEF ForkParent, Goto, locals
<1>3. ASSUME NEW p \in Procs, ForkReady(p) PROVE \A r \in Procs : LockHeld(r)'
  BY <1>3, Zenon DEF ForkReady
<1>4. ASSUME NEW p \in Procs, Exit(p) PROVE \A r \in Procs : LockHeld(r)'
  BY <1>4, Zenon DEF Exit, Goto, locals, pvars
<1>5. ASSUME NEW p \in Procs, ExitLock(p) PROVE \A r \in Procs : LockHeld(r)'
  BY <1>5, Zenon DEF ExitLock, Goto, locals, pvars
<1>6. ASSUME NEW p \in Procs, Reparent(p) PROVE \A r \in Procs : LockHeld(r)'
  BY <1>6 DEF Reparent, Goto
<1>7. ASSUME NEW p \in Procs, WakeInit(p) PROVE \A r \in Procs : LockHeld(r)'
  BY <1>7 DEF WakeInit, WakeupStep, Goto
<1>8. ASSUME NEW p \in Procs, WakeParent(p) PROVE \A r \in Procs : LockHeld(r)'
  BY <1>8 DEF WakeParent, WakeupStep, Goto
<1>9. ASSUME NEW p \in Procs, Zombie(p) PROVE \A r \in Procs : LockHeld(r)'
  BY <1>9, Zenon DEF Zombie, Goto, locals
<1>10. ASSUME NEW p \in Procs, ExitUnlock(p) PROVE \A r \in Procs : LockHeld(r)'
  BY <1>10, Zenon DEF ExitUnlock, Goto, locals, pvars
<1>11. ASSUME NEW p \in Procs, ExitSched(p) PROVE \A r \in Procs : LockHeld(r)'
  BY <1>11, Zenon DEF ExitSched, Goto, locals, pvars
<1>12. ASSUME NEW p \in Procs, Wait(p) PROVE \A r \in Procs : LockHeld(r)'
  BY <1>12, Zenon DEF Wait, Goto, locals, pvars
<1>13. ASSUME NEW p \in Procs, WaitLock(p) PROVE \A r \in Procs : LockHeld(r)'
  BY <1>13, Zenon DEF WaitLock, Goto, locals, pvars
<1>14. ASSUME NEW p \in Procs, NEW fault \in BOOLEAN, Collect(p, fault)
      PROVE  \A r \in Procs : LockHeld(r)'
  <2>0. Collected(p)
    BY <1>14, CollectDoes, Zenon
  <2>1. CASE UNCHANGED <<state, parent>>
    BY <2>0, <2>1 DEF Collected
  <2>2. CASE /\ state' = [state EXCEPT ![idx[p]] = "UNUSED"]
             /\ parent' = [parent EXCEPT ![idx[p]] = 0]
    BY <2>0, <2>2 DEF Collected
  <2>3. QED
    BY <2>0, <2>1, <2>2, Zenon DEF Collected
<1>15. ASSUME NEW p \in Procs, ScanNext(p) PROVE \A r \in Procs : LockHeld(r)'
  BY <1>15 DEF ScanNext, Goto, pvars
<1>16. ASSUME NEW p \in Procs, Check(p) PROVE \A r \in Procs : LockHeld(r)'
  BY <1>16 DEF Check, Goto, pvars
<1>17. ASSUME NEW p \in Procs, SleepLock(p) PROVE \A r \in Procs : LockHeld(r)'
  BY <1>17, Zenon DEF SleepLock, Goto, locals, pvars
<1>18. ASSUME NEW p \in Procs, SleepSched(p) PROVE \A r \in Procs : LockHeld(r)'
  BY <1>18, Zenon DEF SleepSched, Goto, locals
<1>19. ASSUME NEW p \in Procs, Awake(p) PROVE \A r \in Procs : LockHeld(r)'
  BY <1>19, Zenon DEF Awake, Goto, locals
<1>20. ASSUME NEW p \in Procs, NEW q \in Procs, NEW t \in KillPids, Kill(p, q, t)
      PROVE  \A r \in Procs : LockHeld(r)'
  BY <1>20, Zenon DEF Kill, locals
<1>21. ASSUME NEW p \in Procs, Fault(p) PROVE \A r \in Procs : LockHeld(r)'
  BY <1>21, Zenon DEF Fault, locals
<1>22. CASE UNCHANGED vars
  BY <1>22, Zenon DEF vars, pvars, locals
<1> HIDE <1>0, Slots DEF Locking, Exiting, Waiting, Forking, Labels, LockHeld
<1>23. QED
  BY <1>1, <1>2, <1>3, <1>4, <1>5, <1>6, <1>7, <1>8, <1>9, <1>10, <1>11, <1>12, <1>13, <1>14,
     <1>15, <1>16, <1>17, <1>18, <1>19, <1>20, <1>21, <1>22, Zenon DEF Next, Kernel, User

LEMMA WaitLockStep ==
  ASSUME IInv, Types', [Next]_vars
  PROVE  WaitLockHeld'
<1>0. /\ state \in [Procs -> States] /\ pc \in [Procs -> Labels] /\ lock \in [Procs -> BOOLEAN]
      /\ parent \in [Procs -> Procs \cup {0}] /\ idx \in [Procs -> Procs]
      /\ np \in [Procs -> Procs \cup {0}] /\ wait_lock \in Procs \cup {0}
      /\ \A r \in Procs : ThreadOf(r) /\ Newborn(r)
      /\ WaitLockHeld
  BY Zenon DEF IInv, Types, Control
<1> USE <1>0, Slots DEF Locking, Exiting, Waiting, Forking, Labels, WaitLockHeld
<1>1. ASSUME NEW p \in Procs, NEW q \in Procs, NEW ok \in BOOLEAN, ForkAlloc(p, q, ok)
      PROVE  WaitLockHeld'
  <2>0. Forked(p, q)
    BY <1>1, ForkAllocDoes
  <2>1. CASE /\ state' = [state EXCEPT ![q] = "USED"] /\ np' = [np EXCEPT ![p] = q]
             /\ pc' = [pc EXCEPT ![p] = "fork_parent"]
    BY <2>0, <2>1, Zenon DEF Forked
  <2>2. CASE UNCHANGED <<state, np, pc>>
    BY <2>0, <2>2, Zenon DEF Forked
  <2>3. QED
    BY <2>0, <2>1, <2>2, Zenon DEF Forked
<1>2. ASSUME NEW p \in Procs, ForkParent(p) PROVE WaitLockHeld'
  BY <1>2, Zenon DEF ForkParent, Goto, locals
<1>3. ASSUME NEW p \in Procs, ForkReady(p) PROVE WaitLockHeld'
  <2>1. /\ pc[p] = "fork_ready" /\ UNCHANGED wait_lock
        /\ pc' = [pc EXCEPT ![p] = "user", ![np[p]] = "user"] /\ np[p] \in Procs
        /\ state[np[p]] = "USED"
    BY <1>3, Zenon DEF ForkReady, Newborn
  <2>2. pc[np[p]] = "none"
    BY <2>1, Zenon DEF ThreadOf
  <2>3. QED
    BY <2>1, <2>2
<1>4. ASSUME NEW p \in Procs, Exit(p) PROVE WaitLockHeld'
  BY <1>4, Zenon DEF Exit, Goto, locals, pvars
<1>5. ASSUME NEW p \in Procs, ExitLock(p) PROVE WaitLockHeld'
  BY <1>5, Zenon DEF ExitLock, Goto, locals, pvars
<1>6. ASSUME NEW p \in Procs, Reparent(p) PROVE WaitLockHeld'
  BY <1>6 DEF Reparent, Goto
<1>7. ASSUME NEW p \in Procs, WakeInit(p) PROVE WaitLockHeld'
  BY <1>7 DEF WakeInit, WakeupStep, Goto
<1>8. ASSUME NEW p \in Procs, WakeParent(p) PROVE WaitLockHeld'
  BY <1>8 DEF WakeParent, WakeupStep, Goto
<1>9. ASSUME NEW p \in Procs, Zombie(p) PROVE WaitLockHeld'
  BY <1>9, Zenon DEF Zombie, Goto, locals
<1>10. ASSUME NEW p \in Procs, ExitUnlock(p) PROVE WaitLockHeld'
  BY <1>10, Zenon DEF ExitUnlock, Goto, locals, pvars
<1>11. ASSUME NEW p \in Procs, ExitSched(p) PROVE WaitLockHeld'
  BY <1>11, Zenon DEF ExitSched, Goto, locals, pvars
<1>12. ASSUME NEW p \in Procs, Wait(p) PROVE WaitLockHeld'
  BY <1>12, Zenon DEF Wait, Goto, locals, pvars
<1>13. ASSUME NEW p \in Procs, WaitLock(p) PROVE WaitLockHeld'
  BY <1>13, Zenon DEF WaitLock, Goto, locals, pvars
<1>14. ASSUME NEW p \in Procs, NEW fault \in BOOLEAN, Collect(p, fault) PROVE WaitLockHeld'
  <2>0. Collected(p)
    BY <1>14, CollectDoes, Zenon
  <2>1. QED
    BY <2>0, Zenon DEF Collected
<1>15. ASSUME NEW p \in Procs, ScanNext(p) PROVE WaitLockHeld'
  BY <1>15, Zenon DEF ScanNext, Goto, pvars
<1>16. ASSUME NEW p \in Procs, Check(p) PROVE WaitLockHeld'
  BY <1>16 DEF Check, Goto, pvars
<1>17. ASSUME NEW p \in Procs, SleepLock(p) PROVE WaitLockHeld'
  BY <1>17, Zenon DEF SleepLock, Goto, locals, pvars
<1>18. ASSUME NEW p \in Procs, SleepSched(p) PROVE WaitLockHeld'
  BY <1>18, Zenon DEF SleepSched, Goto, locals
<1>19. ASSUME NEW p \in Procs, Awake(p) PROVE WaitLockHeld'
  BY <1>19, Zenon DEF Awake, Goto, locals
<1>20. ASSUME NEW p \in Procs, NEW q \in Procs, NEW t \in KillPids, Kill(p, q, t)
      PROVE  WaitLockHeld'
  BY <1>20, Zenon DEF Kill, locals
<1>21. ASSUME NEW p \in Procs, Fault(p) PROVE WaitLockHeld'
  BY <1>21, Zenon DEF Fault, locals
<1>22. CASE UNCHANGED vars
  BY <1>22, Zenon DEF vars, pvars, locals
<1> HIDE <1>0, Slots DEF Locking, Exiting, Waiting, Forking, Labels, WaitLockHeld
<1>23. QED
  BY <1>1, <1>2, <1>3, <1>4, <1>5, <1>6, <1>7, <1>8, <1>9, <1>10, <1>11, <1>12, <1>13, <1>14,
     <1>15, <1>16, <1>17, <1>18, <1>19, <1>20, <1>21, <1>22, Zenon DEF Next, Kernel, User

LEMMA NewbornStep ==
  ASSUME IInv, Types', [Next]_vars
  PROVE  \A r \in Procs : Newborn(r)'
<1>0. /\ state \in [Procs -> States] /\ pc \in [Procs -> Labels] /\ lock \in [Procs -> BOOLEAN]
      /\ parent \in [Procs -> Procs \cup {0}] /\ idx \in [Procs -> Procs]
      /\ np \in [Procs -> Procs \cup {0}] /\ wait_lock \in Procs \cup {0}
      /\ \A r \in Procs : Newborn(r) /\ ThreadOf(r)
  BY Zenon DEF IInv, Types, Control
<1> USE <1>0, Slots DEF Locking, Exiting, Waiting, Forking, Labels, Newborn, ThreadOf
<1>1. ASSUME NEW p \in Procs, NEW q \in Procs, NEW ok \in BOOLEAN, ForkAlloc(p, q, ok)
      PROVE  \A r \in Procs : Newborn(r)'
  <2>0. Forked(p, q)
    BY <1>1, ForkAllocDoes
  <2>1. CASE /\ state' = [state EXCEPT ![q] = "USED"] /\ np' = [np EXCEPT ![p] = q]
             /\ pc' = [pc EXCEPT ![p] = "fork_parent"]
    BY <2>0, <2>1 DEF Forked
  <2>2. CASE UNCHANGED <<state, np, pc>>
    BY <2>0, <2>2 DEF Forked
  <2>3. QED
    BY <2>0, <2>1, <2>2, Zenon DEF Forked
<1>2. ASSUME NEW p \in Procs, ForkParent(p) PROVE \A r \in Procs : Newborn(r)'
  BY <1>2 DEF ForkParent, Goto, locals
<1>3. ASSUME NEW p \in Procs, ForkReady(p) PROVE \A r \in Procs : Newborn(r)'
  BY <1>3 DEF ForkReady
<1>4. ASSUME NEW p \in Procs, Exit(p) PROVE \A r \in Procs : Newborn(r)'
  BY <1>4 DEF Exit, Goto, locals, pvars
<1>5. ASSUME NEW p \in Procs, ExitLock(p) PROVE \A r \in Procs : Newborn(r)'
  BY <1>5 DEF ExitLock, Goto, locals, pvars
<1>6. ASSUME NEW p \in Procs, Reparent(p) PROVE \A r \in Procs : Newborn(r)'
  BY <1>6 DEF Reparent, Goto
<1>7. ASSUME NEW p \in Procs, WakeInit(p) PROVE \A r \in Procs : Newborn(r)'
  BY <1>7 DEF WakeInit, WakeupStep, Goto
<1>8. ASSUME NEW p \in Procs, WakeParent(p) PROVE \A r \in Procs : Newborn(r)'
  BY <1>8 DEF WakeParent, WakeupStep, Goto
<1>9. ASSUME NEW p \in Procs, Zombie(p) PROVE \A r \in Procs : Newborn(r)'
  BY <1>9 DEF Zombie, Goto, locals
<1>10. ASSUME NEW p \in Procs, ExitUnlock(p) PROVE \A r \in Procs : Newborn(r)'
  BY <1>10 DEF ExitUnlock, Goto, locals, pvars
<1>11. ASSUME NEW p \in Procs, ExitSched(p) PROVE \A r \in Procs : Newborn(r)'
  BY <1>11 DEF ExitSched, Goto, locals, pvars
<1>12. ASSUME NEW p \in Procs, Wait(p) PROVE \A r \in Procs : Newborn(r)'
  BY <1>12 DEF Wait, Goto, locals, pvars
<1>13. ASSUME NEW p \in Procs, WaitLock(p) PROVE \A r \in Procs : Newborn(r)'
  BY <1>13 DEF WaitLock, Goto, locals, pvars
<1>14. ASSUME NEW p \in Procs, NEW fault \in BOOLEAN, Collect(p, fault)
      PROVE  \A r \in Procs : Newborn(r)'
  <2>0. Collected(p)
    BY <1>14, CollectDoes
  <2>1. CASE UNCHANGED <<state, parent>>
    <3>1. \A r \in Procs : pc'[r] \in Forking => pc'[r] = pc[r]
      BY <2>0 DEF Collected
    <3>2. QED
      BY <2>0, <2>1, <3>1 DEF Collected
  <2>2. CASE /\ state' = [state EXCEPT ![idx[p]] = "UNUSED"]
             /\ parent' = [parent EXCEPT ![idx[p]] = 0]
    BY <2>0, <2>2 DEF Collected
  <2>3. QED
    BY <2>0, <2>1, <2>2, Zenon DEF Collected
<1>15. ASSUME NEW p \in Procs, ScanNext(p) PROVE \A r \in Procs : Newborn(r)'
  BY <1>15 DEF ScanNext, Goto, pvars
<1>16. ASSUME NEW p \in Procs, Check(p) PROVE \A r \in Procs : Newborn(r)'
  BY <1>16 DEF Check, Goto, pvars
<1>17. ASSUME NEW p \in Procs, SleepLock(p) PROVE \A r \in Procs : Newborn(r)'
  BY <1>17 DEF SleepLock, Goto, locals, pvars
<1>18. ASSUME NEW p \in Procs, SleepSched(p) PROVE \A r \in Procs : Newborn(r)'
  BY <1>18 DEF SleepSched, Goto, locals
<1>19. ASSUME NEW p \in Procs, Awake(p) PROVE \A r \in Procs : Newborn(r)'
  BY <1>19 DEF Awake, Goto, locals
<1>20. ASSUME NEW p \in Procs, NEW q \in Procs, NEW t \in KillPids, Kill(p, q, t)
      PROVE  \A r \in Procs : Newborn(r)'
  BY <1>20 DEF Kill, locals
<1>21. ASSUME NEW p \in Procs, Fault(p) PROVE \A r \in Procs : Newborn(r)'
  BY <1>21 DEF Fault, locals
<1>22. CASE UNCHANGED vars
  BY <1>22 DEF vars, pvars, locals
<1> HIDE <1>0, Slots DEF Locking, Exiting, Waiting, Forking, Labels, Newborn, ThreadOf
<1>23. QED
  BY <1>1, <1>2, <1>3, <1>4, <1>5, <1>6, <1>7, <1>8, <1>9, <1>10, <1>11, <1>12, <1>13, <1>14,
     <1>15, <1>16, <1>17, <1>18, <1>19, <1>20, <1>21, <1>22, Zenon DEF Next, Kernel, User

LEMMA InitStep ==
  ASSUME IInv, Types', [Next]_vars
  PROVE  InitLives'
<1>0. /\ state \in [Procs -> States] /\ pc \in [Procs -> Labels] /\ lock \in [Procs -> BOOLEAN]
      /\ parent \in [Procs -> Procs \cup {0}] /\ idx \in [Procs -> Procs]
      /\ np \in [Procs -> Procs \cup {0}] /\ wait_lock \in Procs \cup {0}
      /\ \A r \in Procs : Newborn(r) /\ ThreadOf(r)
      /\ InitLives
  BY Zenon DEF IInv, Types, Control
<1> USE <1>0, Slots DEF Locking, Exiting, Waiting, Forking, Labels, InitLives, Newborn, ThreadOf
<1>1. ASSUME NEW p \in Procs, NEW q \in Procs, NEW ok \in BOOLEAN, ForkAlloc(p, q, ok)
      PROVE  InitLives'
  <2>0. Forked(p, q)
    BY <1>1, ForkAllocDoes
  <2>1. CASE /\ state' = [state EXCEPT ![q] = "USED"] /\ np' = [np EXCEPT ![p] = q]
             /\ pc' = [pc EXCEPT ![p] = "fork_parent"]
    BY <2>0, <2>1 DEF Forked
  <2>2. CASE UNCHANGED <<state, np, pc>>
    BY <2>0, <2>2, Zenon DEF Forked
  <2>3. QED
    BY <2>0, <2>1, <2>2, Zenon DEF Forked
<1>2. ASSUME NEW p \in Procs, ForkParent(p) PROVE InitLives'
  BY <1>2 DEF ForkParent, Goto, locals
<1>3. ASSUME NEW p \in Procs, ForkReady(p) PROVE InitLives'
  BY <1>3 DEF ForkReady
<1>4. ASSUME NEW p \in Procs, Exit(p) PROVE InitLives'
  BY <1>4 DEF Exit, Goto, locals, pvars
<1>5. ASSUME NEW p \in Procs, ExitLock(p) PROVE InitLives'
  BY <1>5 DEF ExitLock, Goto, locals, pvars
<1>6. ASSUME NEW p \in Procs, Reparent(p) PROVE InitLives'
  BY <1>6 DEF Reparent, Goto
<1>7. ASSUME NEW p \in Procs, WakeInit(p) PROVE InitLives'
  BY <1>7 DEF WakeInit, WakeupStep, Goto
<1>8. ASSUME NEW p \in Procs, WakeParent(p) PROVE InitLives'
  BY <1>8 DEF WakeParent, WakeupStep, Goto
<1>9. ASSUME NEW p \in Procs, Zombie(p) PROVE InitLives'
  BY <1>9 DEF Zombie, Goto, locals
<1>10. ASSUME NEW p \in Procs, ExitUnlock(p) PROVE InitLives'
  BY <1>10 DEF ExitUnlock, Goto, locals, pvars
<1>11. ASSUME NEW p \in Procs, ExitSched(p) PROVE InitLives'
  BY <1>11 DEF ExitSched, Goto, locals, pvars
<1>12. ASSUME NEW p \in Procs, Wait(p) PROVE InitLives'
  BY <1>12 DEF Wait, Goto, locals, pvars
<1>13. ASSUME NEW p \in Procs, WaitLock(p) PROVE InitLives'
  BY <1>13 DEF WaitLock, Goto, locals, pvars
<1>14. ASSUME NEW p \in Procs, NEW fault \in BOOLEAN, Collect(p, fault) PROVE InitLives'
  <2>0. Collected(p)
    BY <1>14, CollectDoes
  <2>1. CASE UNCHANGED <<state, parent>>
    BY <2>0, <2>1 DEF Collected
  <2>2. CASE /\ state' = [state EXCEPT ![idx[p]] = "UNUSED"]
             /\ parent' = [parent EXCEPT ![idx[p]] = 0]
    BY <2>0, <2>2 DEF Collected
  <2>3. QED
    BY <2>0, <2>1, <2>2, Zenon DEF Collected
<1>15. ASSUME NEW p \in Procs, ScanNext(p) PROVE InitLives'
  BY <1>15 DEF ScanNext, Goto, pvars
<1>16. ASSUME NEW p \in Procs, Check(p) PROVE InitLives'
  BY <1>16 DEF Check, Goto, pvars
<1>17. ASSUME NEW p \in Procs, SleepLock(p) PROVE InitLives'
  BY <1>17 DEF SleepLock, Goto, locals, pvars
<1>18. ASSUME NEW p \in Procs, SleepSched(p) PROVE InitLives'
  BY <1>18 DEF SleepSched, Goto, locals
<1>19. ASSUME NEW p \in Procs, Awake(p) PROVE InitLives'
  BY <1>19 DEF Awake, Goto, locals
<1>20. ASSUME NEW p \in Procs, NEW q \in Procs, NEW t \in KillPids, Kill(p, q, t) PROVE InitLives'
  BY <1>20, Zenon DEF Kill, locals
<1>21. ASSUME NEW p \in Procs, Fault(p) PROVE InitLives'
  BY <1>21, Zenon DEF Fault, locals
<1>22. CASE UNCHANGED vars
  BY <1>22, Zenon DEF vars, pvars, locals
<1> HIDE <1>0, Slots DEF Locking, Exiting, Waiting, Forking, Labels, InitLives, Newborn, ThreadOf
<1>23. QED
  BY <1>1, <1>2, <1>3, <1>4, <1>5, <1>6, <1>7, <1>8, <1>9, <1>10, <1>11, <1>12, <1>13, <1>14,
     <1>15, <1>16, <1>17, <1>18, <1>19, <1>20, <1>21, <1>22, Zenon DEF Next, Kernel, User

LEMMA LoopStep ==
  ASSUME IInv, Types', [Next]_vars
  PROVE  \A r \in Procs : LoopStart(r)'
<1>0. /\ state \in [Procs -> States] /\ pc \in [Procs -> Labels] /\ lock \in [Procs -> BOOLEAN]
      /\ parent \in [Procs -> Procs \cup {0}] /\ idx \in [Procs -> Procs]
      /\ np \in [Procs -> Procs \cup {0}] /\ wait_lock \in Procs \cup {0}
      /\ \A r \in Procs : LoopStart(r) /\ Newborn(r) /\ ThreadOf(r)
  BY Zenon DEF IInv, Types, Control
<1> USE <1>0, Slots DEF Locking, Exiting, Waiting, Forking, Labels, LoopStart, Newborn, ThreadOf
<1>1. ASSUME NEW p \in Procs, NEW q \in Procs, NEW ok \in BOOLEAN, ForkAlloc(p, q, ok)
      PROVE  \A r \in Procs : LoopStart(r)'
  <2>0. Forked(p, q)
    BY <1>1, ForkAllocDoes
  <2>1. CASE /\ state' = [state EXCEPT ![q] = "USED"] /\ np' = [np EXCEPT ![p] = q]
             /\ pc' = [pc EXCEPT ![p] = "fork_parent"]
    BY <2>0, <2>1 DEF Forked
  <2>2. CASE UNCHANGED <<state, np, pc>>
    BY <2>0, <2>2, Zenon DEF Forked
  <2>3. QED
    BY <2>0, <2>1, <2>2, Zenon DEF Forked
<1>2. ASSUME NEW p \in Procs, ForkParent(p) PROVE \A r \in Procs : LoopStart(r)'
  BY <1>2 DEF ForkParent, Goto, locals
<1>3. ASSUME NEW p \in Procs, ForkReady(p) PROVE \A r \in Procs : LoopStart(r)'
  BY <1>3 DEF ForkReady
<1>4. ASSUME NEW p \in Procs, Exit(p) PROVE \A r \in Procs : LoopStart(r)'
  BY <1>4 DEF Exit, Goto, locals, pvars
<1>5. ASSUME NEW p \in Procs, ExitLock(p) PROVE \A r \in Procs : LoopStart(r)'
  BY <1>5 DEF ExitLock, Goto, locals, pvars
<1>6. ASSUME NEW p \in Procs, Reparent(p) PROVE \A r \in Procs : LoopStart(r)'
  BY <1>6, FollowingIs, LastSlot DEF Reparent, Goto, pvars
<1>7. ASSUME NEW p \in Procs, WakeInit(p) PROVE \A r \in Procs : LoopStart(r)'
  BY <1>7, FollowingIs, LastSlot DEF WakeInit, WakeupStep, Goto, pvars
<1>8. ASSUME NEW p \in Procs, WakeParent(p) PROVE \A r \in Procs : LoopStart(r)'
  BY <1>8 DEF WakeParent, WakeupStep, Goto
<1>9. ASSUME NEW p \in Procs, Zombie(p) PROVE \A r \in Procs : LoopStart(r)'
  BY <1>9 DEF Zombie, Goto, locals
<1>10. ASSUME NEW p \in Procs, ExitUnlock(p) PROVE \A r \in Procs : LoopStart(r)'
  BY <1>10 DEF ExitUnlock, Goto, locals, pvars
<1>11. ASSUME NEW p \in Procs, ExitSched(p) PROVE \A r \in Procs : LoopStart(r)'
  BY <1>11 DEF ExitSched, Goto, locals, pvars
<1>12. ASSUME NEW p \in Procs, Wait(p) PROVE \A r \in Procs : LoopStart(r)'
  BY <1>12 DEF Wait, Goto, locals, pvars
<1>13. ASSUME NEW p \in Procs, WaitLock(p) PROVE \A r \in Procs : LoopStart(r)'
  BY <1>13 DEF WaitLock, Goto, locals, pvars
<1>14. ASSUME NEW p \in Procs, NEW fault \in BOOLEAN, Collect(p, fault)
      PROVE  \A r \in Procs : LoopStart(r)'
  <2>0. Collected(p)
    BY <1>14, CollectDoes
  <2>1. CASE UNCHANGED <<state, parent>>
    BY <2>0, <2>1 DEF Collected
  <2>2. CASE /\ state' = [state EXCEPT ![idx[p]] = "UNUSED"]
             /\ parent' = [parent EXCEPT ![idx[p]] = 0]
    BY <2>0, <2>2 DEF Collected
  <2>3. QED
    BY <2>0, <2>1, <2>2, Zenon DEF Collected
<1>15. ASSUME NEW p \in Procs, ScanNext(p) PROVE \A r \in Procs : LoopStart(r)'
  BY <1>15, FollowingIs, LastSlot DEF ScanNext, Goto, pvars
<1>16. ASSUME NEW p \in Procs, Check(p) PROVE \A r \in Procs : LoopStart(r)'
  BY <1>16 DEF Check, Goto, pvars
<1>17. ASSUME NEW p \in Procs, SleepLock(p) PROVE \A r \in Procs : LoopStart(r)'
  BY <1>17 DEF SleepLock, Goto, locals, pvars
<1>18. ASSUME NEW p \in Procs, SleepSched(p) PROVE \A r \in Procs : LoopStart(r)'
  BY <1>18 DEF SleepSched, Goto, locals
<1>19. ASSUME NEW p \in Procs, Awake(p) PROVE \A r \in Procs : LoopStart(r)'
  BY <1>19 DEF Awake, Goto, locals
<1>20. ASSUME NEW p \in Procs, NEW q \in Procs, NEW t \in KillPids, Kill(p, q, t)
      PROVE  \A r \in Procs : LoopStart(r)'
  BY <1>20, Zenon DEF Kill, locals
<1>21. ASSUME NEW p \in Procs, Fault(p) PROVE \A r \in Procs : LoopStart(r)'
  BY <1>21, Zenon DEF Fault, locals
<1>22. CASE UNCHANGED vars
  BY <1>22, Zenon DEF vars, pvars, locals
<1> HIDE <1>0, Slots DEF Locking, Exiting, Waiting, Forking, Labels, LoopStart, Newborn, ThreadOf
<1>23. QED
  BY <1>1, <1>2, <1>3, <1>4, <1>5, <1>6, <1>7, <1>8, <1>9, <1>10, <1>11, <1>12, <1>13, <1>14,
     <1>15, <1>16, <1>17, <1>18, <1>19, <1>20, <1>21, <1>22, Zenon DEF Next, Kernel, User

\* wait_lock has one holder, and the others are not in exit().
LEMMA PassedByOne ==
  ASSUME IInv, Types', NEW p \in Procs, pc[p] \in Exiting \cup Waiting \/ pc'[p] \in Exiting,
         wait_lock \in {0, p},
         \A r \in Procs \ {p} : pc'[r] = pc[r], Passed(p)'
  PROVE  \A r \in Procs : Passed(r)'
<1>1. ASSUME NEW r \in Procs, r # p
      PROVE  pc'[r] \notin {"reparent", "wake_init", "wake_parent", "zombie"}
  BY <1>1, Slots, Zenon DEF IInv, Control, WaitLockHeld, Exiting
<1>2. QED
  BY <1>1, Zenon DEF Passed

LEMMA ExitLockPasses ==
  ASSUME IInv, Types', NEW p \in Procs, ExitLock(p)
  PROVE  \A r \in Procs : Passed(r)'
<1>1. /\ pc[p] = "exit" /\ wait_lock = 0 /\ pc' = [pc EXCEPT ![p] = "reparent"] /\ idx' = idx
  BY Zenon DEF ExitLock, Goto, locals
<1>2. idx[p] = 1 /\ pc \in [Procs -> Labels]
  BY <1>1, Zenon DEF IInv, Control, LoopStart, Types
<1>3. Passed(p)'
  BY <1>1, <1>2 DEF Passed, Procs
<1>4. \A r \in Procs \ {p} : pc'[r] = pc[r]
  BY <1>1, <1>2, Zenon
<1>5. pc'[p] \in Exiting
  BY <1>1, <1>2, Zenon DEF Exiting
<1>6. QED
  BY <1>1, <1>3, <1>4, <1>5, PassedByOne, Zenon

LEMMA ReparentPasses ==
  ASSUME IInv, Types', NEW p \in Procs, Reparent(p)
  PROVE  \A r \in Procs : Passed(r)'
<1>0. /\ pc[p] = "reparent" /\ pc \in [Procs -> Labels] /\ parent \in [Procs -> Procs \cup {0}]
      /\ idx \in [Procs -> Procs] /\ p # initproc /\ idx[p] \in Procs
      /\ \A q \in Procs : q < idx[p] => parent[q] # p
  BY Zenon DEF Reparent, IInv, Control, Types, InitLives, Passed, Exiting
<1>1. ASSUME parent[idx[p]] = p PROVE Passed(p)'
  <2>1. /\ parent' = [parent EXCEPT ![idx[p]] = initproc] /\ idx' = idx
        /\ pc' = [pc EXCEPT ![p] = "wake_init"]
    BY <1>1, Zenon DEF Reparent, Goto
  <2>2. \A q \in Procs : q <= idx[p] => parent'[q] # p
    BY <1>0, <2>1, Slots DEF Procs
  <2>3. QED
    BY <1>0, <2>1, <2>2, Zenon DEF Passed
<1>2. ASSUME parent[idx[p]] # p /\ idx[p] < NPROC PROVE Passed(p)'
  <2>1. /\ parent' = parent /\ idx' = [idx EXCEPT ![p] = idx[p] + 1]
        /\ pc' = [pc EXCEPT ![p] = "reparent"]
    BY <1>0, <1>2, FollowingIs, Zenon DEF Reparent, Goto
  <2>2. \A q \in Procs : q < idx[p] + 1 => parent[q] # p
    BY <1>0, <1>2 DEF Procs
  <2>3. QED
    BY <1>0, <2>1, <2>2, Zenon DEF Passed
<1>3. ASSUME parent[idx[p]] # p /\ ~(idx[p] < NPROC) PROVE Passed(p)'
  <2>1. parent' = parent /\ pc' = [pc EXCEPT ![p] = "wake_parent"]
    BY <1>3, Zenon DEF Reparent, Goto
  <2>2. \A q \in Procs : parent[q] # p
    BY <1>0, <1>3, ProcAssumption DEF Procs
  <2>3. QED
    BY <1>0, <2>1, <2>2, Zenon DEF Passed
<1>4. Passed(p)'
  BY <1>1, <1>2, <1>3, Zenon
<1>5. \A r \in Procs \ {p} : pc'[r] = pc[r]
  BY <1>0, Zenon DEF Reparent, Goto
<1>6. wait_lock = p /\ pc[p] \in Exiting
  BY <1>0, Zenon DEF IInv, Control, WaitLockHeld, Exiting
<1>7. QED
  BY <1>4, <1>5, <1>6, PassedByOne, Zenon

LEMMA WakeInitPasses ==
  ASSUME IInv, Types', NEW p \in Procs, WakeInit(p)
  PROVE  \A r \in Procs : Passed(r)'
<1>0. /\ pc[p] = "wake_init" /\ pc \in [Procs -> Labels] /\ parent' = parent
      /\ idx \in [Procs -> Procs] /\ idx[p] \in Procs
      /\ \A q \in Procs : q <= idx[p] => parent[q] # p
  BY Zenon DEF WakeInit, WakeupStep, IInv, Types, Passed
<1>1. ASSUME widx[p] < NPROC PROVE Passed(p)'
  <2>1. pc' = pc /\ idx' = idx
    BY <1>1, Zenon DEF WakeInit, WakeupStep
  <2>2. QED
    BY <1>0, <2>1, Zenon DEF Passed
<1>2. ASSUME ~(widx[p] < NPROC) /\ idx[p] < NPROC PROVE Passed(p)'
  <2>1. /\ idx' = [idx EXCEPT ![p] = idx[p] + 1] /\ pc' = [pc EXCEPT ![p] = "reparent"]
    BY <1>0, <1>2, FollowingIs, Zenon DEF WakeInit, WakeupStep, Goto
  <2>2. \A q \in Procs : q < idx[p] + 1 => parent[q] # p
    BY <1>0, <1>2 DEF Procs
  <2>3. QED
    BY <1>0, <2>1, <2>2, Zenon DEF Passed
<1>3. ASSUME ~(widx[p] < NPROC) /\ ~(idx[p] < NPROC) PROVE Passed(p)'
  <2>1. pc' = [pc EXCEPT ![p] = "wake_parent"]
    BY <1>3, Zenon DEF WakeInit, WakeupStep, Goto
  <2>2. \A q \in Procs : parent[q] # p
    BY <1>0, <1>3, ProcAssumption DEF Procs
  <2>3. QED
    BY <1>0, <2>1, <2>2, Zenon DEF Passed
<1>4. Passed(p)'
  BY <1>1, <1>2, <1>3, Zenon
<1>5. \A r \in Procs \ {p} : pc'[r] = pc[r]
  BY <1>0, Zenon DEF WakeInit, WakeupStep, Goto
<1>6. wait_lock = p /\ pc[p] \in Exiting
  BY <1>0, Zenon DEF IInv, Control, WaitLockHeld, Exiting
<1>7. QED
  BY <1>4, <1>5, <1>6, PassedByOne, Zenon

LEMMA ZombiePasses ==
  ASSUME IInv, NEW p \in Procs, Zombie(p)
  PROVE  \A r \in Procs : Passed(r)'
<1>1. pc' = [pc EXCEPT ![p] = "exit_unlock"] /\ parent' = parent /\ idx' = idx
  BY Zenon DEF Zombie, Goto, locals
<1>2. pc \in [Procs -> Labels] /\ \A r \in Procs : Passed(r)
  BY Zenon DEF IInv, Types
<1>3. ASSUME NEW r \in Procs PROVE Passed(r)'
  <2>1. CASE r = p
    <3>1. pc'[r] = "exit_unlock"
      BY <1>1, <1>2, <2>1, Zenon
    <3>2. QED
      BY <3>1, Zenon DEF Passed
  <2>2. CASE r # p
    <3>1. pc'[r] = pc[r]
      BY <1>1, <1>2, <2>2, Zenon
    <3>2. QED
      BY <1>1, <1>2, <3>1, Zenon DEF Passed
  <2>3. QED
    BY <2>1, <2>2, Zenon
<1>4. QED
  BY <1>3, Zenon

LEMMA PassedStep ==
  ASSUME IInv, Types', [Next]_vars
  PROVE  \A r \in Procs : Passed(r)'
<1>0. /\ state \in [Procs -> States] /\ pc \in [Procs -> Labels] /\ lock \in [Procs -> BOOLEAN]
      /\ parent \in [Procs -> Procs \cup {0}] /\ idx \in [Procs -> Procs]
      /\ np \in [Procs -> Procs \cup {0}] /\ wait_lock \in Procs \cup {0}
      /\ \A r \in Procs : Passed(r) /\ LoopStart(r) /\ Newborn(r) /\ ThreadOf(r)
      /\ WaitLockHeld
      /\ InitLives
  BY Zenon DEF IInv, Types, Control
<1> USE <1>0, Slots DEF Locking, Exiting, Waiting, Forking, Labels, Passed, LoopStart, WaitLockHeld, InitLives, Newborn, ThreadOf
<1>1. ASSUME NEW p \in Procs, NEW q \in Procs, NEW ok \in BOOLEAN, ForkAlloc(p, q, ok)
      PROVE  \A r \in Procs : Passed(r)'
  <2>0. Forked(p, q)
    BY <1>1, ForkAllocDoes
  <2>1. CASE /\ state' = [state EXCEPT ![q] = "USED"] /\ np' = [np EXCEPT ![p] = q]
             /\ pc' = [pc EXCEPT ![p] = "fork_parent"]
    BY <2>0, <2>1 DEF Forked
  <2>2. CASE UNCHANGED <<state, np, pc>>
    BY <2>0, <2>2 DEF Forked
  <2>3. QED
    BY <2>0, <2>1, <2>2, Zenon DEF Forked
<1>2. ASSUME NEW p \in Procs, ForkParent(p) PROVE \A r \in Procs : Passed(r)'
  BY <1>2 DEF ForkParent, Goto, locals
<1>3. ASSUME NEW p \in Procs, ForkReady(p) PROVE \A r \in Procs : Passed(r)'
  BY <1>3 DEF ForkReady
<1>4. ASSUME NEW p \in Procs, Exit(p) PROVE \A r \in Procs : Passed(r)'
  BY <1>4 DEF Exit, Goto, locals, pvars
<1>5. ASSUME NEW p \in Procs, ExitLock(p) PROVE \A r \in Procs : Passed(r)'
  BY <1>5, ExitLockPasses, Zenon
<1>6. ASSUME NEW p \in Procs, Reparent(p) PROVE \A r \in Procs : Passed(r)'
  BY <1>6, ReparentPasses, Zenon
<1>7. ASSUME NEW p \in Procs, WakeInit(p) PROVE \A r \in Procs : Passed(r)'
  BY <1>7, WakeInitPasses, Zenon
<1>8. ASSUME NEW p \in Procs, WakeParent(p) PROVE \A r \in Procs : Passed(r)'
  BY <1>8 DEF WakeParent, WakeupStep, Goto
<1>9. ASSUME NEW p \in Procs, Zombie(p) PROVE \A r \in Procs : Passed(r)'
  BY <1>9, ZombiePasses, Zenon
<1>10. ASSUME NEW p \in Procs, ExitUnlock(p) PROVE \A r \in Procs : Passed(r)'
  BY <1>10 DEF ExitUnlock, Goto, locals, pvars
<1>11. ASSUME NEW p \in Procs, ExitSched(p) PROVE \A r \in Procs : Passed(r)'
  BY <1>11 DEF ExitSched, Goto, locals, pvars
<1>12. ASSUME NEW p \in Procs, Wait(p) PROVE \A r \in Procs : Passed(r)'
  BY <1>12 DEF Wait, Goto, locals, pvars
<1>13. ASSUME NEW p \in Procs, WaitLock(p) PROVE \A r \in Procs : Passed(r)'
  BY <1>13 DEF WaitLock, Goto, locals, pvars
<1>14. ASSUME NEW p \in Procs, NEW fault \in BOOLEAN, Collect(p, fault)
      PROVE  \A r \in Procs : Passed(r)'
  <2>0. Collected(p)
    BY <1>14, CollectDoes
  <2>1. CASE UNCHANGED <<state, parent>>
    BY <2>0, <2>1 DEF Collected
  <2>2. CASE /\ state' = [state EXCEPT ![idx[p]] = "UNUSED"]
             /\ parent' = [parent EXCEPT ![idx[p]] = 0]
    BY <2>0, <2>2 DEF Collected
  <2>3. QED
    BY <2>0, <2>1, <2>2, Zenon DEF Collected
<1>15. ASSUME NEW p \in Procs, ScanNext(p) PROVE \A r \in Procs : Passed(r)'
  BY <1>15 DEF ScanNext, Goto, pvars
<1>16. ASSUME NEW p \in Procs, Check(p) PROVE \A r \in Procs : Passed(r)'
  BY <1>16 DEF Check, Goto, pvars
<1>17. ASSUME NEW p \in Procs, SleepLock(p) PROVE \A r \in Procs : Passed(r)'
  BY <1>17 DEF SleepLock, Goto, locals, pvars
<1>18. ASSUME NEW p \in Procs, SleepSched(p) PROVE \A r \in Procs : Passed(r)'
  BY <1>18 DEF SleepSched, Goto, locals
<1>19. ASSUME NEW p \in Procs, Awake(p) PROVE \A r \in Procs : Passed(r)'
  BY <1>19 DEF Awake, Goto, locals
<1>20. ASSUME NEW p \in Procs, NEW q \in Procs, NEW t \in KillPids, Kill(p, q, t)
      PROVE  \A r \in Procs : Passed(r)'
  BY <1>20 DEF Kill, locals
<1>21. ASSUME NEW p \in Procs, Fault(p) PROVE \A r \in Procs : Passed(r)'
  BY <1>21 DEF Fault, locals
<1>22. CASE UNCHANGED vars
  BY <1>22 DEF vars, pvars, locals
<1> HIDE <1>0, Slots DEF Locking, Exiting, Waiting, Forking, Labels, Passed, LoopStart, WaitLockHeld, InitLives, Newborn, ThreadOf
<1>23. QED
  BY <1>1, <1>2, <1>3, <1>4, <1>5, <1>6, <1>7, <1>8, <1>9, <1>10, <1>11, <1>12, <1>13, <1>14,
     <1>15, <1>16, <1>17, <1>18, <1>19, <1>20, <1>21, <1>22, Zenon DEF Next, Kernel, User

LEMMA ParentStep ==
  ASSUME IInv, Types', [Next]_vars
  PROVE  \A r \in Procs : HasParent(r)'
<1>0. /\ state \in [Procs -> States] /\ pc \in [Procs -> Labels] /\ lock \in [Procs -> BOOLEAN]
      /\ parent \in [Procs -> Procs \cup {0}] /\ idx \in [Procs -> Procs]
      /\ np \in [Procs -> Procs \cup {0}] /\ wait_lock \in Procs \cup {0}
      /\ \A r \in Procs : Passed(r) /\ HasParent(r) /\ Newborn(r) /\ ThreadOf(r)
      /\ InitLives
  BY Zenon DEF IInv, Types, Control
<1> USE <1>0, Slots DEF Locking, Exiting, Waiting, Forking, Labels, Passed, HasParent, Alive, InitLives, Newborn, ThreadOf
<1>1. ASSUME NEW p \in Procs, NEW q \in Procs, NEW ok \in BOOLEAN, ForkAlloc(p, q, ok)
      PROVE  \A r \in Procs : HasParent(r)'
  <2>0. Forked(p, q)
    BY <1>1, ForkAllocDoes
  <2>1. CASE /\ state' = [state EXCEPT ![q] = "USED"] /\ np' = [np EXCEPT ![p] = q]
             /\ pc' = [pc EXCEPT ![p] = "fork_parent"]
    BY <2>0, <2>1 DEF Forked
  <2>2. CASE UNCHANGED <<state, np, pc>>
    BY <2>0, <2>2, Zenon DEF Forked
  <2>3. QED
    BY <2>0, <2>1, <2>2, Zenon DEF Forked
<1>2. ASSUME NEW p \in Procs, ForkParent(p) PROVE \A r \in Procs : HasParent(r)'
  BY <1>2 DEF ForkParent, Goto, locals
<1>3. ASSUME NEW p \in Procs, ForkReady(p) PROVE \A r \in Procs : HasParent(r)'
  BY <1>3 DEF ForkReady
<1>4. ASSUME NEW p \in Procs, Exit(p) PROVE \A r \in Procs : HasParent(r)'
  BY <1>4, Zenon DEF Exit, Goto, locals, pvars
<1>5. ASSUME NEW p \in Procs, ExitLock(p) PROVE \A r \in Procs : HasParent(r)'
  BY <1>5, Zenon DEF ExitLock, Goto, locals, pvars
<1>6. ASSUME NEW p \in Procs, Reparent(p) PROVE \A r \in Procs : HasParent(r)'
  BY <1>6 DEF Reparent, Goto
<1>7. ASSUME NEW p \in Procs, WakeInit(p) PROVE \A r \in Procs : HasParent(r)'
  BY <1>7 DEF WakeInit, WakeupStep, Goto
<1>8. ASSUME NEW p \in Procs, WakeParent(p) PROVE \A r \in Procs : HasParent(r)'
  BY <1>8 DEF WakeParent, WakeupStep, Goto
<1>9. ASSUME NEW p \in Procs, Zombie(p) PROVE \A r \in Procs : HasParent(r)'
  BY <1>9 DEF Zombie, Goto, locals
<1>10. ASSUME NEW p \in Procs, ExitUnlock(p) PROVE \A r \in Procs : HasParent(r)'
  BY <1>10, Zenon DEF ExitUnlock, Goto, locals, pvars
<1>11. ASSUME NEW p \in Procs, ExitSched(p) PROVE \A r \in Procs : HasParent(r)'
  BY <1>11, Zenon DEF ExitSched, Goto, locals, pvars
<1>12. ASSUME NEW p \in Procs, Wait(p) PROVE \A r \in Procs : HasParent(r)'
  BY <1>12, Zenon DEF Wait, Goto, locals, pvars
<1>13. ASSUME NEW p \in Procs, WaitLock(p) PROVE \A r \in Procs : HasParent(r)'
  BY <1>13, Zenon DEF WaitLock, Goto, locals, pvars
<1>14. ASSUME NEW p \in Procs, NEW fault \in BOOLEAN, Collect(p, fault)
      PROVE  \A r \in Procs : HasParent(r)'
  <2>0. Collected(p)
    BY <1>14, CollectDoes
  <2>1. CASE UNCHANGED <<state, parent>>
    BY <2>0, <2>1, Zenon DEF Collected
  <2>2. CASE /\ state' = [state EXCEPT ![idx[p]] = "UNUSED"]
             /\ parent' = [parent EXCEPT ![idx[p]] = 0]
    BY <2>0, <2>2 DEF Collected
  <2>3. QED
    BY <2>0, <2>1, <2>2, Zenon DEF Collected
<1>15. ASSUME NEW p \in Procs, ScanNext(p) PROVE \A r \in Procs : HasParent(r)'
  BY <1>15, Zenon DEF ScanNext, Goto, pvars
<1>16. ASSUME NEW p \in Procs, Check(p) PROVE \A r \in Procs : HasParent(r)'
  BY <1>16, Zenon DEF Check, Goto, pvars
<1>17. ASSUME NEW p \in Procs, SleepLock(p) PROVE \A r \in Procs : HasParent(r)'
  BY <1>17, Zenon DEF SleepLock, Goto, locals, pvars
<1>18. ASSUME NEW p \in Procs, SleepSched(p) PROVE \A r \in Procs : HasParent(r)'
  BY <1>18 DEF SleepSched, Goto, locals
<1>19. ASSUME NEW p \in Procs, Awake(p) PROVE \A r \in Procs : HasParent(r)'
  BY <1>19, Zenon DEF Awake, Goto, locals
<1>20. ASSUME NEW p \in Procs, NEW q \in Procs, NEW t \in KillPids, Kill(p, q, t)
      PROVE  \A r \in Procs : HasParent(r)'
  BY <1>20 DEF Kill, locals
<1>21. ASSUME NEW p \in Procs, Fault(p) PROVE \A r \in Procs : HasParent(r)'
  BY <1>21, Zenon DEF Fault, locals
<1>22. CASE UNCHANGED vars
  BY <1>22, Zenon DEF vars, pvars, locals
<1> HIDE <1>0, Slots DEF Locking, Exiting, Waiting, Forking, Labels, Passed, HasParent, Alive, InitLives, Newborn, ThreadOf
<1>23. QED
  BY <1>1, <1>2, <1>3, <1>4, <1>5, <1>6, <1>7, <1>8, <1>9, <1>10, <1>11, <1>12, <1>13, <1>14,
     <1>15, <1>16, <1>17, <1>18, <1>19, <1>20, <1>21, <1>22, Zenon DEF Next, Kernel, User

-----------------------------------------------------------------------------
\* A step that leaves pids, flags and free slots alone.
LEMMA SlotsKept ==
  ASSUME KilledInv, UNCHANGED <<pid, killed, asked>>,
         \A r \in Procs : state'[r] = "UNUSED" <=> state[r] = "UNUSED"
  PROVE  KilledInv'
BY Zenon DEF KilledInv

\* A step that changes the flag, the pid or the state of one slot.
LEMMA SlotChanged ==
  ASSUME KilledInv, Types, Types', NEW q \in Procs, asked \subseteq asked',
         \A r \in Procs \ {q} :
           /\ pid'[r] = pid[r] /\ killed'[r] = killed[r]
           /\ state'[r] = "UNUSED" <=> state[r] = "UNUSED",
         state'[q] = "UNUSED" => pid'[q] = 0 /\ ~killed'[q],
         state'[q] # "UNUSED" => pid'[q] # 0,
         killed'[q] => pid'[q] \in asked'
  PROVE  KilledInv'
BY DEF KilledInv

\* kill(0) would reach the free slots, whose pid is 0; allocproc() would hand
\* out such a slot with its flag set.
LEMMA KilledStep ==
  ASSUME 0 \notin KillPids, IInv, Types', KilledInv, [Next]_vars
  PROVE  KilledInv'
<1> USE DEF IInv, Types
<1>1. ASSUME NEW p \in Procs, NEW q \in Procs, NEW ok \in BOOLEAN, ForkAlloc(p, q, ok) PROVE KilledInv'
  <2>0. state[q] = "UNUSED" /\ asked' = asked /\ pid[q] = 0 /\ ~killed[q]
    BY <1>1, Zenon DEF ForkAlloc, KilledInv
  <2>1. CASE ok
    <3>1. /\ pid' = [pid EXCEPT ![q] = nextpid] /\ state' = [state EXCEPT ![q] = "USED"]
          /\ killed' = killed
      BY <1>1, <2>1, Zenon DEF ForkAlloc
    <3>2. QED
      BY <2>0, <3>1, SlotChanged, Zenon
  <2>2. CASE ~ok
    <3>1. /\ killed' = [killed EXCEPT ![q] = FALSE] /\ UNCHANGED <<pid, state>>
      BY <1>1, <2>2, Zenon DEF ForkAlloc
    <3>2. QED
      BY <2>0, <3>1, SlotChanged, Zenon
  <2>3. QED
    BY <2>1, <2>2, Zenon
<1>2. ASSUME NEW p \in Procs, ForkParent(p) PROVE KilledInv'
  <2>1. UNCHANGED <<state, pid, killed, asked>>
    BY <1>2, Zenon DEF ForkParent, pvars
  <2>2. QED
    BY <2>1, SlotsKept, Zenon
<1>3. ASSUME NEW p \in Procs, ForkReady(p) PROVE KilledInv'
  <2>1. /\ state' = [state EXCEPT ![np[p]] = "RUNNABLE"] /\ UNCHANGED <<pid, killed, asked>>
        /\ pc[p] = "fork_ready"
    BY <1>3, Zenon DEF ForkReady
  <2>2. np[p] \in Procs /\ state[np[p]] = "USED"
    BY <2>1, Zenon DEF Control, Newborn, Forking
  <2>3. \A r \in Procs : state'[r] = "UNUSED" <=> state[r] = "UNUSED"
    BY <2>1, <2>2, Zenon
  <2>4. QED
    BY <2>1, <2>3, SlotsKept, Zenon
<1>4. ASSUME NEW p \in Procs, Exit(p) PROVE KilledInv'
  <2>1. UNCHANGED <<state, pid, killed, asked>>
    BY <1>4, Zenon DEF Exit, pvars
  <2>2. QED
    BY <2>1, SlotsKept, Zenon
<1>5. ASSUME NEW p \in Procs, ExitLock(p) PROVE KilledInv'
  <2>1. UNCHANGED <<state, pid, killed, asked>>
    BY <1>5, Zenon DEF ExitLock, pvars
  <2>2. QED
    BY <2>1, SlotsKept, Zenon
<1>6. ASSUME NEW p \in Procs, Reparent(p) PROVE KilledInv'
  <2>1. UNCHANGED <<state, pid, killed, asked>>
    BY <1>6, Zenon DEF Reparent, pvars
  <2>2. QED
    BY <2>1, SlotsKept, Zenon
<1>7. ASSUME NEW p \in Procs, WakeInit(p) PROVE KilledInv'
  <2>1. UNCHANGED <<pid, killed, asked>> /\ widx[p] \in Procs
    BY <1>7, Zenon DEF WakeInit, WakeupStep
  <2>2. \A r \in Procs : state'[r] = "UNUSED" <=> state[r] = "UNUSED"
    BY <1>7, <2>1 DEF WakeInit, WakeupStep
  <2>3. QED
    BY <2>1, <2>2, SlotsKept, Zenon
<1>8. ASSUME NEW p \in Procs, WakeParent(p) PROVE KilledInv'
  <2>1. UNCHANGED <<pid, killed, asked>> /\ widx[p] \in Procs
    BY <1>8, Zenon DEF WakeParent, WakeupStep
  <2>2. \A r \in Procs : state'[r] = "UNUSED" <=> state[r] = "UNUSED"
    BY <1>8, <2>1 DEF WakeParent, WakeupStep
  <2>3. QED
    BY <2>1, <2>2, SlotsKept, Zenon
<1>9. ASSUME NEW p \in Procs, Zombie(p) PROVE KilledInv'
  <2>1. UNCHANGED <<pid, killed, asked>> /\ state[p] # "UNUSED"
    BY <1>9, Zenon DEF Zombie, Control, ThreadOf, locals
  <2>2. \A r \in Procs : state'[r] = "UNUSED" <=> state[r] = "UNUSED"
    BY <1>9, <2>1, Zenon DEF Zombie
  <2>3. QED
    BY <2>1, <2>2, SlotsKept, Zenon
<1>10. ASSUME NEW p \in Procs, ExitUnlock(p) PROVE KilledInv'
  <2>1. UNCHANGED <<state, pid, killed, asked>>
    BY <1>10, Zenon DEF ExitUnlock, pvars
  <2>2. QED
    BY <2>1, SlotsKept, Zenon
<1>11. ASSUME NEW p \in Procs, ExitSched(p) PROVE KilledInv'
  <2>1. UNCHANGED <<state, pid, killed, asked>>
    BY <1>11, Zenon DEF ExitSched, pvars
  <2>2. QED
    BY <2>1, SlotsKept, Zenon
<1>12. ASSUME NEW p \in Procs, Wait(p) PROVE KilledInv'
  <2>1. UNCHANGED <<state, pid, killed, asked>>
    BY <1>12, Zenon DEF Wait, pvars
  <2>2. QED
    BY <2>1, SlotsKept, Zenon
<1>13. ASSUME NEW p \in Procs, WaitLock(p) PROVE KilledInv'
  <2>1. UNCHANGED <<state, pid, killed, asked>>
    BY <1>13, Zenon DEF WaitLock, pvars
  <2>2. QED
    BY <2>1, SlotsKept, Zenon
<1>14. ASSUME NEW p \in Procs, NEW fault \in BOOLEAN, Collect(p, fault) PROVE KilledInv'
  <2>1. CASE fault
    <3>1. UNCHANGED <<pid, killed, asked, state>>
      BY <1>14, <2>1, Zenon DEF Collect, pvars
    <3>2. QED
      BY <3>1, SlotsKept, Zenon
  <2>2. CASE ~fault
    <3>1. /\ state' = [state EXCEPT ![idx[p]] = "UNUSED"] /\ pid' = [pid EXCEPT ![idx[p]] = 0]
          /\ killed' = [killed EXCEPT ![idx[p]] = FALSE] /\ asked' = asked
      BY <1>14, <2>2, Zenon DEF Collect, freeproc
    <3>2. QED
      BY <3>1, SlotChanged, Zenon
  <2>3. QED
    BY <2>1, <2>2, Zenon
<1>15. ASSUME NEW p \in Procs, ScanNext(p) PROVE KilledInv'
  <2>1. UNCHANGED <<state, pid, killed, asked>>
    BY <1>15, Zenon DEF ScanNext, pvars
  <2>2. QED
    BY <2>1, SlotsKept, Zenon
<1>16. ASSUME NEW p \in Procs, Check(p) PROVE KilledInv'
  <2>1. UNCHANGED <<state, pid, killed, asked>>
    BY <1>16, Zenon DEF Check, pvars
  <2>2. QED
    BY <2>1, SlotsKept, Zenon
<1>17. ASSUME NEW p \in Procs, SleepLock(p) PROVE KilledInv'
  <2>1. UNCHANGED <<state, pid, killed, asked>>
    BY <1>17, Zenon DEF SleepLock, pvars
  <2>2. QED
    BY <2>1, SlotsKept, Zenon
<1>18. ASSUME NEW p \in Procs, SleepSched(p) PROVE KilledInv'
  <2>1. UNCHANGED <<pid, killed, asked>> /\ state[p] # "UNUSED"
    BY <1>18, Zenon DEF SleepSched, Control, ThreadOf, locals
  <2>2. \A r \in Procs : state'[r] = "UNUSED" <=> state[r] = "UNUSED"
    BY <1>18, <2>1, Zenon DEF SleepSched
  <2>3. QED
    BY <2>1, <2>2, SlotsKept, Zenon
<1>19. ASSUME NEW p \in Procs, Awake(p) PROVE KilledInv'
  <2>1. UNCHANGED <<state, pid, killed, asked>>
    BY <1>19, Zenon DEF Awake, pvars
  <2>2. QED
    BY <2>1, SlotsKept, Zenon
<1>20. ASSUME NEW p \in Procs, NEW q \in Procs, NEW t \in KillPids, Kill(p, q, t) PROVE KilledInv'
  <2>1. /\ killed' = [killed EXCEPT ![q] = TRUE] /\ pid' = pid /\ asked' = asked \cup {t}
        /\ state' = [state EXCEPT ![q] = IF @ = "SLEEPING" THEN "RUNNABLE" ELSE @]
        /\ pid[q] = t
    BY <1>20, Zenon DEF Kill
  <2>2. pid[q] # 0
    BY <1>20, <2>1, Zenon
  <2>3. state[q] # "UNUSED"
    BY <2>2, Zenon DEF KilledInv
  <2>4. state'[q] # "UNUSED"
    BY <2>1, <2>3, Zenon
  <2>5. QED
    BY <2>1, <2>2, <2>4, SlotChanged, Zenon
<1>21. ASSUME NEW p \in Procs, Fault(p) PROVE KilledInv'
  <2>1. /\ killed' = [killed EXCEPT ![p] = TRUE] /\ pid' = pid /\ asked' = asked \cup {pid[p]}
        /\ state' = state /\ pc[p] = "user"
    BY <1>21, Zenon DEF Fault
  <2>2. state[p] # "UNUSED"
    BY <2>1, Zenon DEF Control, ThreadOf
  <2>3. pid[p] # 0
    BY <2>2, Zenon DEF KilledInv
  <2>4. QED
    BY <2>1, <2>2, <2>3, SlotChanged, Zenon
<1>22. CASE UNCHANGED vars
  BY <1>22, SlotsKept, Zenon DEF vars, pvars
<1> HIDE DEF IInv, Types
<1>23. QED
  BY <1>1, <1>2, <1>3, <1>4, <1>5, <1>6, <1>7, <1>8, <1>9, <1>10, <1>11, <1>12, <1>13, <1>14,
     <1>15, <1>16, <1>17, <1>18, <1>19, <1>20, <1>21, <1>22, Zenon DEF Next, Kernel, User

-----------------------------------------------------------------------------
\* The invariant holds in every state the process table can be in.
THEOREM ProcInvariance == Spec => []IInv
<1>1. Init => IInv
  BY InitInv, Zenon
<1>2. IInv /\ [Next]_vars => IInv'
  <2> SUFFICES ASSUME IInv, [Next]_vars PROVE IInv'
    OBVIOUS
  <2>1. Types'
    BY TypesStep, Zenon
  <2>2. Control'
    BY <2>1, ThreadStep, LockStep, WaitLockStep, NewbornStep, InitStep, LoopStep, Zenon
       DEF Control
  <2>3. \A p \in Procs : Passed(p)' /\ HasParent(p)'
    BY <2>1, PassedStep, ParentStep, Zenon
  <2>4. QED
    BY <2>1, <2>2, <2>3, Zenon DEF IInv
<1>3. QED
  BY <1>1, <1>2, PTL DEF Spec

\* For every size of the table: when kwait() has freed a slot, the thread that
\* ran on its kernel stack has made its last switch to the scheduler.
THEOREM SlotsOffStack == Spec => []OffStack
<1>1. IInv => OffStack
  BY Zenon DEF IInv, Types, Control, ThreadOf, OffStack, States, Labels
<1>2. QED
  BY <1>1, ProcInvariance, PTL

\* For every size of the table: kfork(), kexit() with reparent(), and kwait()
\* leave no child whose parent is a zombie or a free slot.
THEOREM ParentsAlive == Spec => []ParentAlive
<1>1. IInv => ParentAlive
  BY Zenon DEF IInv, HasParent, ParentAlive
<1>2. QED
  BY <1>1, ProcInvariance, PTL

\* For every size of the table, when no process calls kill(0): the flag of a
\* process that is marked as killed was set for its own pid.
THEOREM KilledByRequest ==
  ASSUME 0 \notin KillPids
  PROVE  Spec => []KilledOnRequest
<1>1. Init => IInv /\ KilledInv
  BY InitInv, Zenon
<1>2. IInv /\ IInv' /\ KilledInv /\ [Next]_vars => KilledInv'
  BY KilledStep, Zenon DEF IInv
<1>3. KilledInv => KilledOnRequest
  BY Zenon DEF KilledInv, KilledOnRequest
<1>4. QED
  BY <1>1, <1>2, <1>3, ProcInvariance, PTL DEF Spec
=============================================================================
