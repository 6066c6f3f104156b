------------------------------- MODULE Ticks --------------------------------
(***************************************************************************)
(* The clock: clockintr() of hart 0 counts ticks, and sys_pause() and       *)
(* sys_sleep() wait for some number of them.  ticks is unsigned and wraps;  *)
(* elapsed counts, for each process, the ticks since its call, and nothing  *)
(* reads it.                                                               *)
(***************************************************************************)
EXTENDS Integers

CONSTANTS Sleepers,
          TickWrap,    \* ticks is modulo this: 2^32 in the code
          MaxSleep     \* bound on the n of a call: below 2^31 in the code

ASSUME TicksAssumption == TickWrap \in Nat \ {0} /\ MaxSleep \in Nat

VARIABLES ticks, sleeper, elapsed

tvars == <<ticks, sleeper, elapsed>>

Awake == [pc |-> "user", n |-> 0, ticks0 |-> 0, killed |-> FALSE, ret |-> 0]

TInit ==
  /\ ticks \in {0, TickWrap - 1}
  /\ sleeper = [p \in Sleepers |-> Awake]
  /\ elapsed = [p \in Sleepers |-> 0]

\* Mutant of Waiting: the end of the wait is computed in advance.
WaitingUntil(n, ticks0) == ticks < (ticks0 + n) % TickWrap

\* ticks - ticks0 < n
Waiting(n, ticks0) == (ticks - ticks0) % TickWrap < n

\* The loop under tickslock: sleep(&ticks), or return.
TickLoop(p, n, ticks0, killed) ==
  sleeper' = [sleeper EXCEPT ![p] =
    IF ~Waiting(n, ticks0) THEN [Awake EXCEPT !.pc = "slept", !.n = n]
    ELSE IF killed THEN [Awake EXCEPT !.ret = -1]
    ELSE [pc |-> "asleep", n |-> n, ticks0 |-> ticks0, killed |-> FALSE, ret |-> 0]]

\* sys_pause() takes a negative n for 0, sys_sleep() refuses it.
sys_pause(p) ==
  /\ sleeper[p].pc = "user"
  /\ \E n \in -1 .. MaxSleep : TickLoop(p, IF n < 0 THEN 0 ELSE n, ticks, FALSE)
  /\ elapsed' = [elapsed EXCEPT ![p] = 0]
  /\ UNCHANGED ticks

sys_sleep(p) ==
  /\ sleeper[p].pc = "user"
  /\ \E n \in -1 .. MaxSleep :
       IF n < 0 THEN sleeper' = [sleeper EXCEPT ![p] = [Awake EXCEPT !.ret = -1]]
       ELSE TickLoop(p, n, ticks, FALSE)
  /\ elapsed' = [elapsed EXCEPT ![p] = 0]
  /\ UNCHANGED ticks

tickWoken(p) ==
  /\ sleeper[p].pc = "woken"
  /\ TickLoop(p, sleeper[p].n, sleeper[p].ticks0, sleeper[p].killed)
  /\ UNCHANGED <<ticks, elapsed>>

\* The process goes on in user space.
tickReturn(p) ==
  /\ sleeper[p].pc = "slept"
  /\ sleeper' = [sleeper EXCEPT ![p] = Awake]
  /\ UNCHANGED <<ticks, elapsed>>

\* kkill() wakes a sleeping process, but not one that has looked at killed()
\* and is about to sleep.
tickKill(p) ==
  /\ sleeper[p].pc \in {"asleep", "woken"}
  /\ \E pc \in {sleeper[p].pc, "woken"} :
       sleeper' = [sleeper EXCEPT ![p] = [@ EXCEPT !.pc = pc, !.killed = TRUE]]
  /\ UNCHANGED <<ticks, elapsed>>

\* No process that has been woken is kept from running for as long as ticks
\* takes to wrap, which is over ten years.
clockintr ==
  /\ \A p \in Sleepers : elapsed[p] < TickWrap - 1 \/ sleeper[p].pc \in {"user", "slept"}
  /\ ticks' = (ticks + 1) % TickWrap
  /\ sleeper' = [p \in Sleepers |-> IF sleeper[p].pc = "asleep" THEN [sleeper[p] EXCEPT !.pc = "woken"] ELSE sleeper[p]]
  /\ elapsed' = [p \in Sleepers |-> IF sleeper[p].pc \in {"asleep", "woken"} THEN elapsed[p] + 1 ELSE elapsed[p]]

TNext == clockintr \/ \E p \in Sleepers : sys_pause(p) \/ sys_sleep(p) \/ tickWoken(p) \/ tickReturn(p) \/ tickKill(p)

TSpec == TInit /\ [][TNext]_tvars

-----------------------------------------------------------------------------
\* A process that asked for n ticks goes on after no fewer, also when the
\* counter wraps meanwhile, and one that has had them is not left asleep.
SleepsItsTicks ==
  \A p \in Sleepers :
    /\ sleeper[p].pc = "slept" => elapsed[p] >= sleeper[p].n
    /\ sleeper[p].pc = "asleep" => elapsed[p] < sleeper[p].n
=============================================================================
