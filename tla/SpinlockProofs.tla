--------------------------- MODULE SpinlockProofs ---------------------------
(***************************************************************************)
(* Module Spinlock for any number of harts, of locks and of nested calls   *)
(* of push_off(): a lock has one owner, acquire(), release() and pop_off() *)
(* do not panic, and sstatus.SIE is restored.  First the inductive         *)
(* invariant and the parts of it that are about the locks, then what is    *)
(* about interrupts.                                                       *)
(***************************************************************************)
EXTENDS Spinlock, FiniteSetTheorems, TLAPS

Types ==
  /\ locked \in [Locks -> BOOLEAN]
  /\ cpu \in [Locks -> CPUs \cup {NoCPU}]
  /\ intr \in [CPUs -> BOOLEAN]
  /\ noff \in [CPUs -> Int]
  /\ intena \in [CPUs -> BOOLEAN]
  /\ cur \in [CPUs -> Paths]
  /\ pc \in [Exec -> Pcs]
  /\ arg \in [Exec -> Locks \cup {0}]
  /\ old \in [Exec -> BOOLEAN]
  /\ owns \in [Exec -> SUBSET Locks]
  /\ pushes \in [Exec -> Nat]
  /\ enabled \in [CPUs -> BOOLEAN]

\* What the argument of a call in progress is.
Args ==
  \A t \in Exec :
    /\ pc[t] \in {"hold", "spin", "own", "unlock"} => arg[t] \in Locks
    /\ pc[t] \in {"code", "pop"} => arg[t] = 0
    /\ (pc[t] \in {"push", "hold", "spin", "own"} /\ arg[t] # 0)
         => \A m \in owns[t] : m < arg[t]
    /\ pc[t] = "unlock" => arg[t] \notin owns[t]

\* Path t has lock l, or is about to get it or to give it back.
Has(t, l) == l \in owns[t] \/ (pc[t] \in {"own", "unlock"} /\ arg[t] = l)

Exclusive ==
  /\ \A t, u \in Exec, l \in Locks : Has(t, l) /\ Has(u, l) => t = u
  /\ \A t \in Exec, l \in Locks : Has(t, l) => locked[l]

\* lk->cpu is the hart of the path that owns the lock.
Owner ==
  /\ \A c \in CPUs, x \in Paths : \A l \in owns[<<c, x>>] : cpu[l] = c
  /\ \A l \in Locks, c \in CPUs :
       cpu[l] = c => l \in owns[<<c, "thread">>] \/ l \in owns[<<c, "handler">>]

Empty(t) == owns[t] = {} /\ pushes[t] = 0

\* The path that does not run has nothing to undo.
Resting ==
  \A c \in CPUs :
    /\ cur[c] = "thread" => Empty(<<c, "handler">>) /\ pc[<<c, "handler">>] = "code"
    /\ cur[c] = "handler" =>
         /\ Empty(<<c, "thread">>) /\ pc[<<c, "thread">>] \in {"code", "push"}
         /\ enabled[c]

\* What SIE is when nothing is to be undone.
Base(c) == cur[c] = "thread" /\ enabled[c]

\* noff counts what the running path has to undo, and intena remembers SIE.
Nest(c) ==
  /\ noff[c] = Depth(<<c, cur[c]>>)
  /\ noff[c] > 0 => ~intr[c] /\ (intena[c] <=> Base(c))
  /\ noff[c] = 0 => (intr[c] <=> Base(c))
  /\ \A x \in Paths :
       pc[<<c, x>>] = "push" /\ Empty(<<c, x>>) =>
         (old[<<c, x>>] <=> x = "thread" /\ enabled[c])

Nesting == \A c \in CPUs : Nest(c)

\* The inductive invariant.
IInv == Types /\ Args /\ Exclusive /\ Owner /\ Resting /\ Nesting /\ NoPanic

\* Every step keeps the types.
LEMMA TypesStep ==
  ASSUME IInv, [Next]_vars
  PROVE  Types'
<1> USE SpinlockAssumption DEF IInv, Types
<1>1. ASSUME NEW c \in CPUs, NEW x \in Paths, NEW l \in Locks, Acquire(c, x, l)
      PROVE  Types'
  BY <1>1, Zenon DEF Acquire, Exec, Paths, Pcs
<1>2. ASSUME NEW c \in CPUs, NEW x \in Paths, NEW l \in Locks, release_check(c, x, l)
      PROVE  Types'
  <2>1. owns' \in [Exec -> SUBSET Locks] /\ arg' \in [Exec -> Locks \cup {0}]
    BY <1>2, Zenon DEF release_check
  <2>2. cpu' \in [Locks -> CPUs \cup {NoCPU}] /\ pc' \in [Exec -> Pcs]
    BY <1>2, Zenon DEF release_check, Pcs
  <2>3. QED
    BY <1>2, <2>1, <2>2, Zenon DEF release_check
<1>3. ASSUME NEW c \in CPUs, NEW x \in Paths, PushOff(c, x) PROVE Types'
  BY <1>3, Zenon DEF PushOff, Exec, Paths, Pcs
<1>4. ASSUME NEW c \in CPUs, NEW x \in Paths, PopOff(c, x) PROVE Types'
  BY <1>4 DEF PopOff, Exec, Paths, Pcs
<1>5. ASSUME NEW c \in CPUs, NEW x \in Paths, push_off(c, x) PROVE Types'
  <2>1. <<c, x>> \in Exec
    BY Zenon DEF Exec
  <2>2. intr' \in [CPUs -> BOOLEAN] /\ intena' \in [CPUs -> BOOLEAN]
    BY <1>5, <2>1, Zenon DEF push_off
  <2>3. noff' \in [CPUs -> Int]
    BY <1>5 DEF push_off
  <2>4. pc' \in [Exec -> Pcs] /\ pushes' \in [Exec -> Nat]
    <3>1. /\ pc' = [pc EXCEPT ![<<c, x>>] = "code"] \/ pc' = [pc EXCEPT ![<<c, x>>] = "hold"]
          /\ pushes' = [pushes EXCEPT ![<<c, x>>] = @ + 1] \/ pushes' = pushes
      BY <1>5, Zenon DEF push_off
    <3>2. pc \in [Exec -> Pcs] /\ pushes \in [Exec -> Nat]
      OBVIOUS
    <3> HIDE DEF Types, IInv
    <3>3. QED
      BY <3>1, <3>2 DEF Pcs
  <2>5. QED
    BY <1>5, <2>2, <2>3, <2>4, Zenon DEF push_off
<1>6. ASSUME NEW c \in CPUs, NEW x \in Paths, pop_off(c, x) PROVE Types'
  <2>1. intr' \in [CPUs -> BOOLEAN]
    BY <1>6, Zenon DEF pop_off
  <2>2. noff' \in [CPUs -> Int]
    BY <1>6 DEF pop_off
  <2>3. pc' \in [Exec -> Pcs]
    <3>1. pc' = [pc EXCEPT ![<<c, x>>] = "code"] \/ pc' = [pc EXCEPT ![<<c, x>>] = "panic"]
      BY <1>6, Zenon DEF pop_off
    <3>2. QED
      BY <3>1, Zenon DEF Pcs
  <2>4. QED
    BY <1>6, <2>1, <2>2, <2>3, Zenon DEF pop_off
<1>7. ASSUME NEW c \in CPUs, NEW x \in Paths, acquire_check(c, x)
      PROVE  Types'
  BY <1>7, Zenon DEF acquire_check, Exec, Paths, Pcs
<1>8. ASSUME NEW c \in CPUs, NEW x \in Paths, acquire_swap(c, x)
      PROVE  Types'
  BY <1>8, Zenon DEF acquire_swap, Exec, Paths, Pcs
<1>9. ASSUME NEW c \in CPUs, NEW x \in Paths, acquire_own(c, x)
      PROVE  Types'
  <2>1. <<c, x>> \in Exec /\ arg[<<c, x>>] \in Locks
    BY <1>9, Zenon DEF acquire_own, Args, Exec
  <2>2. owns' \in [Exec -> SUBSET Locks]
    <3>1. owns[<<c, x>>] \cup {arg[<<c, x>>]} \in SUBSET Locks
      BY <2>1, Zenon
    <3>2. QED
      BY <1>9, <3>1, Zenon DEF acquire_own
  <2>3. cpu' \in [Locks -> CPUs \cup {NoCPU}] /\ arg' \in [Exec -> Locks \cup {0}]
    BY <1>9, <2>1, Zenon DEF acquire_own
  <2>4. pc' \in [Exec -> Pcs]
    BY <1>9, Zenon DEF acquire_own, Pcs
  <2>5. QED
    BY <1>9, <2>2, <2>3, <2>4, Zenon DEF acquire_own
<1>10. ASSUME NEW c \in CPUs, NEW x \in Paths, release_unlock(c, x)
      PROVE  Types'
  BY <1>10, Zenon DEF release_unlock, Exec, Paths, Pcs
<1>11. ASSUME NEW c \in CPUs, NEW on \in BOOLEAN, SetIntr(c, on) PROVE Types'
  BY <1>11, Zenon DEF SetIntr, Exec, Paths, Pcs
<1>12. ASSUME NEW c \in CPUs, Interrupt(c) PROVE Types'
  BY <1>12, Zenon DEF Interrupt, Exec, Paths, Pcs
<1>13. ASSUME NEW c \in CPUs, TrapReturn(c) PROVE Types'
  BY <1>13, Zenon DEF TrapReturn, Exec, Paths, Pcs
<1>14. CASE UNCHANGED vars
  BY <1>14, Zenon DEF vars, Exec, Paths, Pcs
<1> HIDE SpinlockAssumption DEF IInv, Types
<1>15. QED
  BY <1>1, <1>2, <1>3, <1>4, <1>5, <1>6, <1>7,
     <1>8, <1>9, <1>10, <1>11, <1>12, <1>13, <1>14, Zenon DEF Next, PathStep

\* A path takes locks in their order and never one it has.
LEMMA ArgsStep ==
  ASSUME IInv, [Next]_vars
  PROVE  Args'
<1> USE SpinlockAssumption DEF IInv, Args
<1>1. ASSUME NEW c \in CPUs, NEW x \in Paths, NEW l \in Locks, Acquire(c, x, l)
      PROVE  Args'
  BY <1>1, Zenon DEF Acquire, Types, Exec, Paths
<1>2. ASSUME NEW c \in CPUs, NEW x \in Paths, NEW l \in Locks, release_check(c, x, l)
      PROVE  Args'
  <2>1. \A u \in Exec : u # <<c, x>> =>
          pc'[u] = pc[u] /\ arg'[u] = arg[u] /\ owns'[u] = owns[u]
    BY <1>2, Zenon DEF release_check, Types
  <2>2. <<c, x>> \in Exec /\ arg'[<<c, x>>] = l /\ owns'[<<c, x>>] = owns[<<c, x>>] \ {l}
    BY <1>2, Zenon DEF release_check, Types, Exec
  <2>3. pc'[<<c, x>>] \in {"unlock", "panic"}
    BY <1>2, <2>2, Zenon DEF release_check, Types
  <2>4. QED
    BY <2>1, <2>2, <2>3, Zenon
<1>3. ASSUME NEW c \in CPUs, NEW x \in Paths, PushOff(c, x) PROVE Args'
  BY <1>3, Zenon DEF PushOff, Types, Exec, Paths
<1>4. ASSUME NEW c \in CPUs, NEW x \in Paths, PopOff(c, x) PROVE Args'
  BY <1>4, Zenon DEF PopOff, Types, Exec, Paths
<1>5. ASSUME NEW c \in CPUs, NEW x \in Paths, push_off(c, x) PROVE Args'
  <2>1. UNCHANGED <<arg, owns>>
    BY <1>5, Zenon DEF push_off
  <2>2. \A u \in Exec : u # <<c, x>> => pc'[u] = pc[u]
    BY <1>5, Zenon DEF push_off, Types
  <2>3. /\ <<c, x>> \in Exec /\ pc[<<c, x>>] = "push"
        /\ pc'[<<c, x>>] = IF arg[<<c, x>>] = 0 THEN "code" ELSE "hold"
    BY <1>5 DEF push_off, Types, Exec
  <2>4. arg[<<c, x>>] \in Locks \cup {0}
    BY <2>3, Zenon DEF Types
  <2>5. QED
    BY <2>1, <2>2, <2>3, <2>4, Zenon
<1>6. ASSUME NEW c \in CPUs, NEW x \in Paths, pop_off(c, x) PROVE Args'
  <2>1. UNCHANGED <<arg, owns>>
    BY <1>6, Zenon DEF pop_off
  <2>2. \A u \in Exec : u # <<c, x>> => pc'[u] = pc[u]
    BY <1>6, Zenon DEF pop_off, Types
  <2>3. /\ <<c, x>> \in Exec /\ pc[<<c, x>>] = "pop"
        /\ pc'[<<c, x>>] \in {"code", "panic"}
    BY <1>6 DEF pop_off, Types, Exec
  <2>4. QED
    BY <2>1, <2>2, <2>3, Zenon
<1>7. ASSUME NEW c \in CPUs, NEW x \in Paths, acquire_check(c, x)
      PROVE  Args'
  <2>1. UNCHANGED <<arg, owns>>
    BY <1>7, Zenon DEF acquire_check
  <2>2. \A u \in Exec : u # <<c, x>> => pc'[u] = pc[u]
    BY <1>7, Zenon DEF acquire_check, Types
  <2>3. /\ <<c, x>> \in Exec /\ pc[<<c, x>>] = "hold"
        /\ pc'[<<c, x>>] \in {"spin", "panic"}
    BY <1>7, Zenon DEF acquire_check, Types, Exec
  <2>4. QED
    BY <2>1, <2>2, <2>3, Zenon
<1>8. ASSUME NEW c \in CPUs, NEW x \in Paths, acquire_swap(c, x)
      PROVE  Args'
  BY <1>8, Zenon DEF acquire_swap, Types, Exec, Paths
<1>9. ASSUME NEW c \in CPUs, NEW x \in Paths, acquire_own(c, x) PROVE Args'
  BY <1>9 DEF acquire_own, Types, Exec, Paths
<1>10. ASSUME NEW c \in CPUs, NEW x \in Paths, release_unlock(c, x)
      PROVE  Args'
  BY <1>10 DEF release_unlock, Types, Exec, Paths
<1>11. ASSUME NEW c \in CPUs, NEW on \in BOOLEAN, SetIntr(c, on) PROVE Args'
  BY <1>11, Zenon DEF SetIntr, Types, Exec, Paths
<1>12. ASSUME NEW c \in CPUs, Interrupt(c) PROVE Args'
  BY <1>12, Zenon DEF Interrupt, Types, Exec, Paths
<1>13. ASSUME NEW c \in CPUs, TrapReturn(c) PROVE Args'
  BY <1>13, Zenon DEF TrapReturn, Types, Exec, Paths
<1>14. CASE UNCHANGED vars
  BY <1>14, Zenon DEF vars, Types, Exec, Paths
<1> HIDE SpinlockAssumption DEF IInv, Args
<1>15. QED
  BY <1>1, <1>2, <1>3, <1>4, <1>5, <1>6, <1>7,
     <1>8, <1>9, <1>10, <1>11, <1>12, <1>13, <1>14, Zenon DEF Next, PathStep

\* acquire() takes a free lock; release() frees one that nobody else has.
LEMMA ExclusiveStep ==
  ASSUME IInv, [Next]_vars
  PROVE  Exclusive'
<1> USE SpinlockAssumption DEF IInv, Exclusive
<1>1. ASSUME NEW c \in CPUs, NEW x \in Paths, NEW l \in Locks, Acquire(c, x, l)
      PROVE  Exclusive'
  BY <1>1 DEF Acquire, Has, Args, Types, Exec
<1>2. ASSUME NEW c \in CPUs, NEW x \in Paths, NEW l \in Locks, release_check(c, x, l)
      PROVE  Exclusive'
  <2> DEFINE t == <<c, x>>
  <2>0. /\ t \in Exec /\ l \in owns[t] /\ arg' = [arg EXCEPT ![t] = l]
        /\ owns' = [owns EXCEPT ![t] = @ \ {l}] /\ locked' = locked
    BY <1>2, Zenon DEF release_check, Exec
  <2>1. \E k \in {"unlock", "panic"} : pc' = [pc EXCEPT ![t] = k]
    BY <1>2, Zenon DEF release_check
  <2>2. pc \in [Exec -> Pcs] /\ arg \in [Exec -> Locks \cup {0}] /\ owns \in [Exec -> SUBSET Locks]
    BY Zenon DEF Types
  <2> HIDE DEF t
  <2>3. \A m \in Locks : Has(t, m)' => Has(t, m)
    BY <2>0, <2>1, <2>2, Zenon DEF Has
  <2>4. \A u \in Exec, m \in Locks : u # t => (Has(u, m)' <=> Has(u, m))
    BY <2>0, <2>1, <2>2 DEF Has
  <2>5. \A u \in Exec, m \in Locks : Has(u, m)' => Has(u, m)
    BY <2>3, <2>4, Zenon
  <2>6. QED
    BY <2>0, <2>5, Zenon
<1>3. ASSUME NEW c \in CPUs, NEW x \in Paths, PushOff(c, x)
      PROVE  Exclusive'
  BY <1>3 DEF PushOff, Has, Args, Types, Exec
<1>4. ASSUME NEW c \in CPUs, NEW x \in Paths, PopOff(c, x) PROVE Exclusive'
  BY <1>4 DEF PopOff, Has, Args, Types, Exec
<1>5. ASSUME NEW c \in CPUs, NEW x \in Paths, push_off(c, x)
      PROVE  Exclusive'
  <2>1. UNCHANGED <<arg, owns, locked>>
    BY <1>5, Zenon DEF push_off
  <2>2. \A u \in Exec : pc'[u] # pc[u] => pc[u] = "push" /\ pc'[u] \in {"code", "hold"}
    BY <1>5, Zenon DEF push_off, Types
  <2>3. \A u \in Exec, l \in Locks : Has(u, l)' => Has(u, l)
    BY <2>1, <2>2, Zenon DEF Has
  <2>4. QED
    BY <2>1, <2>3, Zenon
<1>6. ASSUME NEW c \in CPUs, NEW x \in Paths, pop_off(c, x)
      PROVE  Exclusive'
  <2>1. UNCHANGED <<arg, owns, locked>>
    BY <1>6, Zenon DEF pop_off
  <2>2. \A u \in Exec : pc'[u] # pc[u] => pc'[u] \in {"code", "panic"}
    BY <1>6, Zenon DEF pop_off, Types
  <2>3. \A u \in Exec, l \in Locks : Has(u, l)' => Has(u, l)
    BY <2>1, <2>2, Zenon DEF Has
  <2>4. QED
    BY <2>1, <2>3, Zenon
<1>7. ASSUME NEW c \in CPUs, NEW x \in Paths, acquire_check(c, x)
      PROVE  Exclusive'
  BY <1>7 DEF acquire_check, Has, Args, Types, Exec
<1>8. ASSUME NEW c \in CPUs, NEW x \in Paths, acquire_swap(c, x)
      PROVE  Exclusive'
  <2> DEFINE t == <<c, x>>
  <2>0. t \in Exec /\ arg[t] \in Locks
    BY <1>8, Zenon DEF acquire_swap, Args, Exec
  <2>1. /\ ~locked[arg[t]] /\ locked' = [locked EXCEPT ![arg[t]] = TRUE]
        /\ pc' = [pc EXCEPT ![t] = "own"] /\ UNCHANGED <<arg, owns>>
    BY <1>8, Zenon DEF acquire_swap
  <2> HIDE DEF t
  <2>2. \A u \in Exec, l \in Locks : Has(u, l)' => Has(u, l) \/ (u = t /\ l = arg[t])
    BY <2>0, <2>1 DEF Has, Types
  <2>3. \A u \in Exec : ~Has(u, arg[t])
    BY <2>0, <2>1, Zenon
  <2>4. \A l \in Locks : locked[l] \/ l = arg[t] => locked'[l]
    BY <2>0, <2>1, Zenon DEF Types
  <2>5. QED
    BY <2>0, <2>2, <2>3, <2>4
<1>9. ASSUME NEW c \in CPUs, NEW x \in Paths, acquire_own(c, x)
      PROVE  Exclusive'
  <2> DEFINE t == <<c, x>>
  <2>0. t \in Exec /\ arg[t] \in Locks /\ pc[t] = "own"
    BY <1>9, Zenon DEF acquire_own, Args, Exec
  <2>1. /\ owns' = [owns EXCEPT ![t] = @ \cup {arg[t]}] /\ arg' = [arg EXCEPT ![t] = 0]
        /\ pc' = [pc EXCEPT ![t] = "code"] /\ locked' = locked
    BY <1>9, Zenon DEF acquire_own
  <2> HIDE DEF t
  <2>2. \A u \in Exec, l \in Locks : Has(u, l)' => Has(u, l)
    BY <2>0, <2>1 DEF Has, Types
  <2>3. QED
    BY <2>1, <2>2, Zenon
<1>10. ASSUME NEW c \in CPUs, NEW x \in Paths, release_unlock(c, x)
      PROVE  Exclusive'
  BY <1>10 DEF release_unlock, Has, Args, Types, Exec
<1>11. ASSUME NEW c \in CPUs, NEW on \in BOOLEAN, SetIntr(c, on) PROVE Exclusive'
  BY <1>11 DEF SetIntr, Has, Args, Types, Exec
<1>12. ASSUME NEW c \in CPUs, Interrupt(c) PROVE Exclusive'
  BY <1>12 DEF Interrupt, Has, Args, Types, Exec
<1>13. ASSUME NEW c \in CPUs, TrapReturn(c) PROVE Exclusive'
  BY <1>13 DEF TrapReturn, Has, Args, Types, Exec
<1>14. CASE UNCHANGED vars
  BY <1>14 DEF vars, Has, Args, Types, Exec
<1> HIDE SpinlockAssumption DEF IInv, Exclusive
<1>15. QED
  BY <1>1, <1>2, <1>3, <1>4, <1>5, <1>6, <1>7,
     <1>8, <1>9, <1>10, <1>11, <1>12, <1>13, <1>14, Zenon DEF Next, PathStep

\* lk->cpu is stored with the lock and cleared before it is freed.
LEMMA OwnerStep ==
  ASSUME IInv, [Next]_vars
  PROVE  Owner'
<1> USE SpinlockAssumption DEF IInv, Owner
<1>1. ASSUME NEW c \in CPUs, NEW x \in Paths, NEW l \in Locks, Acquire(c, x, l)
      PROVE  Owner'
  BY <1>1, Zenon DEF Acquire, Exclusive, Has, Args, Types, Exec, Paths
<1>2. ASSUME NEW c \in CPUs, NEW x \in Paths, NEW l \in Locks, release_check(c, x, l)
      PROVE  Owner'
  <2> DEFINE t == <<c, x>>
  <2>0. /\ t \in Exec /\ l \in owns[t] /\ owns' = [owns EXCEPT ![t] = @ \ {l}]
        /\ cpu' = [cpu EXCEPT ![l] = NoCPU] \/ cpu' = cpu
    BY <1>2, Zenon DEF release_check, Exec
  <2>1. holding(c, l)
    <3>1. locked[l]
      BY <2>0, Zenon DEF Exclusive, Has
    <3>2. cpu[l] = c
      BY <2>0, Zenon
    <3>3. QED
      BY <3>1, <3>2, Zenon DEF holding
  <2>2. cpu' = [cpu EXCEPT ![l] = NoCPU]
    BY <1>2, <2>1, Zenon DEF release_check
  <2>9. owns \in [Exec -> SUBSET Locks] /\ cpu \in [Locks -> CPUs \cup {NoCPU}]
    BY Zenon DEF Types
  <2> HIDE DEF t
  <2>3. owns'[t] = owns[t] \ {l} /\ \A u \in Exec : u # t => owns'[u] = owns[u]
    BY <2>0, <2>9, Zenon
  <2>4. \A u \in Exec : l \notin owns'[u]
    BY <2>0, <2>3, Zenon DEF Exclusive, Has
  <2>5. \A m \in Locks : cpu'[m] = IF m = l THEN NoCPU ELSE cpu[m]
    BY <2>2, <2>9, Zenon
  <2>6. ASSUME NEW d \in CPUs, NEW y \in Paths, NEW m \in owns'[<<d, y>>]
        PROVE  cpu'[m] = d
    <3>1. <<d, y>> \in Exec
      BY Zenon DEF Exec
    <3>6. \A u \in Exec : owns[u] \in SUBSET Locks /\ owns'[u] \subseteq owns[u]
      BY <2>3, <2>9, Zenon
    <3>4. owns[<<d, y>>] \in SUBSET Locks /\ owns'[<<d, y>>] \subseteq owns[<<d, y>>]
      BY <3>1, <3>6, Zenon
    <3>5. l \notin owns'[<<d, y>>]
      BY <2>4, <3>1, Zenon
    <3>2. m \in owns[<<d, y>>] /\ m # l /\ m \in Locks
      BY <3>4, <3>5, Zenon
    <3>3. QED
      BY <2>5, <3>2, Zenon
  <2>7. ASSUME NEW m \in Locks, NEW d \in CPUs, cpu'[m] = d
        PROVE  m \in owns'[<<d, "thread">>] \/ m \in owns'[<<d, "handler">>]
    <3>1. m # l /\ cpu[m] = d
      BY <2>5, <2>7, Zenon
    <3>2. \A u \in Exec : m \in owns[u] => m \in owns'[u]
      BY <2>3, <3>1, Zenon
    <3>3. <<d, "thread">> \in Exec /\ <<d, "handler">> \in Exec
      BY Zenon DEF Exec, Paths
    <3>4. m \in owns[<<d, "thread">>] \/ m \in owns[<<d, "handler">>]
      BY <3>1, Zenon
    <3>5. QED
      BY <3>2, <3>3, <3>4, Zenon
  <2>8. QED
    BY <2>6, <2>7, Zenon
<1>3. ASSUME NEW c \in CPUs, NEW x \in Paths, PushOff(c, x) PROVE Owner'
  BY <1>3, Zenon DEF PushOff, Exclusive, Has, Args, Types, Exec, Paths
<1>4. ASSUME NEW c \in CPUs, NEW x \in Paths, PopOff(c, x) PROVE Owner'
  BY <1>4, Zenon DEF PopOff, Exclusive, Has, Args, Types, Exec, Paths
<1>5. ASSUME NEW c \in CPUs, NEW x \in Paths, push_off(c, x) PROVE Owner'
  BY <1>5, Zenon DEF push_off, Exclusive, Has, Args, Types, Exec, Paths
<1>6. ASSUME NEW c \in CPUs, NEW x \in Paths, pop_off(c, x) PROVE Owner'
  BY <1>6, Zenon DEF pop_off, Exclusive, Has, Args, Types, Exec, Paths
<1>7. ASSUME NEW c \in CPUs, NEW x \in Paths, acquire_check(c, x)
      PROVE  Owner'
  BY <1>7, Zenon DEF acquire_check, Exclusive, Has, Args, Types, Exec, Paths
<1>8. ASSUME NEW c \in CPUs, NEW x \in Paths, acquire_swap(c, x)
      PROVE  Owner'
  BY <1>8, Zenon DEF acquire_swap, Exclusive, Has, Args, Types, Exec, Paths
<1>9. ASSUME NEW c \in CPUs, NEW x \in Paths, acquire_own(c, x)
      PROVE  Owner'
  <2> DEFINE t == <<c, x>>
  <2>0. t \in Exec /\ arg[t] \in Locks /\ Has(t, arg[t])
    BY <1>9, Zenon DEF acquire_own, Args, Has, Exec
  <2>1. /\ cpu' = [cpu EXCEPT ![arg[t]] = c] /\ owns' = [owns EXCEPT ![t] = @ \cup {arg[t]}]
    BY <1>9, Zenon DEF acquire_own
  <2>8. owns \in [Exec -> SUBSET Locks] /\ cpu \in [Locks -> CPUs \cup {NoCPU}]
    BY Zenon DEF Types
  <2> HIDE DEF t
  <2>2. owns'[t] = owns[t] \cup {arg[t]} /\ \A u \in Exec : u # t => owns'[u] = owns[u]
    BY <2>0, <2>1, <2>8, Zenon
  <2>3. \A m \in Locks : cpu'[m] = IF m = arg[t] THEN c ELSE cpu[m]
    BY <2>0, <2>1, <2>8, Zenon
  <2>4. \A u \in Exec : arg[t] \in owns'[u] => u = t
    BY <2>0, <2>2, Zenon DEF Exclusive, Has
  <2>5. ASSUME NEW d \in CPUs, NEW y \in Paths, NEW m \in owns'[<<d, y>>]
        PROVE  cpu'[m] = d
    <3>1. <<d, y>> \in Exec
      BY Zenon DEF Exec
    <3>2. CASE m = arg[t]
      <4>1. <<d, y>> = <<c, x>>
        BY <2>4, <3>1, <3>2, Zenon DEF t
      <4>2. QED
        BY <2>0, <2>3, <3>2, <4>1, Zenon
    <3>3. CASE m # arg[t]
      <4>1. owns[<<d, y>>] \in SUBSET Locks
        BY <2>8, <3>1, Zenon
      <4>4. owns'[<<d, y>>] \subseteq owns[<<d, y>>] \cup {arg[t]}
        BY <2>2, <3>1, Zenon
      <4>2. m \in owns[<<d, y>>] /\ m \in Locks
        BY <3>3, <4>1, <4>4, Zenon
      <4>3. QED
        BY <2>3, <3>3, <4>2
    <3>4. QED
      BY <3>2, <3>3, Zenon
  <2>6. ASSUME NEW m \in Locks, NEW d \in CPUs, cpu'[m] = d
        PROVE  m \in owns'[<<d, "thread">>] \/ m \in owns'[<<d, "handler">>]
    <3>1. <<d, "thread">> \in Exec /\ <<d, "handler">> \in Exec
      BY Zenon DEF Exec, Paths
    <3>2. CASE m = arg[t]
      <4>1. c = d
        BY <2>3, <2>6, <3>2, Zenon
      <4>3. arg[t] \in owns'[t]
        BY <2>0, <2>2, Zenon
      <4>2. QED
        BY <3>2, <4>1, <4>3, Zenon DEF Paths, t
    <3>3. CASE m # arg[t]
      <4>1. cpu[m] = d
        BY <2>3, <2>6, <3>3, Zenon
      <4>2. QED
        BY <2>2, <3>1, <4>1, Zenon
    <3>4. QED
      BY <3>2, <3>3, Zenon
  <2>7. QED
    BY <2>5, <2>6, Zenon
<1>10. ASSUME NEW c \in CPUs, NEW x \in Paths, release_unlock(c, x)
      PROVE  Owner'
  BY <1>10, Zenon DEF release_unlock, Exclusive, Has, Args, Types, Exec, Paths
<1>11. ASSUME NEW c \in CPUs, NEW on \in BOOLEAN, SetIntr(c, on) PROVE Owner'
  BY <1>11, Zenon DEF SetIntr, Exclusive, Has, Args, Types, Exec, Paths
<1>12. ASSUME NEW c \in CPUs, Interrupt(c) PROVE Owner'
  BY <1>12, Zenon DEF Interrupt, Exclusive, Has, Args, Types, Exec, Paths
<1>13. ASSUME NEW c \in CPUs, TrapReturn(c) PROVE Owner'
  BY <1>13, Zenon DEF TrapReturn, Exclusive, Has, Args, Types, Exec, Paths
<1>14. CASE UNCHANGED vars
  BY <1>14, Zenon DEF vars, Exclusive, Has, Args, Types, Exec, Paths
<1> HIDE SpinlockAssumption DEF IInv, Owner
<1>15. QED
  BY <1>1, <1>2, <1>3, <1>4, <1>5, <1>6, <1>7,
     <1>8, <1>9, <1>10, <1>11, <1>12, <1>13, <1>14, Zenon DEF Next, PathStep

-----------------------------------------------------------------------------
\* Path t is inside acquire(), release() or pop_off().
Inside(t) == pc[t] \in {"hold", "spin", "own", "unlock", "pop"}

LEMMA OwnsFinite ==
  ASSUME NEW o \in SUBSET Locks
  PROVE  IsFiniteSet(o) /\ Cardinality(o) \in Nat /\ (Cardinality(o) = 0 <=> o = {})
<1>1. IsFiniteSet(o)
  BY SpinlockAssumption, FS_Subset, Zenon
<1>2. QED
  BY <1>1, FS_CardinalityType, FS_EmptySet, Zenon

\* A path that has nothing to undo has no lock and no push_off() of its own.
LEMMA DepthIs ==
  ASSUME Types, NEW t \in Exec
  PROVE  /\ Depth(t) \in Nat
         /\ Depth(t) = 0 <=> Empty(t) /\ ~Inside(t)
<1>1. owns[t] \in SUBSET Locks /\ pushes[t] \in Nat
  BY Zenon DEF Types
<1>2. Cardinality(owns[t]) \in Nat /\ (Cardinality(owns[t]) = 0 <=> owns[t] = {})
  BY <1>1, OwnsFinite, Zenon
<1>3. QED
  BY <1>1, <1>2 DEF Depth, Empty, Inside

LEMMA DepthSame ==
  ASSUME NEW t, owns'[t] = owns[t], pushes'[t] = pushes[t], Inside(t)' <=> Inside(t)
  PROVE  Depth(t)' = Depth(t)
BY Zenon DEF Depth, Inside

\* holding() tells the truth, and pop_off() has something to pop.
LEMMA NoPanicStep ==
  ASSUME IInv, Types', [Next]_vars
  PROVE  NoPanic'
<1> USE DEF IInv, NoPanic
<1>0. ASSUME NEW c \in CPUs, NEW x \in Paths,
             \A u \in Exec : u # <<c, x>> => pc'[u] = pc[u],
             pc'[<<c, x>>] # "panic"
      PROVE  NoPanic'
  BY <1>0, Zenon
<1>1. ASSUME NEW c \in CPUs, NEW x \in Paths, acquire_check(c, x) PROVE NoPanic'
  <2>1. <<c, x>> \in Exec /\ arg[<<c, x>>] \in Locks /\ pc[<<c, x>>] = "hold" /\ cur[c] = x
    BY <1>1, Zenon DEF acquire_check, Active, Args, Exec
  <2>2. \A m \in owns[<<c, x>>] : m < arg[<<c, x>>]
    BY <2>1, SpinlockAssumption, Zenon DEF Args
  <2>8. arg[<<c, x>>] \in Nat
    BY <2>1, SpinlockAssumption, Zenon
  <2>3. arg[<<c, x>>] \notin owns[<<c, x>>]
    BY <2>2, <2>8
  <2>4. \A y \in Paths : y # x => owns[<<c, y>>] = {}
    BY <2>1, Zenon DEF Resting, Empty, Paths
  <2>5. cpu[arg[<<c, x>>]] # c
    BY <2>1, <2>3, <2>4, Zenon DEF Owner, Paths
  <2>6. pc' = [pc EXCEPT ![<<c, x>>] = "spin"]
    BY <1>1, <2>5, Zenon DEF acquire_check, holding
  <2>7. QED
    BY <1>0, <2>1, <2>6, Zenon DEF Types
<1>2. ASSUME NEW c \in CPUs, NEW x \in Paths, NEW l \in Locks, release_check(c, x, l)
      PROVE  NoPanic'
  <2>1. <<c, x>> \in Exec /\ l \in owns[<<c, x>>]
    BY <1>2, Zenon DEF release_check, Exec
  <2>2. locked[l]
    BY <2>1, Zenon DEF Exclusive, Has
  <2>3. cpu[l] = c
    BY <2>1, Zenon DEF Owner
  <2>4. pc' = [pc EXCEPT ![<<c, x>>] = "unlock"]
    BY <1>2, <2>2, <2>3, Zenon DEF release_check, holding
  <2>5. QED
    BY <1>0, <2>1, <2>4, Zenon DEF Types
<1>3. ASSUME NEW c \in CPUs, NEW x \in Paths, pop_off(c, x) PROVE NoPanic'
  <2>1. <<c, x>> \in Exec /\ Inside(<<c, x>>) /\ cur[c] = x
    BY <1>3, Zenon DEF pop_off, Active, Inside, Exec
  <2>2. Depth(<<c, x>>) \in Nat /\ Depth(<<c, x>>) # 0
    BY <2>1, DepthIs, Zenon
  <2>3. noff[c] = Depth(<<c, x>>)
    BY <2>1, Zenon DEF Nesting, Nest
  <2>4. noff[c] > 0
    BY <2>2, <2>3
  <2>5. ~intr[c]
    BY <2>4, Zenon DEF Nesting, Nest
  <2>6. ~(noff[c] < 1)
    BY <2>2, <2>3
  <2>7. pc' = [pc EXCEPT ![<<c, x>>] = "code"]
    BY <1>3, <2>5, <2>6, Zenon DEF pop_off
  <2>8. QED
    BY <1>0, <2>1, <2>7, Zenon DEF Types
<1>4. ASSUME NEW c \in CPUs, NEW x \in Paths, push_off(c, x) PROVE NoPanic'
  <2>1. pc' = [pc EXCEPT ![<<c, x>>] = "code"] \/ pc' = [pc EXCEPT ![<<c, x>>] = "hold"]
    BY <1>4, Zenon DEF push_off
  <2>2. QED
    BY <1>0, <2>1, Zenon DEF Types
<1>5. ASSUME NEW c \in CPUs, NEW x \in Paths,
             \/ \E l \in Locks : Acquire(c, x, l)
             \/ PushOff(c, x) \/ PopOff(c, x) \/ acquire_swap(c, x) \/ acquire_own(c, x)
             \/ release_unlock(c, x)
      PROVE  NoPanic'
  <2>1. \E k \in {"push", "pop", "own", "code"} : pc' = [pc EXCEPT ![<<c, x>>] = k]
    BY <1>5, Zenon DEF Acquire, PushOff, PopOff, acquire_swap, acquire_own, release_unlock
  <2>2. QED
    BY <1>0, <2>1, Zenon DEF Types
<1>6. ASSUME NEW c \in CPUs,
             (\E on \in BOOLEAN : SetIntr(c, on)) \/ Interrupt(c) \/ TrapReturn(c)
      PROVE  NoPanic'
  BY <1>6, Zenon DEF SetIntr, Interrupt, TrapReturn
<1>7. CASE UNCHANGED vars
  BY <1>7, Zenon DEF vars
<1>8. QED
  BY <1>1, <1>2, <1>3, <1>4, <1>5, <1>6, <1>7, Zenon DEF Next, PathStep

\* A step of path x of hart c leaves the other paths and harts alone.
Elsewhere(c, x) ==
  /\ cur' = cur /\ enabled' = enabled /\ cur[c] = x
  /\ \A u \in Exec : u # <<c, x>> =>
       pc'[u] = pc[u] /\ owns'[u] = owns[u] /\ pushes'[u] = pushes[u] /\ old'[u] = old[u]
  /\ \A d \in CPUs : d # c =>
       intr'[d] = intr[d] /\ noff'[d] = noff[d] /\ intena'[d] = intena[d]

LEMMA PathFrame ==
  ASSUME Types, NEW c \in CPUs, NEW x \in Paths, PathStep(c, x)
  PROVE  Elsewhere(c, x)
<1> USE DEF Elsewhere, Active
<1>1. ASSUME NEW l \in Locks, Acquire(c, x, l) PROVE Elsewhere(c, x)
  BY <1>1, Zenon DEF Acquire, Types
<1>2. ASSUME NEW l \in Locks, release_check(c, x, l) PROVE Elsewhere(c, x)
  BY <1>2, Zenon DEF release_check, Types
<1>3. CASE PushOff(c, x)
  BY <1>3, Zenon DEF PushOff, Types
<1>4. CASE PopOff(c, x)
  BY <1>4, Zenon DEF PopOff, Types
<1>5. CASE push_off(c, x)
  BY <1>5, Zenon DEF push_off, Types
<1>6. CASE pop_off(c, x)
  BY <1>6, Zenon DEF pop_off, Types
<1>7. CASE acquire_check(c, x)
  BY <1>7, Zenon DEF acquire_check, Types
<1>8. CASE acquire_swap(c, x)
  BY <1>8, Zenon DEF acquire_swap, Types
<1>9. CASE acquire_own(c, x)
  BY <1>9, Zenon DEF acquire_own, Types
<1>10. CASE release_unlock(c, x)
  BY <1>10, Zenon DEF release_unlock, Types
<1>11. QED
  BY <1>1, <1>2, <1>3, <1>4, <1>5, <1>6, <1>7, <1>8, <1>9, <1>10, Zenon DEF PathStep

LEMMA OthersRest ==
  ASSUME IInv, NEW c \in CPUs, NEW x \in Paths, Elsewhere(c, x)
  PROVE  /\ Resting'
         /\ \A d \in CPUs : d # c => Nest(d)'
<1> USE DEF IInv, Elsewhere
<1>1. ASSUME NEW d \in CPUs, NEW y \in Paths, d # c \/ y # x
      PROVE  /\ <<d, y>> \in Exec /\ pc'[<<d, y>>] = pc[<<d, y>>] /\ (Empty(<<d, y>>)' <=> Empty(<<d, y>>))
             /\ old'[<<d, y>>] = old[<<d, y>>] /\ Depth(<<d, y>>)' = Depth(<<d, y>>)
  <2>1. <<d, y>> \in Exec /\ <<d, y>> # <<c, x>>
    BY <1>1, Zenon DEF Exec
  <2>2. QED
    BY <2>1, DepthSame, Zenon DEF Empty, Inside
<1>2. Resting'
  <2> SUFFICES ASSUME NEW d \in CPUs
               PROVE  /\ cur'[d] = "thread" =>
                           Empty(<<d, "handler">>)' /\ pc'[<<d, "handler">>] = "code"
                      /\ cur'[d] = "handler" =>
                           /\ Empty(<<d, "thread">>)' /\ pc'[<<d, "thread">>] \in {"code", "push"}
                           /\ enabled'[d]
    BY Zenon DEF Resting
  <2>1. CASE cur[d] = "thread"
    <3>1. d # c \/ "handler" # x
      BY <2>1, Zenon
    <3>2. /\ pc'[<<d, "handler">>] = pc[<<d, "handler">>]
          /\ Empty(<<d, "handler">>)' <=> Empty(<<d, "handler">>)
      BY <1>1, <3>1, Zenon DEF Paths
    <3>3. QED
      BY <2>1, <3>2, Zenon DEF Resting
  <2>2. CASE cur[d] = "handler"
    <3>1. d # c \/ "thread" # x
      BY <2>2, Zenon
    <3>2. /\ pc'[<<d, "thread">>] = pc[<<d, "thread">>]
          /\ Empty(<<d, "thread">>)' <=> Empty(<<d, "thread">>)
      BY <1>1, <3>1, Zenon DEF Paths
    <3>3. QED
      BY <2>2, <3>2, Zenon DEF Resting
  <2>3. QED
    BY <2>1, <2>2, Zenon
<1>3. ASSUME NEW d \in CPUs, d # c PROVE Nest(d)'
  <2>1. cur'[d] = cur[d] /\ cur[d] \in Paths /\ enabled'[d] = enabled[d] /\ Nest(d)
    BY Zenon DEF Types, Nesting
  <2>2. Depth(<<d, cur[d]>>)' = Depth(<<d, cur[d]>>)
    BY <1>1, <1>3, <2>1, Zenon
  <2>3. \A y \in Paths : pc[<<d, y>>]' = pc[<<d, y>>] /\ old[<<d, y>>]' = old[<<d, y>>]
                         /\ (Empty(<<d, y>>)' <=> Empty(<<d, y>>))
    BY <1>1, <1>3, Zenon
  <2>4. intr'[d] = intr[d] /\ noff'[d] = noff[d] /\ intena'[d] = intena[d]
    BY <1>3, Zenon
  <2>5. Depth(<<d, cur[d]>>)' = Depth(<<d, cur[d]>>) /\ Base(d)' = Base(d)
    BY <2>1, <2>2, Zenon DEF Base
  <2>6. QED
    BY <2>1, <2>2, <2>3, <2>4, <2>5 DEF Nest, Base
<1>4. QED
  BY <1>2, <1>3, Zenon

\* A step that pushes and pops nothing, outside of the start of push_off().
LEMMA NestSame ==
  ASSUME IInv, Types', NEW c \in CPUs, NEW x \in Paths, Elsewhere(c, x),
         UNCHANGED <<intr, noff, intena>>, Depth(<<c, x>>)' = Depth(<<c, x>>),
         pc'[<<c, x>>] = "push" /\ Empty(<<c, x>>)' =>
           (old'[<<c, x>>] <=> x = "thread" /\ enabled[c])
  PROVE  Nest(c)'
<1>1. Nest(c) /\ cur' = cur /\ enabled' = enabled /\ cur[c] = x
  BY Zenon DEF IInv, Nesting, Elsewhere
<1>2. noff'[c] = Depth(<<c, cur[c]>>)' /\ (Base(c)' <=> Base(c))
  BY <1>1, Zenon DEF Nest, Base
<1>3. ASSUME NEW y \in Paths, y # x
      PROVE  /\ pc'[<<c, y>>] = pc[<<c, y>>] /\ old'[<<c, y>>] = old[<<c, y>>]
             /\ Empty(<<c, y>>)' <=> Empty(<<c, y>>)
  <2>1. <<c, y>> \in Exec /\ <<c, y>> # <<c, x>>
    BY <1>3, Zenon DEF Exec
  <2>2. QED
    BY <2>1, Zenon DEF Elsewhere, Empty
<1>4. QED
  BY <1>1, <1>2, <1>3, Zenon DEF Nest

\* push_off() and pop_off() keep noff and intena right.
LEMMA NestStep ==
  ASSUME IInv, Types', NoPanic', NEW c \in CPUs, NEW x \in Paths, PathStep(c, x)
  PROVE  Nest(c)'
<1> DEFINE t == <<c, x>>
<1>0. /\ t \in Exec /\ Elsewhere(c, x) /\ cur[c] = x /\ cur' = cur /\ enabled' = enabled
      /\ Nest(c) /\ Types /\ Args /\ pc'[t] # "panic"
  <2>1. t \in Exec
    BY Zenon DEF Exec
  <2>2. Types /\ Args /\ Nesting
    BY Zenon DEF IInv
  <2>3. Elsewhere(c, x)
    BY <2>2, PathFrame, Zenon
  <2>4. cur[c] = x /\ cur' = cur /\ enabled' = enabled
    BY <2>3, Zenon DEF Elsewhere
  <2>5. QED
    BY <2>1, <2>2, <2>3, <2>4, Zenon DEF Nesting, NoPanic
<1>1. noff[c] = Depth(t) /\ (Base(c) <=> x = "thread" /\ enabled[c]) /\ (Base(c)' <=> Base(c))
  BY <1>0, Zenon DEF Nest, Base
<1>2. ASSUME NEW k, pc' = [pc EXCEPT ![t] = k], pc[t] = "code", k = "push",
             UNCHANGED <<intr, noff, intena, owns, pushes>>, old' = [old EXCEPT ![t] = intr[c]]
      PROVE  Nest(c)'
  <2>1. pc'[t] = "push" /\ old'[t] = intr[c]
    BY <1>0, <1>2, Zenon DEF Types
  <2>2. Depth(t)' = Depth(t)
    BY <1>2, <2>1, DepthSame, Zenon DEF Inside
  <2>3. Empty(t)' => noff[c] = 0
    BY <1>0, <1>1, <1>2, DepthIs, Zenon DEF Empty, Inside
  <2>4. Empty(t)' => (intr[c] <=> x = "thread" /\ enabled[c])
    BY <1>0, <1>1, <2>3, Zenon DEF Nest
  <2>5. QED
    BY <1>0, <1>2, <2>1, <2>2, <2>4, NestSame, Zenon
<1>3. ASSUME NEW l \in Locks, Acquire(c, x, l) PROVE Nest(c)'
  BY <1>2, <1>3, Zenon DEF Acquire
<1>4. CASE PushOff(c, x)
  BY <1>2, <1>4, Zenon DEF PushOff
<1>5. ASSUME UNCHANGED <<intr, noff, intena>>, Depth(t)' = Depth(t), pc'[t] # "push"
      PROVE  Nest(c)'
  BY <1>0, <1>5, NestSame, Zenon
<1>6. CASE acquire_check(c, x) \/ acquire_swap(c, x) \/ release_unlock(c, x)
  <2>1. UNCHANGED <<owns, pushes, intr, noff, intena>>
    BY <1>6, Zenon DEF acquire_check, acquire_swap, release_unlock
  <2>2. pc[t] \in {"hold", "spin", "unlock"} /\ pc'[t] \in {"spin", "own", "pop"}
    BY <1>0, <1>6, Zenon DEF acquire_check, acquire_swap, release_unlock, Types
  <2>3. Depth(t)' = Depth(t)
    BY <2>1, <2>2, DepthSame, Zenon DEF Inside
  <2>4. QED
    BY <1>5, <2>1, <2>2, <2>3, Zenon
<1>7. CASE acquire_own(c, x)
  <2>1. /\ UNCHANGED <<pushes, intr, noff, intena>> /\ pc[t] = "own" /\ pc'[t] = "code"
        /\ owns'[t] = owns[t] \cup {arg[t]}
    BY <1>0, <1>7, Zenon DEF acquire_own, Types
  <2>2. arg[t] \in Locks /\ owns[t] \in SUBSET Locks /\ pushes[t] \in Nat
    BY <1>0, <2>1, Zenon DEF Args, Types
  <2>3. arg[t] \in Nat \ {0} /\ \A m \in owns[t] : m < arg[t]
    BY <1>0, <2>1, <2>2, SpinlockAssumption, Zenon DEF Args
  <2>4. arg[t] \notin owns[t]
    BY <2>3
  <2>5. Cardinality(owns'[t]) = Cardinality(owns[t]) + 1 /\ Cardinality(owns[t]) \in Nat
    BY <2>1, <2>2, <2>4, OwnsFinite, FS_AddElement, Zenon
  <2>6. Depth(t)' = Depth(t)
    BY <2>1, <2>2, <2>5 DEF Depth
  <2>7. QED
    BY <1>5, <2>1, <2>6, Zenon
<1>8. ASSUME NEW l \in Locks, release_check(c, x, l) PROVE Nest(c)'
  <2>1. /\ UNCHANGED <<pushes, intr, noff, intena>> /\ pc[t] = "code"
        /\ owns'[t] = owns[t] \ {l} /\ l \in owns[t]
    BY <1>0, <1>8, Zenon DEF release_check, Types
  <2>2. pc'[t] = "unlock"
    BY <1>0, <1>8 DEF release_check, Types
  <2>3. owns[t] \in SUBSET Locks /\ pushes[t] \in Nat
    BY <1>0, Zenon DEF Types
  <2>4. Cardinality(owns'[t]) = Cardinality(owns[t]) - 1 /\ Cardinality(owns[t]) \in Nat
    BY <2>1, <2>3, OwnsFinite, FS_RemoveElement
  <2>5. Depth(t)' = Depth(t)
    BY <2>1, <2>2, <2>3, <2>4 DEF Depth
  <2>6. QED
    BY <1>5, <2>1, <2>2, <2>5, Zenon
<1>9. CASE PopOff(c, x)
  <2>1. /\ UNCHANGED <<owns, intr, noff, intena>> /\ pc[t] = "code" /\ pc'[t] = "pop"
        /\ pushes'[t] = pushes[t] - 1
    BY <1>0, <1>9, Zenon DEF PopOff, Types
  <2>2. Cardinality(owns[t]) \in Nat /\ pushes[t] \in Nat
    BY <1>0, OwnsFinite, Zenon DEF Types
  <2>3. Depth(t)' = Depth(t)
    BY <2>1, <2>2 DEF Depth
  <2>4. QED
    BY <1>5, <2>1, <2>3, Zenon
<1>10. ASSUME noff'[c] = Depth(t)', pc'[t] # "push",
              noff'[c] > 0 => ~intr'[c] /\ (intena'[c] <=> Base(c)),
              noff'[c] = 0 => (intr'[c] <=> Base(c))
       PROVE  Nest(c)'
  <2>1. ASSUME NEW y \in Paths, y # x
        PROVE  /\ pc'[<<c, y>>] = pc[<<c, y>>] /\ old'[<<c, y>>] = old[<<c, y>>]
               /\ Empty(<<c, y>>)' <=> Empty(<<c, y>>)
    <3>1. <<c, y>> \in Exec /\ <<c, y>> # <<c, x>>
      BY <2>1, Zenon DEF Exec
    <3>2. QED
      BY <1>0, <3>1, Zenon DEF Elsewhere, Empty
  <2>2. \A y \in Paths : pc'[<<c, y>>] = "push" /\ Empty(<<c, y>>)' =>
                           (old'[<<c, y>>] <=> y = "thread" /\ enabled'[c])
    BY <1>0, <1>10, <2>1, Zenon DEF Nest
  <2>3. QED
    BY <1>0, <1>1, <1>10, <2>2, Zenon DEF Nest
<1>11. CASE push_off(c, x)
  <2>1. /\ pc[t] = "push" /\ intr'[c] = FALSE /\ noff'[c] = noff[c] + 1
        /\ intena'[c] = IF noff[c] = 0 THEN old[t] ELSE intena[c]
    BY <1>0, <1>11, Zenon DEF push_off, Types
  <2>2. /\ owns'[t] = owns[t]
        /\ \/ pushes'[t] = pushes[t] + 1 /\ pc'[t] = "code"
           \/ pushes'[t] = pushes[t] /\ pc'[t] = "hold"
    BY <1>0, <1>11 DEF push_off, Types
  <2>3. Cardinality(owns[t]) \in Nat /\ pushes[t] \in Nat
    BY <1>0, OwnsFinite, Zenon DEF Types
  <2>4. Depth(t)' = Depth(t) + 1
    BY <2>1, <2>2, <2>3 DEF Depth
  <2>5. Depth(t) \in Nat /\ (Depth(t) = 0 => Empty(t))
    BY <1>0, DepthIs, Zenon
  <2>6. noff[c] = 0 => (old[t] <=> Base(c))
    BY <1>0, <1>1, <2>1, <2>5, Zenon DEF Nest
  <2>7. noff[c] # 0 => (intena[c] <=> Base(c))
    <3>1. noff[c] # 0 => noff[c] > 0
      BY <1>1, <2>5
    <3>2. QED
      BY <1>0, <3>1, Zenon DEF Nest
  <2>8. intena'[c] <=> Base(c)
    BY <2>1, <2>6, <2>7, Zenon
  <2>9. noff'[c] = Depth(t)' /\ noff'[c] # 0
    BY <1>1, <2>1, <2>4, <2>5
  <2>10. QED
    BY <1>10, <2>1, <2>2, <2>8, <2>9, Zenon
<1>12. CASE pop_off(c, x)
  <2>1. pc[t] = "pop" /\ pc'[t] = "code"
    BY <1>0, <1>12, Zenon DEF pop_off, Types
  <2>2. /\ owns'[t] = owns[t] /\ pushes'[t] = pushes[t] /\ intena'[c] = intena[c]
        /\ noff'[c] = noff[c] - 1 /\ (intr'[c] <=> noff[c] = 1 /\ intena[c])
    <3>1. pc' # [pc EXCEPT ![t] = "panic"]
      BY <1>0, <2>1, Zenon DEF Types
    <3>2. QED
      BY <1>0, <1>12, <3>1 DEF pop_off, Types
  <2>3. Cardinality(owns[t]) \in Nat /\ pushes[t] \in Nat
    BY <1>0, OwnsFinite, Zenon DEF Types
  <2>4. Depth(t)' = Depth(t) - 1 /\ Depth(t) >= 1 /\ Depth(t) \in Nat
    BY <2>1, <2>2, <2>3 DEF Depth
  <2>5. noff[c] > 0 /\ noff'[c] = Depth(t)'
    BY <1>1, <2>2, <2>4
  <2>6. intena[c] <=> Base(c)
    BY <1>0, <2>5, Zenon DEF Nest
  <2>7. noff'[c] = 0 <=> noff[c] = 1
    BY <1>1, <2>2, <2>4
  <2>8. noff'[c] > 0 => noff[c] # 1
    BY <1>1, <2>2, <2>4
  <2>9. noff'[c] > 0 => ~intr'[c]
    BY <2>2, <2>8, Zenon
  <2>10. noff'[c] = 0 => (intr'[c] <=> Base(c))
    BY <2>2, <2>6, <2>7, Zenon
  <2>11. QED
    BY <1>10, <2>1, <2>2, <2>5, <2>6, <2>9, <2>10, Zenon
<1>13. QED
  BY <1>3, <1>4, <1>6, <1>7, <1>8, <1>9, <1>11, <1>12, Zenon DEF PathStep

\* Turning interrupts on or off, and the entry to and the return from a trap,
\* happen when the running path has nothing to undo.
LEMMA TrapStep ==
  ASSUME IInv, NEW c \in CPUs,
         (\E on \in BOOLEAN : SetIntr(c, on)) \/ Interrupt(c) \/ TrapReturn(c)
  PROVE  Resting' /\ Nesting'
<1> USE DEF IInv
<1>0. UNCHANGED <<noff, intena, pc, owns, pushes, old>>
  BY Zenon DEF SetIntr, Interrupt, TrapReturn
<1>1. /\ \A u : (Empty(u)' <=> Empty(u)) /\ Depth(u)' = Depth(u)
      /\ \A d \in CPUs : <<d, "thread">> \in Exec /\ <<d, "handler">> \in Exec
  BY <1>0, Zenon DEF Empty, Depth, Exec, Paths
<1>2. \A d \in CPUs : d # c => cur'[d] = cur[d] /\ enabled'[d] = enabled[d] /\ intr'[d] = intr[d]
  BY Zenon DEF SetIntr, Interrupt, TrapReturn, Types
<1>3. ASSUME NEW d \in CPUs, d # c PROVE Nest(d)'
  <2>1. Nest(d) /\ (Base(d)' <=> Base(d)) /\ cur'[d] = cur[d]
    BY <1>2, <1>3, Zenon DEF Nesting, Base
  <2>2. noff'[d] = Depth(<<d, cur[d]>>)'
    BY <1>0, <1>1, <2>1, Zenon DEF Nest
  <2>3. \A x \in Paths : pc'[<<d, x>>] = "push" /\ Empty(<<d, x>>)' =>
                           (old'[<<d, x>>] <=> x = "thread" /\ enabled'[d])
    BY <1>0, <1>1, <1>2, <1>3, <2>1, Zenon DEF Nest
  <2>4. QED
    BY <1>0, <1>2, <1>3, <2>1, <2>2, <2>3, Zenon DEF Nest
<1>4. ASSUME NEW d \in CPUs, d # c
      PROVE  /\ cur'[d] = "thread" => Empty(<<d, "handler">>)' /\ pc'[<<d, "handler">>] = "code"
             /\ cur'[d] = "handler" => /\ Empty(<<d, "thread">>)'
                                       /\ pc'[<<d, "thread">>] \in {"code", "push"} /\ enabled'[d]
  BY <1>0, <1>1, <1>2, <1>4, Zenon DEF Resting
<1>5. ASSUME /\ cur'[c] = "thread" => Empty(<<c, "handler">>)' /\ pc'[<<c, "handler">>] = "code"
             /\ cur'[c] = "handler" => /\ Empty(<<c, "thread">>)'
                                       /\ pc'[<<c, "thread">>] \in {"code", "push"} /\ enabled'[c],
             noff[c] = 0, Depth(<<c, cur'[c]>>) = 0, intr'[c] <=> Base(c)',
             pc[<<c, "thread">>] = "push" => enabled'[c] = enabled[c]
      PROVE  Resting' /\ Nesting'
  <2>1. Resting'
    BY <1>4, <1>5, Zenon DEF Resting
  <2>2. Nest(c)
    BY Zenon DEF Nesting
  <2>3. \A x \in Paths : pc'[<<c, x>>] = "push" /\ Empty(<<c, x>>)' =>
                           (old'[<<c, x>>] <=> x = "thread" /\ enabled'[c])
    BY <1>0, <1>1, <1>5, <2>2, Zenon DEF Nest, Paths
  <2>4. Nest(c)'
    BY <1>0, <1>1, <1>5, <2>3 DEF Nest
  <2>5. QED
    BY <1>3, <2>1, <2>4, Zenon DEF Nesting
<1>6. ASSUME NEW on \in BOOLEAN, SetIntr(c, on) PROVE Resting' /\ Nesting'
  <2>1. /\ cur[c] = "thread" /\ cur' = cur /\ pc[<<c, "thread">>] = "code"
        /\ Empty(<<c, "thread">>)
    BY <1>6, Zenon DEF SetIntr, Active, Empty
  <2>2. intr'[c] = on /\ enabled'[c] = on
    BY <1>6, Zenon DEF SetIntr, Types
  <2>3. Depth(<<c, "thread">>) = 0
    <3>1. ~Inside(<<c, "thread">>)
      BY <2>1, Zenon DEF Inside
    <3>2. QED
      BY <1>1, <2>1, <3>1, DepthIs, Zenon
  <2>4. noff[c] = 0
    BY <2>1, <2>3, Zenon DEF Nesting, Nest
  <2>5. Empty(<<c, "handler">>) /\ pc[<<c, "handler">>] = "code"
    BY <2>1, Zenon DEF Resting
  <2>6. intr'[c] <=> Base(c)'
    BY <2>1, <2>2, Zenon DEF Base
  <2>7. QED
    BY <1>0, <1>1, <1>5, <2>1, <2>3, <2>4, <2>5, <2>6, Zenon
<1>7. ASSUME Interrupt(c) PROVE Resting' /\ Nesting'
  <2>1. cur[c] = "thread" /\ intr[c] /\ enabled' = enabled
    BY <1>7, Zenon DEF Interrupt, Active
  <2>2. cur'[c] = "handler" /\ ~intr'[c]
    BY <1>7, Zenon DEF Interrupt, Types
  <2>3. Nest(c) /\ noff[c] = Depth(<<c, "thread">>) /\ Depth(<<c, "thread">>) \in Nat
    BY <1>1, <2>1, DepthIs, Zenon DEF Nesting, Nest
  <2>4. ~(noff[c] > 0)
    BY <2>1, <2>3, Zenon DEF Nest
  <2>5. noff[c] = 0
    BY <2>3, <2>4
  <2>6. enabled[c]
    BY <2>1, <2>3, <2>5, Zenon DEF Nest, Base
  <2>7. Empty(<<c, "thread">>) /\ ~Inside(<<c, "thread">>)
    BY <1>1, <2>3, <2>5, DepthIs, Zenon
  <2>8. pc[<<c, "thread">>] \in {"code", "push"}
    BY <1>1, <2>7, Zenon DEF Inside, NoPanic, Types, Pcs
  <2>9. Empty(<<c, "handler">>) /\ pc[<<c, "handler">>] = "code"
    BY <2>1, Zenon DEF Resting
  <2>10. Depth(<<c, "handler">>) = 0
    <3>1. ~Inside(<<c, "handler">>)
      BY <2>9, Zenon DEF Inside
    <3>2. QED
      BY <1>1, <2>9, <3>1, DepthIs, Zenon
  <2>11. ~Base(c)'
    BY <2>2, Zenon DEF Base
  <2>12. QED
    BY <1>0, <1>1, <1>5, <2>1, <2>2, <2>5, <2>6, <2>7, <2>8, <2>10, <2>11, Zenon
<1>8. ASSUME TrapReturn(c) PROVE Resting' /\ Nesting'
  <2>1. /\ cur[c] = "handler" /\ pc[<<c, "handler">>] = "code" /\ Empty(<<c, "handler">>)
        /\ enabled' = enabled
    BY <1>8, Zenon DEF TrapReturn, Active, Empty
  <2>2. cur'[c] = "thread" /\ intr'[c]
    BY <1>8, Zenon DEF TrapReturn, Types
  <2>3. Empty(<<c, "thread">>) /\ pc[<<c, "thread">>] \in {"code", "push"} /\ enabled[c]
    BY <2>1, Zenon DEF Resting
  <2>4. Depth(<<c, "handler">>) = 0 /\ Depth(<<c, "thread">>) = 0
    BY <1>1, <2>1, <2>3, DepthIs, Zenon DEF Inside
  <2>5. noff[c] = 0
    BY <2>1, <2>4, Zenon DEF Nesting, Nest
  <2>6. Base(c)'
    BY <2>1, <2>2, <2>3, Zenon DEF Base
  <2>7. QED
    BY <1>0, <1>1, <1>5, <2>1, <2>2, <2>4, <2>5, <2>6, Zenon
<1>9. QED
  BY <1>6, <1>7, <1>8, Zenon

LEMMA InitInv ==
  ASSUME Init
  PROVE  IInv
<1> USE DEF Init
<1>1. Types
  <2>1. owns \in [Exec -> SUBSET Locks] /\ pc \in [Exec -> Pcs] /\ cur \in [CPUs -> Paths]
    BY Zenon DEF Pcs, Paths
  <2>2. arg \in [Exec -> Locks \cup {0}] /\ pushes \in [Exec -> Nat] /\ noff \in [CPUs -> Int]
    OBVIOUS
  <2>3. /\ locked \in [Locks -> BOOLEAN] /\ intr \in [CPUs -> BOOLEAN]
        /\ intena \in [CPUs -> BOOLEAN] /\ old \in [Exec -> BOOLEAN]
        /\ enabled \in [CPUs -> BOOLEAN] /\ cpu \in [Locks -> CPUs \cup {NoCPU}]
    OBVIOUS
  <2>4. QED
    BY <2>1, <2>2, <2>3, Zenon DEF Types
<1>2. \A c \in CPUs, x \in Paths : <<c, x>> \in Exec
  BY Zenon DEF Exec
<1>3. Args /\ NoPanic
  BY Zenon DEF Args, NoPanic
<1>4. Exclusive
  BY Zenon DEF Exclusive, Has
<1>5. Owner
  BY <1>2, SpinlockAssumption, Zenon DEF Owner
<1>6. Resting
  BY <1>2, Zenon DEF Resting, Empty, Paths
<1>7. \A t \in Exec : Depth(t) = 0
  BY <1>1, DepthIs, Zenon DEF Empty, Inside
<1>8. ASSUME NEW c \in CPUs PROVE Nest(c)
  <2>1. noff[c] = 0 /\ Depth(<<c, cur[c]>>) = 0
    BY <1>2, <1>7, Zenon DEF Paths
  <2>2. intr[c] <=> Base(c)
    BY Zenon DEF Base
  <2>3. \A x \in Paths : pc[<<c, x>>] # "push"
    BY <1>2, Zenon
  <2>4. QED
    BY <2>1, <2>2, <2>3, Zenon DEF Nest
<1>9. QED
  BY <1>1, <1>3, <1>4, <1>5, <1>6, <1>8, Zenon DEF IInv, Nesting

LEMMA InvStep ==
  ASSUME IInv, [Next]_vars
  PROVE  IInv'
<1>1. Types' /\ Args' /\ Exclusive' /\ Owner'
  BY TypesStep, ArgsStep, ExclusiveStep, OwnerStep, Zenon
<1>2. NoPanic'
  BY <1>1, NoPanicStep, Zenon
<1>3. Resting' /\ Nesting'
  <2>1. ASSUME NEW c \in CPUs, NEW x \in Paths, PathStep(c, x) PROVE Resting' /\ Nesting'
    <3>1. Elsewhere(c, x)
      BY <2>1, PathFrame, Zenon DEF IInv
    <3>2. Resting' /\ \A d \in CPUs : d # c => Nest(d)'
      BY <3>1, OthersRest, Zenon
    <3>3. Nest(c)'
      BY <1>1, <1>2, <2>1, NestStep, Zenon
    <3>4. QED
      BY <3>2, <3>3, Zenon DEF Nesting
  <2>2. ASSUME NEW c \in CPUs,
               (\E on \in BOOLEAN : SetIntr(c, on)) \/ Interrupt(c) \/ TrapReturn(c)
        PROVE  Resting' /\ Nesting'
    BY <2>2, TrapStep, Zenon
  <2>3. CASE UNCHANGED vars
    BY <2>3 DEF vars, IInv, Resting, Nesting, Nest, Base, Empty, Depth
  <2>4. QED
    BY <2>1, <2>2, <2>3, Zenon DEF Next
<1>4. QED
  BY <1>1, <1>2, <1>3, Zenon DEF IInv

\* The inductive invariant holds.
THEOREM Invariance == Spec => []IInv
<1>1. Init => IInv
  BY InitInv, Zenon
<1>2. IInv /\ [Next]_vars => IInv'
  BY InvStep, Zenon
<1>3. QED
  BY <1>1, <1>2, PTL DEF Spec

\* acquire() gives a lock to one thread or handler at a time, on any number of
\* harts.
THEOREM OneOwner == Spec => []MutualExclusion
<1>1. IInv => MutualExclusion
  <2> SUFFICES ASSUME IInv, NEW t \in Exec, NEW u \in Exec, t # u
               PROVE  owns[t] \cap owns[u] = {}
    BY Zenon DEF MutualExclusion
  <2>1. owns[t] \in SUBSET Locks
    BY Zenon DEF IInv, Types
  <2>2. QED
    BY <2>1, Zenon DEF IInv, Exclusive, Has
<1>2. QED
  BY <1>1, Invariance, PTL

\* holding() is right whenever acquire() and release() ask, and pop_off()
\* finds interrupts off and something to pop.
THEOREM NeverPanics == Spec => []NoPanic
<1>1. IInv => NoPanic
  BY Zenon DEF IInv
<1>2. QED
  BY <1>1, Invariance, PTL

\* The matching pop_off() leaves SIE as the first push_off() found it, whatever
\* locks, nested calls and interrupts came between.
THEOREM InterruptsComeBack == Spec => []InterruptsRestored
<1>1. IInv => InterruptsRestored
  <2> SUFFICES ASSUME IInv, NEW c \in CPUs, NEW x \in Paths, cur[c] = x
               PROVE  /\ Depth(<<c, x>>) > 0 => ~intr[c]
                      /\ Depth(<<c, x>>) = 0 => (intr[c] = (x = "thread" /\ enabled[c]))
    BY Zenon DEF InterruptsRestored, Active
  <2>1. Nest(c) /\ noff[c] = Depth(<<c, x>>)
    BY Zenon DEF IInv, Nesting, Nest
  <2>2. intr[c] \in BOOLEAN
    BY Zenon DEF IInv, Types
  <2>3. Depth(<<c, x>>) > 0 => ~intr[c]
    BY <2>1, Zenon DEF Nest
  <2>4. Depth(<<c, x>>) = 0 => (intr[c] <=> x = "thread" /\ enabled[c])
    BY <2>1, Zenon DEF Nest, Base
  <2>5. QED
    BY <2>2, <2>3, <2>4, Zenon
<1>2. QED
  BY <1>1, Invariance, PTL
=============================================================================
