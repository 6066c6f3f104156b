------------------------------- MODULE Virtio -------------------------------
(***************************************************************************)
(* The disk driver of kernel/virtio_disk.c and the device it talks to.     *)
(*                                                                         *)
(* virtio_disk_rw() runs in processes, virtio_disk_intr() in the handler   *)
(* of the device's interrupt, and the device beside both of them: it       *)
(* fetches requests from the avail ring when their index says so, carries  *)
(* them out in any order, and reports them in the used ring.  lock is      *)
(* vdisk_lock.  A process works on a buffer that it has locked, for a      *)
(* block that no other buffer holds (module Bio): the buffer, its block    *)
(* and the process have one name, and of the data we only keep whether the *)
(* device has transferred them.                                            *)
(***************************************************************************)
EXTENDS Integers, FiniteSets, FiniteSetsExt

CONSTANTS Procs, Nobody, Handler,
          NUM,        \* descriptors, and entries of each ring
          CHAIN,      \* descriptors of a request: 3 in the code
          Wrap        \* the ring indices are modulo this: 2^16 in the code

ASSUME VirtioAssumption ==
  /\ Nobody \notin Procs /\ Handler \notin Procs /\ Nobody # Handler
  /\ NUM \in Nat /\ CHAIN \in 2 .. NUM
  /\ Wrap \in Nat \ {0} /\ Wrap % NUM = 0

Desc == 0 .. NUM - 1

VARIABLES
  free, chain, req, info, status, \* descriptors, ops[], info[].b and .status
  avail, avail_idx, used, used_end, \* the rings; used_end is used->idx
  seen, inflight, irq,          \* the device
  used_idx, lock,               \* the driver
  busy,                         \* b->disk
  moved,                        \* the device has transferred the block
  pc, head                      \* virtio_disk_rw() of each process

desc == <<free, chain, req, info>>
dev == <<seen, inflight, used, used_end>>
vars == <<dev, irq, desc, status, avail, avail_idx, used_idx, lock, busy, moved,
          pc, head>>

Init ==
  /\ free = Desc
  /\ chain = [i \in Desc |-> {}]
  /\ req = [i \in Desc |-> Nobody] /\ info = [i \in Desc |-> Nobody]
  /\ status = [i \in Desc |-> 0]
  /\ avail = [i \in Desc |-> 0] /\ avail_idx = 0
  /\ used = [i \in Desc |-> 0] /\ used_end = 0 /\ used_idx = 0
  /\ seen = 0 /\ inflight = {} /\ irq = FALSE
  /\ lock = Nobody
  /\ busy = [p \in Procs |-> FALSE] /\ moved = [p \in Procs |-> FALSE]
  /\ pc = [p \in Procs |-> "idle"] /\ head = [p \in Procs |-> 0]

Goto(p, label) == pc' = [pc EXCEPT ![p] = label]

\* wakeup(&disk.free[0])
WakeFree(f) == [q \in Procs |-> IF f[q] = "sleep_free" THEN "again" ELSE f[q]]

-----------------------------------------------------------------------------
(* virtio_disk_rw() *)

\* bread() or bwrite()
Request(p) ==
  /\ pc[p] = "idle"
  /\ moved' = [moved EXCEPT ![p] = FALSE]
  /\ Goto(p, "lock")
  /\ UNCHANGED <<dev, irq, desc, status, avail, avail_idx, used_idx, lock, busy,
                 head>>

\* acquire(&disk.vdisk_lock), at the beginning and at the end of sleep().
Lock(p) ==
  /\ pc[p] \in {"lock", "again", "woken"} /\ lock = Nobody
  /\ lock' = p
  /\ Goto(p, IF pc[p] = "woken" THEN "check" ELSE "alloc")
  /\ UNCHANGED <<dev, irq, desc, status, avail, avail_idx, used_idx, busy, moved,
                 head>>

\* What alloc_desc() finds in so many calls: the lowest ones that are free.
Lowest(S, k) == {T \in kSubset(k, S) : \A i \in T, j \in S \ T : i < j}

\* Mutant of alloc: the entry goes to the slot after the published index.
allocWrongSlot(p) ==
  /\ pc[p] = "alloc"
  /\ \E T \in Lowest(free, CHAIN) : \E h \in T :
     /\ \A i \in T : h <= i
     /\ free' = free \ T
     /\ chain' = [chain EXCEPT ![h] = T]
     /\ req' = [req EXCEPT ![h] = p]
     /\ status' = [status EXCEPT ![h] = 255]
     /\ info' = [info EXCEPT ![h] = p]
     /\ avail' = [avail EXCEPT ![(avail_idx + 1) % NUM] = h]
     /\ head' = [head EXCEPT ![p] = h]
  /\ busy' = [busy EXCEPT ![p] = TRUE]
  /\ Goto(p, "publish")
  /\ UNCHANGED <<dev, irq, avail_idx, used_idx, lock, moved>>

\* alloc3_desc(), the descriptors and the entry of the avail ring.
alloc(p) ==
  /\ pc[p] = "alloc"
  /\ \E T \in Lowest(free, CHAIN) : \E h \in T :
     /\ \A i \in T : h <= i
     /\ free' = free \ T
     /\ chain' = [chain EXCEPT ![h] = T]
     /\ req' = [req EXCEPT ![h] = p]
     /\ status' = [status EXCEPT ![h] = 255]
     /\ info' = [info EXCEPT ![h] = p]
     /\ avail' = [avail EXCEPT ![avail_idx % NUM] = h]
     /\ head' = [head EXCEPT ![p] = h]
  /\ busy' = [busy EXCEPT ![p] = TRUE]
  /\ Goto(p, "publish")
  /\ UNCHANGED <<dev, irq, avail_idx, used_idx, lock, moved>>

\* alloc3_desc() fails.  The descriptors it had got are given back one by one
\* by free_desc(), whose wakeup() rouses the others that wait for some.
allocFails(p) ==
  /\ pc[p] = "alloc"
  /\ Cardinality(free) < CHAIN
  /\ lock' = Nobody
  /\ pc' = [(IF free = {} THEN pc ELSE WakeFree(pc))
              EXCEPT ![p] = "sleep_free"]
  /\ UNCHANGED <<dev, irq, desc, status, avail, avail_idx, used_idx, busy, moved,
                 head>>

\* avail->idx += 1, and the device is notified.
Publish(p) ==
  /\ pc[p] = "publish"
  /\ avail_idx' = (avail_idx + 1) % Wrap
  /\ Goto(p, "check")
  /\ UNCHANGED <<dev, irq, desc, status, avail, used_idx, lock, busy, moved, head>>

\* while(b->disk == 1) sleep(b, &disk.vdisk_lock)
Check(p) ==
  /\ pc[p] = "check" /\ busy[p]
  /\ lock' = Nobody
  /\ Goto(p, "sleep_b")
  /\ UNCHANGED <<dev, irq, desc, status, avail, avail_idx, used_idx, busy, moved,
                 head>>

\* Mutant of Finish: b->disk is not looked at.
FinishEarly(p) ==
  /\ pc[p] = "check"
  /\ info' = [info EXCEPT ![head[p]] = Nobody]
  /\ free' = free \cup chain[head[p]]
  /\ chain' = [chain EXCEPT ![head[p]] = {}]
  /\ req' = [req EXCEPT ![head[p]] = Nobody]
  /\ lock' = Nobody
  /\ pc' = [WakeFree(pc) EXCEPT ![p] = "done"]
  /\ UNCHANGED <<dev, irq, status, avail, avail_idx, used_idx, busy, moved, head>>

\* free_chain() and release(&disk.vdisk_lock): virtio_disk_rw() returns.
Finish(p) ==
  /\ pc[p] = "check" /\ ~busy[p]
  /\ info' = [info EXCEPT ![head[p]] = Nobody]
  /\ free' = free \cup chain[head[p]]
  /\ chain' = [chain EXCEPT ![head[p]] = {}]
  /\ req' = [req EXCEPT ![head[p]] = Nobody]
  /\ lock' = Nobody
  /\ pc' = [WakeFree(pc) EXCEPT ![p] = "done"]
  /\ UNCHANGED <<dev, irq, status, avail, avail_idx, used_idx, busy, moved, head>>

\* The caller goes on.
Return(p) ==
  /\ pc[p] = "done"
  /\ head' = [head EXCEPT ![p] = 0]
  /\ Goto(p, "idle")
  /\ UNCHANGED <<dev, irq, desc, status, avail, avail_idx, used_idx, lock, busy,
                 moved>>

-----------------------------------------------------------------------------
(* virtio_disk_intr() *)

\* acquire(&disk.vdisk_lock), and the interrupt is acknowledged.
IntrEnter ==
  /\ irq /\ lock = Nobody
  /\ lock' = Handler
  /\ irq' = FALSE
  /\ UNCHANGED <<dev, desc, status, avail, avail_idx, used_idx, busy, moved, pc,
                 head>>

\* Mutant of IntrLoop: the handler stops after one completion.
IntrLoopOne ==
  LET id == used[used_idx % NUM] b == info[id] IN
  /\ lock = Handler /\ used_idx # used_end
  /\ busy' = [busy EXCEPT ![b] = FALSE]
  /\ pc' = [pc EXCEPT ![b] = IF @ = "sleep_b" THEN "woken" ELSE @]
  /\ used_idx' = (used_idx + 1) % Wrap
  /\ lock' = Nobody
  /\ UNCHANGED <<dev, irq, desc, status, avail, avail_idx, moved, head>>

\* One iteration of the loop over the used ring.
IntrLoop ==
  LET id == used[used_idx % NUM] b == info[id] IN
  /\ lock = Handler /\ used_idx # used_end
  /\ busy' = [busy EXCEPT ![b] = FALSE]
  /\ pc' = [pc EXCEPT ![b] = IF @ = "sleep_b" THEN "woken" ELSE @]
  /\ used_idx' = (used_idx + 1) % Wrap
  /\ UNCHANGED <<dev, irq, desc, status, avail, avail_idx, lock, moved, head>>

IntrExit ==
  /\ lock = Handler /\ used_idx = used_end
  /\ lock' = Nobody
  /\ UNCHANGED <<dev, irq, desc, status, avail, avail_idx, used_idx, busy, moved,
                 pc, head>>

-----------------------------------------------------------------------------
(* The device, as virtio_disk.c describes it *)

\* It takes the next chain of the avail ring.
Fetch ==
  /\ seen # avail_idx
  /\ inflight' = inflight \cup {avail[seen % NUM]}
  /\ seen' = (seen + 1) % Wrap
  /\ UNCHANGED <<used, used_end, irq, desc, status, avail, avail_idx,
                 used_idx, lock, busy, moved, pc, head>>

\* It transfers the block, writes the status and an entry of the used ring, and
\* raises the interrupt.
Complete(h) ==
  /\ h \in inflight
  /\ inflight' = inflight \ {h}
  /\ moved' = [moved EXCEPT ![req[h]] = TRUE]
  /\ status' = [status EXCEPT ![h] = 0]
  /\ used' = [used EXCEPT ![used_end % NUM] = h]
  /\ used_end' = (used_end + 1) % Wrap
  /\ irq' = TRUE
  /\ UNCHANGED <<seen, desc, avail, avail_idx, used_idx, lock, busy, pc, head>>

-----------------------------------------------------------------------------
Driver(p) ==
  \/ Lock(p) \/ alloc(p) \/ allocFails(p) \/ Publish(p) \/ Check(p)
  \/ Finish(p) \/ Return(p)
Intr == IntrEnter \/ IntrLoop \/ IntrExit
Device == Fetch \/ \E h \in Desc : Complete(h)

Next ==
  \/ Intr \/ Device
  \/ \E p \in Procs : Request(p) \/ Driver(p)

Spec == Init /\ [][Next]_vars

-----------------------------------------------------------------------------
(* Properties *)

\* Requests of which the descriptors are taken.
Pending == {p \in Procs : pc[p] \in {"publish", "check", "sleep_b", "woken"}}

\* A descriptor is free or belongs to one pending request, which has CHAIN of
\* them.  The device works only on chains that still belong to the request that
\* put them there, and an entry of the used ring that virtio_disk_intr() has not
\* looked at names a request that waits for it and that was successful: chains
\* are not given away before their completion is seen.
DescriptorsOwned ==
  /\ free = Desc \ UNION {chain[head[p]] : p \in Pending}
  /\ \A p \in Pending : Cardinality(chain[head[p]]) = CHAIN
  /\ \A p, q \in Pending : p # q => chain[head[p]] \cap chain[head[q]] = {}
  /\ \A h \in inflight :
       \E p \in Pending : head[p] = h /\ req[h] = p /\ info[h] = p /\ busy[p]
  /\ \A k \in 0 .. ((used_end - used_idx + Wrap) % Wrap) - 1 :
       LET id == used[(used_idx + k) % NUM] IN
       status[id] = 0 /\ \E p \in Pending : info[id] = p /\ head[p] = id /\ busy[p]

\* When virtio_disk_rw() returns, the block has been transferred.
Transferred == \A p \in Procs : pc[p] = "done" => moved[p]

\* No completion is overlooked: when the handler is not at work, an entry that it
\* has not looked at comes with an interrupt that has still to be taken, although
\* the device may add entries while an earlier interrupt is being handled.  And
\* nobody sleeps for what has already happened: a process waits for its buffer
\* only while the disk has it, and for descriptors only while there are too few.
NoLostWakeup ==
  /\ used_idx # used_end => irq \/ lock = Handler
  /\ \A p \in Procs :
       /\ pc[p] = "sleep_b" => busy[p]
       /\ pc[p] = "sleep_free" => Cardinality(free) < CHAIN
=============================================================================
