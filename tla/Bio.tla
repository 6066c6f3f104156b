-------------------------------- MODULE Bio ---------------------------------
(***************************************************************************)
(* The buffer cache of kernel/bio.c with the sleep-locks of sleeplock.c.   *)
(*                                                                         *)
(* A process breads a block, works on the buffer, and brelses it.  What is *)
(* done under bcache.lock or under the spinlock inside a sleep-lock is one *)
(* step; between these steps the processes interleave.  A holder changes   *)
(* the data either with bwrite (WriteThrough) or with log_write, which     *)
(* pins the buffer (Update) until the log writes it home (Install).        *)
(***************************************************************************)
EXTENDS Integers, Sequences, FiniteSets

CONSTANTS Procs, Blocks, Bufs, Vals, InitVal, NoBlock, NoBuf, NoProc

ASSUME BioAssumption ==
  /\ IsFiniteSet(Bufs) /\ IsFiniteSet(Procs)
  /\ InitVal \in Vals /\ NoBlock \notin Blocks /\ NoBuf \notin Bufs
  /\ NoProc \notin Procs

VARIABLES
  disk,                    \* block contents on the device
  blockno, valid, refcnt, data, \* struct buf
  lru,                     \* bcache.head, most recently used first
  holder,                  \* b->lock: its holder, or NoProc
  pinned,                  \* buffers that the log has pinned
  ppc, buf,                \* where a process is, and with which buffer
  last                     \* history: the value last given to a block

bufs == <<blockno, valid, refcnt, data, lru, holder, pinned>>
bvars == <<disk, bufs, ppc, buf, last>>

BInit ==
  /\ disk = [n \in Blocks |-> InitVal]
  /\ blockno = [b \in Bufs |-> NoBlock]
  /\ valid = [b \in Bufs |-> FALSE]
  /\ refcnt = [b \in Bufs |-> 0]
  /\ data = [b \in Bufs |-> InitVal]
  /\ lru \in {s \in [1 .. Cardinality(Bufs) -> Bufs] : \A b \in Bufs : \E i \in DOMAIN s : s[i] = b}
  /\ holder = [b \in Bufs |-> NoProc]
  /\ pinned = {}
  /\ ppc = [p \in Procs |-> "idle"]
  /\ buf = [p \in Procs |-> NoBuf]
  /\ last = disk

Halted == \E p \in Procs : ppc[p] = "panic"
At(p, label) == ~Halted /\ ppc[p] = label
Goto(p, label) == ppc' = [ppc EXCEPT ![p] = label]

-----------------------------------------------------------------------------
(* bread() *)

\* The buffers in which bget() finds the block.
Hit(n) == {b \in Bufs : blockno[b] = n}

\* The least recently used of the buffers that nobody refers to.
Victim ==
  {lru[i] : i \in {j \in DOMAIN lru :
     /\ refcnt[lru[j]] = 0
     /\ \A k \in DOMAIN lru : refcnt[lru[k]] = 0 => k <= j}}

\* Mutant of Recycle: b->valid is not cleared.
RecycleKeepsValid(p, b, n) ==
  /\ blockno' = [blockno EXCEPT ![b] = n]
  /\ refcnt' = [refcnt EXCEPT ![b] = 1]
  /\ buf' = [buf EXCEPT ![p] = b]
  /\ Goto(p, "lock")
  /\ UNCHANGED valid

Recycle(p, b, n) ==
  /\ blockno' = [blockno EXCEPT ![b] = n]
  /\ valid' = [valid EXCEPT ![b] = FALSE]
  /\ refcnt' = [refcnt EXCEPT ![b] = 1]
  /\ buf' = [buf EXCEPT ![p] = b]
  /\ Goto(p, "lock")

\* bget() under bcache.lock: the buffer of the block, or else the victim.
bget(p, n) ==
  /\ At(p, "idle")
  /\ \/ \E b \in Hit(n) :
          /\ refcnt' = [refcnt EXCEPT ![b] = @ + 1]
          /\ buf' = [buf EXCEPT ![p] = b]
          /\ Goto(p, "lock")
          /\ UNCHANGED <<blockno, valid>>
     \/ /\ Hit(n) = {}
        /\ \E b \in Victim : Recycle(p, b, n)
     \/ /\ Hit(n) = {} /\ Victim = {}
        /\ Goto(p, "panic")       \* "bget: no buffers"
        /\ UNCHANGED <<blockno, valid, refcnt, buf>>
  /\ UNCHANGED <<disk, data, lru, holder, pinned, last>>

\* One round of the loop of acquiresleep(&b->lock).
acquiresleep(p) ==
  /\ At(p, "lock") \/ At(p, "woken")
  /\ IF holder[buf[p]] # NoProc
     THEN Goto(p, "asleep") /\ UNCHANGED holder
     ELSE Goto(p, "fill") /\ holder' = [holder EXCEPT ![buf[p]] = p]
  /\ UNCHANGED <<disk, blockno, valid, refcnt, data, lru, pinned, buf, last>>

\* bread() once bget() has returned: virtio_disk_rw(b, 0) if needed.
bread(p) ==
  LET b == buf[p] IN
  /\ At(p, "fill")
  /\ data' = [data EXCEPT ![b] = IF valid[b] THEN @ ELSE disk[blockno[b]]]
  /\ valid' = [valid EXCEPT ![b] = TRUE]
  /\ Goto(p, "use")
  /\ UNCHANGED <<disk, blockno, refcnt, lru, holder, pinned, buf, last>>

-----------------------------------------------------------------------------
(* What the holder of a buffer does with it *)

\* The holder changes the data and calls bwrite().
WriteThrough(p, v) ==
  LET b == buf[p] IN
  /\ At(p, "use") /\ b \notin pinned
  /\ data' = [data EXCEPT ![b] = v]
  /\ disk' = [disk EXCEPT ![blockno[b]] = v]
  /\ last' = [last EXCEPT ![blockno[b]] = v]
  /\ UNCHANGED <<blockno, valid, refcnt, lru, holder, pinned, ppc, buf>>

\* The holder changes the data and calls log_write(), which calls bpin() when
\* the block is new in the log.
Update(p, v) ==
  LET b == buf[p] IN
  /\ At(p, "use")
  /\ data' = [data EXCEPT ![b] = v]
  /\ last' = [last EXCEPT ![blockno[b]] = v]
  /\ refcnt' = [refcnt EXCEPT ![b] = IF b \in pinned THEN @ ELSE @ + 1]
  /\ pinned' = pinned \cup {b}
  /\ UNCHANGED <<disk, blockno, valid, lru, holder, ppc, buf>>

\* install_trans(): bwrite() of the pinned block, then bunpin().
Install(p) ==
  LET b == buf[p] IN
  /\ At(p, "use") /\ b \in pinned
  /\ disk' = [disk EXCEPT ![blockno[b]] = data[b]]
  /\ Goto(p, "unpin")
  /\ UNCHANGED <<bufs, buf, last>>

bunpin(p) ==
  /\ At(p, "unpin")
  /\ refcnt' = [refcnt EXCEPT ![buf[p]] = @ - 1]
  /\ pinned' = pinned \ {buf[p]}
  /\ Goto(p, "use")
  /\ UNCHANGED <<disk, blockno, valid, data, lru, holder, buf, last>>

-----------------------------------------------------------------------------
(* brelse() *)

\* Mutant of releasesleep: the lock is released without wakeup(lk).
releasesleepSilent(p) ==
  /\ At(p, "use")
  /\ holder' = [holder EXCEPT ![buf[p]] = NoProc]
  /\ Goto(p, "put")
  /\ UNCHANGED <<disk, blockno, valid, refcnt, data, lru, pinned, buf, last>>

\* releasesleep(&b->lock), whose wakeup(lk) reaches all that sleep on it.
releasesleep(p) ==
  /\ At(p, "use")
  /\ holder' = [holder EXCEPT ![buf[p]] = NoProc]
  /\ ppc' = [q \in Procs |->
       IF q = p THEN "put"
       ELSE IF ppc[q] = "asleep" /\ buf[q] = buf[p] THEN "woken" ELSE ppc[q]]
  /\ UNCHANGED <<disk, blockno, valid, refcnt, data, lru, pinned, buf, last>>

\* The list with b moved to its head: what was before b moves down.
MoveToFront(b) ==
  LET i == CHOOSE j \in DOMAIN lru : lru[j] = b IN
  [k \in DOMAIN lru |-> IF k = 1 THEN b ELSE IF k <= i THEN lru[k - 1] ELSE lru[k]]

\* The rest of brelse(), under bcache.lock.
brelse(p) ==
  LET b == buf[p] IN
  /\ At(p, "put")
  /\ refcnt' = [refcnt EXCEPT ![b] = @ - 1]
  /\ lru' = IF refcnt[b] = 1 THEN MoveToFront(b) ELSE lru
  /\ buf' = [buf EXCEPT ![p] = NoBuf]
  /\ Goto(p, "idle")
  /\ UNCHANGED <<disk, blockno, valid, data, holder, pinned, last>>

-----------------------------------------------------------------------------
Step(p) == acquiresleep(p) \/ bread(p) \/ bunpin(p) \/ releasesleep(p) \/ brelse(p)

BNext ==
  \E p \in Procs :
    \/ \E n \in Blocks : bget(p, n)
    \/ \E v \in Vals : WriteThrough(p, v) \/ Update(p, v)
    \/ Install(p)
    \/ Step(p)

BSpec == BInit /\ [][BNext]_bvars

-----------------------------------------------------------------------------
(* Properties *)

\* Process p is between bread() and brelse().
Holds(p) == ppc[p] \in {"use", "unpin"}

\* "Only one process at a time can use a buffer", and what bread() returns is
\* what was last written to the block, through the cache or the log.
ReadsLast ==
  \A p \in Procs :
    Holds(p) => /\ holder[buf[p]] = p
                /\ data[buf[p]] = last[blockno[buf[p]]]

\* A process that sleeps in acquiresleep() is woken when the lock is released.
SleepersMustWait ==
  \A p \in Procs : ppc[p] = "asleep" => holder[buf[p]] # NoProc
=============================================================================
