-------------------------------- MODULE Pipe --------------------------------
(***************************************************************************)
(* One pipe of kernel/pipe.c, whose ends are shared by several processes,  *)
(* as they are after fork().                                               *)
(*                                                                         *)
(* pi->lock is held through the loops of pipewrite() and piperead(); each  *)
(* byte is a step of its own, because kill() does not take pi->lock and    *)
(* can come between two bytes.  nread and nwrite are unsigned and wrap     *)
(* around at Uint.  A process inside a call keeps its reference to the     *)
(* file, so pipeclose() runs when the last holder of an end has closed it. *)
(***************************************************************************)
EXTENDS Integers, FiniteSets

CONSTANTS Readers, Writers,  \* holders of the two ends at the beginning
          Vals, InitVal, NoProc,
          PIPESIZE,
          Uint,              \* 2^32 in the code
          MaxCount,          \* largest n of a read() or write()
          Killable           \* processes that may be killed

ASSUME PipeAssumption ==
  /\ IsFiniteSet(Readers \cup Writers) /\ NoProc \notin Readers \cup Writers
  /\ Readers \cap Writers = {}
  /\ InitVal \in Vals
  /\ PIPESIZE \in Nat \ {0} /\ Uint \in Nat /\ Uint % PIPESIZE = 0
  /\ Uint > PIPESIZE

Procs == Readers \cup Writers

VARIABLES
  data, nread, nwrite, readopen, writeopen,  \* struct pipe
  lock,                 \* holder of pi->lock
  freed,                \* kfree(pi)
  ends,                 \* processes that have not closed their end
  pc, todo,             \* where a process is, and n - i
  killed,
  out                   \* the byte copied out last

pipe == <<data, nread, nwrite, readopen, writeopen>>
vars == <<pipe, lock, freed, ends, pc, todo, killed, out>>

\* pipealloc() and fork()
Init ==
  /\ data = [k \in 0 .. PIPESIZE - 1 |-> InitVal]
  /\ nread = 0 /\ nwrite = 0
  /\ readopen = TRUE /\ writeopen = TRUE
  /\ lock = NoProc
  /\ freed = FALSE
  /\ ends = Procs
  /\ pc = [p \in Procs |-> "user"]
  /\ todo = [p \in Procs |-> 0]
  /\ killed = {}
  /\ out = InitVal

Empty == nread = nwrite

\* Mutant of Full: the sum is not taken modulo Uint.
FullNoWrap == nwrite = nread + PIPESIZE

Full == nwrite = (nread + PIPESIZE) % Uint

Goto(p, label) == pc' = [pc EXCEPT ![p] = label]

\* wakeup(c), where p goes on at label.  A woken process has to take pi->lock.
WakeupGoto(c, p, label) ==
  pc' = [q \in Procs |-> IF q = p THEN label
                         ELSE IF pc[q] = c THEN "acquire" ELSE pc[q]]

-----------------------------------------------------------------------------
\* read() or write() of n bytes.
Call(p, n) ==
  /\ pc[p] = "user" /\ p \in ends /\ p \notin killed
  /\ todo' = [todo EXCEPT ![p] = n]
  /\ Goto(p, "acquire")
  /\ UNCHANGED <<pipe, lock, freed, ends, killed, out>>

\* acquire(&pi->lock), also at the end of sleep().
Acquire(p) ==
  /\ pc[p] = "acquire" /\ lock = NoProc
  /\ lock' = p
  /\ Goto(p, IF p \in Readers THEN "await" ELSE "write")
  /\ UNCHANGED <<pipe, freed, ends, todo, killed, out>>

(* pipewrite() *)

\* if(pi->readopen == 0 || killed(pr)): return -1
WriteFail(p) ==
  /\ pc[p] = "write" /\ todo[p] > 0
  /\ ~readopen \/ p \in killed
  /\ lock' = NoProc
  /\ todo' = [todo EXCEPT ![p] = 0]
  /\ Goto(p, "user")
  /\ UNCHANGED <<pipe, freed, ends, killed, out>>

\* Mutant of WriteFull: sleep() without a wakeup of the readers.
WriteFullSilent(p) ==
  /\ pc[p] = "write" /\ todo[p] > 0
  /\ readopen /\ p \notin killed /\ Full
  /\ lock' = NoProc
  /\ Goto(p, "sleep_nwrite")
  /\ UNCHANGED <<pipe, freed, ends, todo, killed, out>>

\* wakeup(&pi->nread); sleep(&pi->nwrite, &pi->lock)
WriteFull(p) ==
  /\ pc[p] = "write" /\ todo[p] > 0
  /\ readopen /\ p \notin killed /\ Full
  /\ lock' = NoProc
  /\ WakeupGoto("sleep_nread", p, "sleep_nwrite")
  /\ UNCHANGED <<pipe, freed, ends, todo, killed, out>>

\* pi->data[pi->nwrite++ % PIPESIZE] = ch
WriteByte(p, ch) ==
  /\ pc[p] = "write" /\ todo[p] > 0
  /\ readopen /\ p \notin killed /\ ~Full
  /\ data' = [data EXCEPT ![nwrite % PIPESIZE] = ch]
  /\ nwrite' = (nwrite + 1) % Uint
  /\ todo' = [todo EXCEPT ![p] = @ - 1]
  /\ UNCHANGED <<nread, readopen, writeopen, lock, freed, ends, pc, killed, out>>

\* All bytes are written, or copyin() fails: wakeup(&pi->nread).
WriteEnd(p, fault) ==
  /\ pc[p] = "write"
  /\ IF fault THEN todo[p] > 0 /\ readopen /\ p \notin killed /\ ~Full
              ELSE todo[p] = 0
  /\ lock' = NoProc
  /\ todo' = [todo EXCEPT ![p] = 0]
  /\ WakeupGoto("sleep_nread", p, "user")
  /\ UNCHANGED <<pipe, freed, ends, killed, out>>

-----------------------------------------------------------------------------
(* piperead() *)

\* One round of the loop that waits for data.
Await(p) ==
  /\ pc[p] = "await"
  /\ \/ /\ ~(Empty /\ writeopen)
        /\ Goto(p, "read") /\ UNCHANGED <<lock, todo>>
     \/ /\ Empty /\ writeopen /\ p \in killed
        /\ Goto(p, "user") /\ lock' = NoProc
        /\ todo' = [todo EXCEPT ![p] = 0]
     \/ /\ Empty /\ writeopen /\ p \notin killed
        /\ Goto(p, "sleep_nread") /\ lock' = NoProc
        /\ UNCHANGED todo
  /\ UNCHANGED <<pipe, freed, ends, killed, out>>

ReadByte(p) ==
  /\ pc[p] = "read" /\ todo[p] > 0 /\ ~Empty
  /\ out' = data[nread % PIPESIZE]
  /\ nread' = (nread + 1) % Uint
  /\ todo' = [todo EXCEPT ![p] = @ - 1]
  /\ UNCHANGED <<data, nwrite, readopen, writeopen, lock, freed, ends, pc, killed>>

\* Enough is read, the pipe is empty, or copyout() fails: wakeup(&pi->nwrite).
ReadEnd(p, fault) ==
  /\ pc[p] = "read"
  /\ IF fault THEN todo[p] > 0 /\ ~Empty ELSE todo[p] = 0 \/ Empty
  /\ lock' = NoProc
  /\ todo' = [todo EXCEPT ![p] = 0]
  /\ WakeupGoto("sleep_nwrite", p, "user")
  /\ UNCHANGED <<pipe, freed, ends, killed, out>>

-----------------------------------------------------------------------------
(* pipeclose() *)

\* fileclose(): the last holder of an end calls pipeclose().
Close(p) ==
  /\ pc[p] = "user" /\ p \in ends
  /\ ends' = ends \ {p}
  /\ Goto(p, IF ends \cap (IF p \in Readers THEN Readers ELSE Writers) = {p}
             THEN "close" ELSE "gone")
  /\ UNCHANGED <<pipe, lock, freed, todo, killed, out>>

\* Mutant of pipeclose: the pipe is freed with its first end.
pipecloseEither(p) ==
  /\ pc[p] = "close" /\ lock = NoProc
  /\ readopen' = (readopen /\ p \notin Readers)
  /\ writeopen' = (writeopen /\ p \notin Writers)
  /\ WakeupGoto(IF p \in Writers THEN "sleep_nread" ELSE "sleep_nwrite", p, "gone")
  /\ freed' = TRUE
  /\ UNCHANGED <<data, nread, nwrite, lock, ends, todo, killed, out>>

pipeclose(p) ==
  /\ pc[p] = "close" /\ lock = NoProc
  /\ readopen' = (readopen /\ p \notin Readers)
  /\ writeopen' = (writeopen /\ p \notin Writers)
  /\ WakeupGoto(IF p \in Writers THEN "sleep_nread" ELSE "sleep_nwrite", p, "gone")
  /\ freed' = (~readopen' /\ ~writeopen')
  /\ UNCHANGED <<data, nread, nwrite, lock, ends, todo, killed, out>>

\* kkill(): a sleeping process is made to run.
Kill(p) ==
  /\ p \in Killable \ killed /\ pc[p] # "gone"
  /\ killed' = killed \cup {p}
  /\ pc' = [pc EXCEPT ![p] = IF @ \in {"sleep_nread", "sleep_nwrite"} THEN "acquire" ELSE @]
  /\ UNCHANGED <<pipe, lock, freed, ends, todo, out>>

-----------------------------------------------------------------------------
\* Steps inside a system call.
Kernel(p) ==
  \/ Acquire(p) \/ pipeclose(p)
  \/ WriteFail(p) \/ WriteFull(p) \/ WriteEnd(p, TRUE) \/ WriteEnd(p, FALSE)
  \/ \E ch \in Vals : WriteByte(p, ch)
  \/ Await(p) \/ ReadByte(p) \/ ReadEnd(p, TRUE) \/ ReadEnd(p, FALSE)

Next ==
  \E p \in Procs :
    \/ \E n \in 1 .. MaxCount : Call(p, n)
    \/ Close(p) \/ Kill(p) \/ Kernel(p)

Spec == Init /\ [][Next]_vars

\* A hart that spins in acquire() gets the lock if it is free again and again.
FairSpec == Spec /\ \A p \in Procs : SF_vars(Kernel(p))

-----------------------------------------------------------------------------
(* Properties *)

Used == (nwrite - nread + Uint) % Uint

\* The bytes in the buffer, oldest first.
Queue == [k \in 1 .. Used |-> data[(nread + k - 1) % PIPESIZE]]

Abstract == INSTANCE Fifo WITH Capacity <- PIPESIZE, queue <- Queue, out <- out

\* The ring buffer implements a bounded queue, across the wraparound of nread
\* and nwrite: bytes are neither lost, nor repeated, nor overwritten.
IsFifo == Abstract!Spec

\* After kfree(pi) no process is inside the pipe, or can come back to it.
NotUsedAfterFree ==
  freed => ends = {} /\ lock = NoProc /\ \A p \in Procs : pc[p] = "gone"

\* A reader that could return data or end of file is not left asleep, nor is a
\* writer that has room or has lost its last reader.
Progress ==
  \A p \in Procs :
    /\ (pc[p] = "sleep_nread" /\ ~(Empty /\ writeopen)) ~> pc[p] # "sleep_nread"
    /\ (pc[p] = "sleep_nwrite" /\ ~(Full /\ readopen)) ~> pc[p] # "sleep_nwrite"
=============================================================================
