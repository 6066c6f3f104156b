------------------------------ MODULE FileData ------------------------------
(***************************************************************************)
(* The contents of files: the free-block bitmap (balloc, bfree), the block  *)
(* map of an inode with its indirect block (bmap, itrunc), readi() and      *)
(* writei(), and the loop of filewrite() that cuts a write into             *)
(* transactions.  Processes share open files, so they share offsets.  A     *)
(* turn of the copy loop is one step; a crash may come between any two.     *)
(*                                                                         *)
(* The k-th byte written to file f is always Byte(f, k), so the contents    *)
(* of a block say which file and which offset it belongs to.  The log is    *)
(* what AtomicDisk promises: the operations of a group commit together.     *)
(***************************************************************************)
EXTENDS Integers, Sequences, FiniteSets, FiniteSetsExt, Functions

CONSTANTS Procs, NoProc,
          FileOf,       \* open files are 1..Len(FileOf): the inode of each
          NBLOCKS,      \* data blocks are 1..NBLOCKS
          BSIZE,        \* bytes in a block; also addresses in an indirect block
          NDIRECT,
          MAXOPBLOCKS,  \* blocks one operation may write to the log
          Length        \* open file -> the n of a write() or read()

Fds == DOMAIN FileOf
Files == Range(FileOf)
Blocks == 1 .. NBLOCKS
NINDIRECT == BSIZE
MAXFILE == NDIRECT + NINDIRECT

VARIABLES
  disk,        \* [bitmap, node, data], as the buffer cache shows it
  committed,   \* the same, as a crash leaves it
  ip,          \* file -> in-core inode [size, addrs]
  lock,        \* file -> holder of the inode's sleep-lock
  off,         \* open file -> f->off
  outstanding, \* processes between begin_op() and end_op()
  proc         \* process -> its write()

dvars == <<disk, committed, ip, lock, off, outstanding, proc>>

Byte(f, k) == -(100 * f + k)
Zeroes == [k \in 0 .. BSIZE - 1 |-> 0]
Junk == [k \in 0 .. BSIZE - 1 |-> 1]
Empty == [size |-> 0, addrs |-> [b \in 0 .. NDIRECT |-> 0]]
Idle == [pc |-> "user", fd |-> 0, n |-> 0, i |-> 0, n1 |-> 0, tot |-> 0]

NewDisk == [bitmap |-> {}, node |-> [f \in Files |-> Empty], data |-> [b \in Blocks |-> Junk]]

DInit ==
  /\ disk = NewDisk /\ committed = NewDisk
  /\ ip = NewDisk.node /\ lock = [f \in Files |-> NoProc]
  /\ off = [d \in Fds |-> 0]
  /\ outstanding = {} /\ proc = [p \in Procs |-> Idle]

-----------------------------------------------------------------------------
\* An allocation works on [disk, ip, addr]: the disk, an in-core inode, and
\* the block it has come to (0 if there is none).

\* Mutant of balloc: the block is not zeroed.
BallocDirty(m) ==
  LET free == Blocks \ m.disk.bitmap IN
  IF free = {} THEN [m EXCEPT !.addr = 0]
  ELSE [m EXCEPT !.disk.bitmap = @ \cup {Min(free)}, !.addr = Min(free)]

\* The first free block, zeroed.
balloc(m) ==
  LET free == Blocks \ m.disk.bitmap IN
  IF free = {} THEN [m EXCEPT !.addr = 0]
  ELSE [m EXCEPT !.disk.bitmap = @ \cup {Min(free)}, !.addr = Min(free),
                 !.disk.data[Min(free)] = Zeroes]

\* The block that addrs[k] names, allocated if need be.
Direct(m, k) ==
  IF m.ip.addrs[k] # 0 THEN [m EXCEPT !.addr = m.ip.addrs[k]]
  ELSE LET a == balloc(m) IN [a EXCEPT !.ip.addrs[k] = a.addr]

bmap(m, bn) ==
  IF bn < NDIRECT THEN Direct(m, bn)
  ELSE LET ind == Direct(m, NDIRECT) IN
       IF ind.addr = 0 THEN ind
       ELSE LET k == bn - NDIRECT
                at == ind.disk.data[ind.addr][k] IN
            IF at # 0 THEN [ind EXCEPT !.addr = at]
            ELSE LET a == balloc(ind) IN
                 IF a.addr = 0 THEN a
                 ELSE [a EXCEPT !.disk.data[ind.addr][k] = a.addr]

\* The blocks that an inode names.
Owned(d, node) ==
  LET ind == node.addrs[NDIRECT] IN
  (Range(node.addrs) \cup (IF ind = 0 THEN {} ELSE Range(d.data[ind]))) \ {0}

\* A free block keeps its contents, which only balloc() sees: junk.
bfree(d, bs) ==
  [d EXCEPT !.bitmap = @ \ bs, !.data = [b \in Blocks |-> IF b \in bs THEN Junk ELSE @[b]]]

\* bfree() of every block, and iupdate().
itrunc(d, f) == [bfree(d, Owned(d, ip[f])) EXCEPT !.node[f] = Empty]

\* The k-th byte of a file whose inode is node; 0 where there is no block.
ByteAt(d, node, k) ==
  LET bn == k \div BSIZE
      ind == node.addrs[NDIRECT]
      b == IF bn < NDIRECT THEN node.addrs[bn]
           ELSE IF ind = 0 THEN 0 ELSE d.data[ind][bn - NDIRECT] IN
  IF b = 0 THEN 0 ELSE d.data[b][k % BSIZE]

-----------------------------------------------------------------------------
\* filewrite(): n bytes, in transactions of at most max bytes.

sys_write(p) ==
  /\ proc[p].pc = "user"
  /\ \E d \in Fds :
       proc' = [proc EXCEPT ![p] = [Idle EXCEPT !.pc = "begin_op", !.fd = d, !.n = Length[d]]]
  /\ UNCHANGED <<disk, committed, ip, lock, off, outstanding>>

begin_op(p) ==
  /\ proc[p].pc = "begin_op"
  /\ outstanding' = outstanding \cup {p}
  /\ proc' = [proc EXCEPT ![p].pc = "ilock"]
  /\ UNCHANGED <<disk, committed, ip, lock, off>>

max == ((MAXOPBLOCKS - 1 - 1 - 2) \div 2) * BSIZE

\* ilock(), and the tests at the start of writei().
writei(p) ==
  LET r == proc[p]
      f == FileOf[r.fd]
      n1 == Min({r.n - r.i, max})
      bad == off[r.fd] > ip[f].size \/ off[r.fd] + n1 > MAXFILE * BSIZE IN
  /\ r.pc = "ilock" /\ lock[f] = NoProc
  /\ lock' = [lock EXCEPT ![f] = p]
  /\ proc' = [proc EXCEPT ![p] = [@ EXCEPT !.pc = IF bad THEN "written" ELSE "copy",
                                           !.n1 = n1, !.tot = IF bad THEN -1 ELSE 0]]
  /\ UNCHANGED <<disk, committed, ip, off, outstanding>>

\* One turn of the loop.  It ends when there is no block, when either_copyin()
\* fails, or when all is written.  What a failing either_copyin() has already
\* put into the buffer is not logged; it is the byte that is there, or beyond
\* the end of the file.
copy(p) ==
  LET r == proc[p]
      f == FileOf[r.fd]
      at == off[r.fd] + r.tot
      m == bmap([disk |-> disk, ip |-> ip[f], addr |-> 0], at \div BSIZE)
      o == at % BSIZE
      len == Min({r.n1 - r.tot, BSIZE - o}) IN
  /\ r.pc = "copy"
  /\ ip' = [ip EXCEPT ![f] = m.ip]
  /\ \/ /\ disk' = m.disk
        /\ proc' = [proc EXCEPT ![p] = [r EXCEPT !.pc = "written"]]
     \/ /\ m.addr # 0
        /\ disk' = [m.disk EXCEPT !.data[m.addr] =
                     [k \in DOMAIN @ |-> IF k \in o .. o + len - 1 THEN Byte(f, at - o + k) ELSE @[k]]]
        /\ proc' = [proc EXCEPT ![p] =
                     [r EXCEPT !.pc = IF r.tot + len = r.n1 THEN "written" ELSE "copy",
                               !.tot = @ + len]]
  /\ UNCHANGED <<committed, lock, off, outstanding>>

\* Mutant of iupdate: the inode is written only if the file has grown.
IupdateIfGrown(f, size) == IF size > ip[f].size THEN [disk EXCEPT !.node[f] = [ip[f] EXCEPT !.size = size]] ELSE disk

iupdate(f, size) == [disk EXCEPT !.node[f] = [ip[f] EXCEPT !.size = size]]

\* The end of writei(): the size, and the inode on disk in any case.  f->off
\* moves by what was written, and the inode is unlocked.
written(p) ==
  LET r == proc[p]
      f == FileOf[r.fd]
      size == Max({ip[f].size, off[r.fd] + r.tot}) IN
  /\ r.pc = "written"
  /\ IF r.tot < 0 THEN UNCHANGED <<disk, ip, off>>
     ELSE /\ disk' = iupdate(f, size)
          /\ ip' = [ip EXCEPT ![f].size = size]
          /\ off' = [off EXCEPT ![r.fd] = @ + r.tot]
  /\ lock' = [lock EXCEPT ![f] = NoProc]
  /\ proc' = [proc EXCEPT ![p] = [@ EXCEPT !.pc = "end_op"]]
  /\ UNCHANGED <<committed, outstanding>>

\* The last operation of the group commits; a short write ends the loop.
end_op(p) ==
  LET r == proc[p]
      done == r.tot # r.n1 \/ r.i + r.tot = r.n IN
  /\ r.pc = "end_op"
  /\ outstanding' = outstanding \ {p}
  /\ committed' = IF outstanding = {p} THEN disk ELSE committed
  /\ proc' = [proc EXCEPT ![p] =
               IF done THEN Idle
               ELSE [Idle EXCEPT !.pc = "begin_op", !.fd = r.fd, !.n = r.n, !.i = r.i + r.tot]]
  /\ UNCHANGED <<disk, ip, lock, off>>

-----------------------------------------------------------------------------
\* fileread() and readi(): not in a transaction, so bmap() must not allocate.
fileread(p) ==
  /\ proc[p].pc = "user"
  /\ \E d \in Fds :
       /\ lock[FileOf[d]] = NoProc
       /\ off' = [off EXCEPT ![d] = Max({@, Min({@ + Length[d], ip[FileOf[d]].size})})]
  /\ UNCHANGED <<disk, committed, ip, lock, outstanding, proc>>

\* sys_open() with O_TRUNC: a new open file, at offset 0, of an emptied inode.
\* It is an operation of its own that only waits for the inode.
sys_open(p) ==
  /\ proc[p].pc = "user"
  /\ \E d \in Fds :
       LET f == FileOf[d] IN
       /\ lock[f] = NoProc
       /\ \A q \in Procs : proc[q].fd # d
       /\ disk' = itrunc(disk, f)
       /\ ip' = [ip EXCEPT ![f] = Empty]
       /\ off' = [off EXCEPT ![d] = 0]
       /\ committed' = IF outstanding = {} THEN disk' ELSE committed
  /\ UNCHANGED <<lock, outstanding, proc>>

\* The machine stops, and starts from what was committed with all files closed.
DCrash ==
  /\ disk' = committed /\ ip' = committed.node
  /\ lock' = [f \in Files |-> NoProc] /\ off' = [d \in Fds |-> 0]
  /\ outstanding' = {} /\ proc' = [p \in Procs |-> Idle]
  /\ UNCHANGED committed

DNext ==
  \/ \E p \in Procs :
       \/ sys_write(p) \/ begin_op(p) \/ writei(p) \/ copy(p) \/ written(p)
       \/ end_op(p) \/ fileread(p) \/ sys_open(p)
  \/ DCrash

DSpec == DInit /\ [][DNext]_dvars

-----------------------------------------------------------------------------
\* Whatever operation fails half-way for lack of blocks, and wherever the
\* machine stops, the disk that is left is sound: the bitmap has exactly the
\* blocks that the inodes name, and no block is named twice.
BitmapExact ==
  LET names(f) == {<<f, k>> : k \in {x \in 0 .. NDIRECT : committed.node[f].addrs[x] # 0}}
      ind(f) == committed.node[f].addrs[NDIRECT]
      inner(f) == IF ind(f) = 0 THEN {} ELSE {k \in 0 .. NINDIRECT - 1 : committed.data[ind(f)][k] # 0}
      count == FoldSet(LAMBDA f, n : n + Cardinality(names(f)) + Cardinality(inner(f)), 0, Files) IN
  /\ committed.bitmap = UNION {Owned(committed, committed.node[f]) : f \in Files}
  /\ Cardinality(committed.bitmap) = count

\* Each byte below the size of a file is the one written there, after a crash
\* as before it; in particular it has a block, so readi() never allocates.
ReadsBack ==
  \A f \in Files :
    /\ \A k \in 0 .. committed.node[f].size - 1 : ByteAt(committed, committed.node[f], k) = Byte(f, k)
    /\ \A k \in 0 .. ip[f].size - 1 : ByteAt(disk, ip[f], k) = Byte(f, k)
=============================================================================
