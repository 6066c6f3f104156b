------------------------------- MODULE Inode --------------------------------
(***************************************************************************)
(* The inode and directory layers of kernel/fs.c and the system calls of   *)
(* kernel/sysfile.c that change the name space, run by several processes   *)
(* on one disk that may crash at any moment.                               *)
(*                                                                         *)
(* A step ends where a process can block or be overtaken: at ilock(), at   *)
(* the two places where iput() gives up itable.lock, and at end_op().      *)
(* Writes go to the buffer cache, here disk; what would survive a crash is *)
(* committed, and end_op() makes disk survive when the last operation of a *)
(* group ends (AtomicDisk, implemented by Log).  Blocks are left to        *)
(* FileData: here an operation that needs a new block may find none.       *)
(***************************************************************************)
EXTENDS Integers, Sequences, FiniteSets, FiniteSetsExt

CONSTANTS Procs, NoProc,
          NINODES,        \* sb.ninodes - 1: the inodes are 1..NINODES
          Scenarios       \* [disk, calls]: file systems that earlier work left, and
                          \* the system calls that the processes then make

ROOTINO == 1
Inums == 1 .. NINODES

ASSUME InodeAssumption ==
  /\ IsFiniteSet(Procs) /\ NoProc \notin Procs
  /\ NINODES \in Nat \ {0}
  /\ \A s \in Scenarios :
       /\ s.disk \in [Inums -> [type : STRING, nlink : Int,
                                ents : Seq([name : STRING, inum : 0 .. NINODES])]]
       /\ s.disk[ROOTINO].type = "dir"
       /\ \A c \in s.calls :
            c \in [op : {"link", "unlink", "create", "open", "chdir"}, type : STRING,
                  path : Seq(STRING), new : Seq(STRING)]

VARIABLES
  calls,       \* the system calls of this scenario
  disk,        \* inode -> [type, nlink, ents], as the buffer cache shows it
  committed,   \* the same, as a crash leaves it
  core,        \* itable: inode -> [ref, valid, lock, type, nlink]
  outstanding, \* processes between begin_op() and end_op()
  proc,        \* process -> where it is and which references it has
  cwd, ofile,  \* p->cwd, and the inode of the one file p may have open
  scan,        \* the inode ireclaim() looks at next
  strayed,     \* a name was made in a directory that had been removed
  missed       \* inodes whose last reference went after iput() had looked

vars == <<calls, disk, committed, core, outstanding, proc, cwd, ofile, scan, strayed, missed>>

Free == [type |-> "free", nlink |-> 0, ents |-> <<>>]
Absent == [ref |-> 0, valid |-> FALSE, lock |-> NoProc, type |-> "free", nlink |-> 0]

\* A process in user space.  w, ip and dp are inodes it has references to;
\* puts are the iput() calls it finishes before it goes on at pc; up says that
\* its last look-up was of ".." in a directory that had been removed.
Idle == [pc |-> "user", op |-> "none", type |-> "none", path |-> <<>>, new |-> <<>>,
         name |-> "none", w |-> 0, ip |-> 0, dp |-> 0, puts |-> <<>>, at |-> "none", up |-> FALSE]

Entry(name, i) == [name |-> name, inum |-> i]
Dots(i, parent) == <<Entry(".", i), Entry("..", parent)>>

\* userinit() and the forks that follow: every process is in the root.
Booted == [i \in Inums |-> [Absent EXCEPT !.ref = IF i = ROOTINO THEN Cardinality(Procs) ELSE 0]]

RootDir == [p \in Procs |-> ROOTINO]
NoFile == [p \in Procs |-> 0]
InUser == [p \in Procs |-> Idle]

Init ==
  /\ \E s \in Scenarios : disk = s.disk /\ committed = s.disk /\ calls = s.calls
  /\ core = Booted /\ outstanding = {} /\ proc = InUser
  /\ cwd = RootDir /\ ofile = NoFile
  /\ scan = 1 /\ strayed = FALSE /\ missed = {}

-----------------------------------------------------------------------------
\* The inode table.

iget(c, i) == [c EXCEPT ![i].ref = @ + 1, ![i].valid = @ /\ c[i].ref > 0]

\* ilock() would read a free inode: panic("ilock: no type")
NoType(i) == ~core[i].valid /\ disk[i].type = "free"

\* A process gets past ilock(i) when the sleep-lock is free.  After a panic it
\* never does; the other harts go on.
CanLock(i) == core[i].lock = NoProc /\ ~NoType(i)

\* ilock() once the sleep-lock is free: read the inode if need be.
ilock(c, i, p) ==
  [c EXCEPT ![i] = IF @.valid THEN [@ EXCEPT !.lock = p]
                   ELSE [@ EXCEPT !.lock = p, !.valid = TRUE, !.type = disk[i].type,
                                  !.nlink = disk[i].nlink]]

iunlock(c, i) == [c EXCEPT ![i].lock = NoProc]

nlink(c, i, n) == [c EXCEPT ![i].nlink = @ + n]

iupdate(d, c, i) == [d EXCEPT ![i].type = c[i].type, ![i].nlink = c[i].nlink]

\* The first of some inodes or directory slots, or 0.
First(S) == IF S = {} THEN 0 ELSE Min(S)

\* The first free inode, or 0.
ialloc(d) == First({i \in Inums : d[i].type = "free"})

-----------------------------------------------------------------------------
\* Directories.

\* The slot of name in the directory d, or 0.
dirlookup(d, name) ==
  First({k \in DOMAIN disk[d].ents : disk[d].ents[k].inum # 0 /\ disk[d].ents[k].name = name})

EmptySlot(d) == First({k \in DOMAIN disk[d].ents : disk[d].ents[k].inum = 0})

\* dirlink() of a name that is not there: the first empty slot, or a new one.
dirlink(d, name, i) ==
  IF EmptySlot(d) = 0 THEN Append(disk[d].ents, Entry(name, i))
                      ELSE [disk[d].ents EXCEPT ![EmptySlot(d)] = Entry(name, i)]

isdirempty(d) == \A k \in 3 .. Len(disk[d].ents) : disk[d].ents[k].inum = 0

-----------------------------------------------------------------------------
\* How a process goes on.

Ready(p, label) == proc[p].pc = label /\ proc[p].puts = <<>>

\* p changes the disk and the inode table, and goes on as r says.
Step(p, d, c, r) ==
  /\ disk' = d /\ core' = c /\ proc' = [proc EXCEPT ![p] = r]
  /\ UNCHANGED <<calls, committed, outstanding, cwd, scan>>

Calm == UNCHANGED <<ofile, strayed, missed>>

\* iput(i); with unlock, an iunlockput() whose iunlock() is still to come.
Put(i) == [inum |-> i, unlock |-> FALSE]
UnlockPut(i) == [inum |-> i, unlock |-> TRUE]

\* The call is over but for some iput()s and end_op().
Finish(puts) == [Idle EXCEPT !.pc = "end_op", !.puts = puts]

-----------------------------------------------------------------------------
\* iput(): the last reference to an inode without links frees it.

\* Mutant of LastUnlinked: other references are not looked at.
UnlinkedAnyRef(c, i) == c[i].valid /\ c[i].nlink = 0

LastUnlinked(c, i) == c[i].ref = 1 /\ c[i].valid /\ c[i].nlink = 0

Popped(p) == [proc[p] EXCEPT !.puts = Tail(@), !.at = "none"]

\* The iunlock() of iunlockput(), and the look at the entry under itable.lock.
iput(p) ==
  /\ proc[p].puts # <<>> /\ proc[p].at = "none"
  /\ LET i == proc[p].puts[1].inum
         c == IF proc[p].puts[1].unlock THEN iunlock(core, i) ELSE core IN
     IF LastUnlinked(c, i)
     THEN Step(p, disk, [c EXCEPT ![i].lock = p], [proc[p] EXCEPT !.at = "free"])
     ELSE Step(p, disk, [c EXCEPT ![i].ref = @ - 1], Popped(p))
  /\ Calm

\* itrunc(ip); ip->type = 0; iupdate(ip); ip->valid = 0; releasesleep()
iputFree(p) ==
  /\ proc[p].at = "free"
  /\ LET i == proc[p].puts[1].inum IN
     Step(p, [disk EXCEPT ![i] = Free],
          [core EXCEPT ![i] = [@ EXCEPT !.type = "free", !.valid = FALSE, !.lock = NoProc]],
          [proc[p] EXCEPT !.at = "drop"])
  /\ Calm

\* acquire(&itable.lock); ip->ref--
iputDrop(p) ==
  /\ proc[p].at = "drop"
  /\ LET i == proc[p].puts[1].inum IN
     /\ Step(p, disk, [core EXCEPT ![i].ref = @ - 1], Popped(p))
     /\ missed' = IF LastUnlinked(core, i) THEN missed \cup {i} ELSE missed
  /\ UNCHANGED <<ofile, strayed>>

-----------------------------------------------------------------------------
\* namex(): the walk is at the inode w with path to go.  It ends at pc "found"
\* with the inode, or the parent and the last name; or the call fails.

WantsParent(r) == r.op \in {"unlink", "create"} \/ (r.op = "link" /\ r.ip # 0)

\* Mutant of NotFound: the reference to the directory is kept.
NotFoundForgets(r) ==
  IF r.ip # 0 THEN [r EXCEPT !.pc = "link_bad", !.w = 0, !.path = <<>>] ELSE Finish(<<>>)

\* namei() or nameiparent() returns 0 after iput(w).
NotFound(r) ==
  IF r.ip # 0 THEN [r EXCEPT !.pc = "link_bad", !.w = 0, !.path = <<>>, !.puts = <<Put(r.w)>>]
              ELSE Finish(<<Put(r.w)>>)

\* r, or where it goes on when the path is used up.
Walk(r) == IF r.path # <<>> THEN r
           ELSE IF WantsParent(r) THEN NotFound(r) ELSE [r EXCEPT !.pc = "found"]

Absolute(path) == path # <<>> /\ path[1] = "/"

From(p, path) == IF Absolute(path) THEN ROOTINO ELSE cwd[p]

\* iget() of the root or idup() of the current directory, and the walk begins.
NamexStart(p, r, path) ==
  Walk([r EXCEPT !.pc = "namex", !.w = From(p, path),
                 !.path = IF Absolute(path) THEN Tail(path) ELSE path])

\* One turn of the loop: lock w, look, unlock, and put it.
namex(p) ==
  LET r == proc[p]
      i == proc[p].w
      c == ilock(core, i, p) IN
  /\ Ready(p, "namex") /\ CanLock(i)
  /\ IF c[i].type # "dir" THEN Step(p, disk, iunlock(c, i), NotFound(r))
     ELSE IF WantsParent(r) /\ Len(r.path) = 1
     THEN Step(p, disk, iunlock(c, i),
               [r EXCEPT !.pc = "found", !.name = r.path[1], !.path = <<>>, !.up = FALSE])
     ELSE LET slot == dirlookup(i, r.path[1]) IN
          IF slot = 0 THEN Step(p, disk, iunlock(c, i), NotFound(r))
          ELSE LET next == disk[i].ents[slot].inum IN
               LET r1 == Walk([r EXCEPT !.w = next, !.path = Tail(@),
                                       !.up = c[i].nlink = 0 /\ r.path[1] = ".."]) IN
               Step(p, disk, iget(iunlock(c, i), next), [r1 EXCEPT !.puts = <<Put(i)>> \o @])
  /\ Calm

-----------------------------------------------------------------------------
\* Entering and leaving the kernel.

\* A path is the sequence of its names, "/" first if it is absolute.
syscall(p, op) ==
  /\ Ready(p, "user") /\ scan > NINODES
  /\ \E c \in calls :
       /\ c.op = op
       /\ core' = iget(core, From(p, c.path))
       /\ proc' = [proc EXCEPT ![p] =
            NamexStart(p, [Idle EXCEPT !.op = op, !.type = c.type, !.new = c.new], c.path)]
  /\ outstanding' = outstanding \cup {p}
  /\ UNCHANGED <<calls, disk, committed, cwd, scan>> /\ Calm

sys_link(p)   == syscall(p, "link")
sys_unlink(p) == syscall(p, "unlink")
sys_open(p)   == syscall(p, "open")
sys_chdir(p)  == syscall(p, "chdir")
\* sys_mkdir(), sys_mknod() and sys_open() with O_CREATE
sys_create(p) == syscall(p, "create")

\* sys_close() and fileclose() of the last reference to the file
sys_close(p) ==
  /\ Ready(p, "user") /\ scan > NINODES /\ ofile[p] # 0
  /\ outstanding' = outstanding \cup {p}
  /\ ofile' = [ofile EXCEPT ![p] = 0]
  /\ proc' = [proc EXCEPT ![p] = Finish(<<Put(ofile[p])>>)]
  /\ UNCHANGED <<calls, disk, committed, core, cwd, scan, strayed, missed>>

\* The last operation of a group commits it.  sys_chdir() sets p->cwd now.
end_op(p) ==
  /\ Ready(p, "end_op")
  /\ outstanding' = outstanding \ {p}
  /\ committed' = IF outstanding = {p} THEN disk ELSE committed
  /\ cwd' = [cwd EXCEPT ![p] = IF proc[p].ip # 0 THEN proc[p].ip ELSE @]
  /\ proc' = [proc EXCEPT ![p] = Idle]
  /\ UNCHANGED <<calls, disk, core, scan>> /\ Calm

\* The handler of op goes on with ilock() of what namex() found.
Found(p, op, i) == Ready(p, "found") /\ proc[p].op = op /\ CanLock(i)

-----------------------------------------------------------------------------
\* sys_link()

link_ip(p) ==
  LET i == proc[p].w IN
  /\ Found(p, "link", i) /\ proc[p].ip = 0
  /\ LET c == ilock(core, i, p) IN
     IF c[i].type = "dir" THEN Step(p, disk, iunlock(c, i), Finish(<<Put(i)>>))
     ELSE LET c1 == nlink(c, i, 1) IN
          Step(p, iupdate(disk, c1, i), iget(iunlock(c1, i), From(p, proc[p].new)),
               NamexStart(p, [proc[p] EXCEPT !.ip = i, !.new = <<>>], proc[p].new))
  /\ Calm

\* dirlink() into the parent of the new name.  It fails if the name is there,
\* or if there is no block for a new slot.
link_dp(p) ==
  LET d == proc[p].w IN
  /\ Found(p, "link", d) /\ proc[p].ip # 0
  /\ LET c == ilock(core, d, p)
         slot == dirlookup(d, proc[p].name)
         bad(puts) == [Idle EXCEPT !.pc = "link_bad", !.op = "link", !.ip = proc[p].ip, !.puts = puts] IN
     \/ /\ slot # 0
        /\ LET i == disk[d].ents[slot].inum IN
           Step(p, disk, iget(c, i), bad(<<Put(i), UnlockPut(d)>>))
        /\ UNCHANGED strayed
     \/ /\ slot = 0 /\ EmptySlot(d) = 0
        /\ Step(p, disk, iunlock(c, d), bad(<<Put(d)>>))
        /\ UNCHANGED strayed
     \/ /\ slot = 0
        /\ Step(p, [disk EXCEPT ![d].ents = dirlink(d, proc[p].name, proc[p].ip)],
                iunlock(c, d), Finish(<<Put(d), Put(proc[p].ip)>>))
        /\ strayed' = (strayed \/ c[d].nlink = 0)
  /\ UNCHANGED <<ofile, missed>>

\* Mutant of link_bad: the link count is not taken back.
LinkBadForgets(p) ==
  /\ Ready(p, "link_bad") /\ CanLock(proc[p].ip)
  /\ Step(p, disk, core, Finish(<<Put(proc[p].ip)>>)) /\ Calm

link_bad(p) ==
  LET i == proc[p].ip IN
  LET c == nlink(ilock(core, i, p), i, -1) IN
  /\ Ready(p, "link_bad") /\ CanLock(i)
  /\ Step(p, iupdate(disk, c, i), iunlock(c, i), Finish(<<Put(i)>>)) /\ Calm

-----------------------------------------------------------------------------
\* sys_unlink()

\* Mutant of Fixed: the directory's own entries can be removed.
NotFixed(name) == FALSE

\* Entries that cannot be removed.
Fixed(name) == name \in {".", ".."}

unlink_dp(p) ==
  LET d == proc[p].w IN
  /\ Found(p, "unlink", d)
  /\ LET c == ilock(core, d, p)
         slot == dirlookup(d, proc[p].name) IN
     IF Fixed(proc[p].name) \/ slot = 0
     THEN Step(p, disk, iunlock(c, d), Finish(<<Put(d)>>))
     ELSE LET i == disk[d].ents[slot].inum IN
          Step(p, disk, iget(c, i), [proc[p] EXCEPT !.pc = "unlink_ip", !.w = 0, !.dp = d, !.ip = i])
  /\ Calm

\* With dp locked: lock ip, clear its entry, and let dp go.
unlink_ip(p) ==
  LET i == proc[p].ip
      d == proc[p].dp IN
  /\ Ready(p, "unlink_ip") /\ CanLock(i)
  /\ LET c == ilock(core, i, p) IN
     IF c[i].type = "dir" /\ ~isdirempty(i)
     THEN Step(p, disk, iunlock(c, i), Finish(<<Put(i), UnlockPut(d)>>))
     ELSE LET c1 == nlink(c, d, IF c[i].type = "dir" THEN -1 ELSE 0)
              slot == dirlookup(d, proc[p].name) IN
          Step(p, iupdate([disk EXCEPT ![d].ents[slot] = Entry("none", 0)], c1, d), iunlock(c1, d),
               [Idle EXCEPT !.pc = "unlink_dec", !.ip = i, !.puts = <<Put(d)>>])
  /\ Calm

\* ip->nlink--; iupdate(ip); iunlockput(ip)
unlink_dec(p) ==
  LET i == proc[p].ip IN
  LET c == nlink(core, i, -1) IN
  /\ Ready(p, "unlink_dec")
  /\ Step(p, iupdate(disk, c, i), iunlock(c, i), Finish(<<Put(i)>>)) /\ Calm

-----------------------------------------------------------------------------
\* create(), for sys_open(O_CREATE), sys_mkdir() and sys_mknod()

create_dp(p) ==
  LET d == proc[p].w IN
  /\ Found(p, "create", d)
  /\ LET c == ilock(core, d, p)
         slot == dirlookup(d, proc[p].name)
         new == ialloc(disk)
         r == [proc[p] EXCEPT !.w = 0] IN
     IF slot # 0
     THEN LET i == disk[d].ents[slot].inum IN
          Step(p, disk, iget(iunlock(c, d), i),
               [r EXCEPT !.pc = "create_old", !.name = "none", !.ip = i, !.puts = <<Put(d)>>])
     ELSE IF new = 0 THEN Step(p, disk, iunlock(c, d), Finish(<<Put(d)>>))
     ELSE Step(p, [disk EXCEPT ![new] = [Free EXCEPT !.type = r.type]], iget(c, new),
               [r EXCEPT !.pc = "create_new", !.dp = d, !.ip = new])
  /\ Calm

\* The name exists: only sys_open() of a file or a device can use it.
create_old(p) ==
  LET i == proc[p].ip IN
  LET c == ilock(core, i, p) IN
  /\ Ready(p, "create_old") /\ CanLock(i)
  /\ IF proc[p].type = "file" /\ c[i].type \in {"file", "dev"}
     THEN Step(p, disk, c, [proc[p] EXCEPT !.pc = "created"])
     ELSE Step(p, disk, iunlock(c, i), Finish(<<Put(i)>>))
  /\ Calm

\* A new inode: one link, "." and ".." in a directory, and its entry in dp.
\* A dirlink() that needs a new slot may find no block: fail.
create_new(p) ==
  LET i == proc[p].ip
      d == proc[p].dp
      isdir == proc[p].type = "dir" IN
  /\ Ready(p, "create_new") /\ CanLock(i)
  /\ LET c == nlink(ilock(core, i, p), i, 1)
         bad == nlink(c, i, -1)
         dots == [disk EXCEPT ![i].ents = IF isdir THEN Dots(i, d) ELSE <<>>] IN
     \/ LET c1 == nlink(c, d, IF isdir THEN 1 ELSE 0) IN
        /\ Step(p, iupdate(iupdate([dots EXCEPT ![d].ents = dirlink(d, proc[p].name, i)], c, i), c1, d),
                iunlock(c1, d), [proc[p] EXCEPT !.pc = "created", !.name = "none", !.dp = 0, !.puts = <<Put(d)>>])
        /\ strayed' = (strayed \/ c[d].nlink = 0)
     \/ /\ \/ isdir /\ Step(p, iupdate(disk, bad, i), iunlock(bad, i), Finish(<<Put(i), UnlockPut(d)>>))
           \/ /\ EmptySlot(d) = 0
              /\ Step(p, iupdate(dots, bad, i), iunlock(bad, i), Finish(<<Put(i), UnlockPut(d)>>))
        /\ UNCHANGED strayed
  /\ UNCHANGED <<ofile, missed>>

-----------------------------------------------------------------------------
\* sys_open() has ip locked: it becomes an open file, or is put if there is
\* no file or descriptor for it, or if the mode or the device number is bad.
Opened(p, c, i) ==
  \/ /\ ofile[p] = 0
     /\ Step(p, disk, iunlock(c, i), Finish(<<>>)) /\ ofile' = [ofile EXCEPT ![p] = i]
  \/ Step(p, disk, iunlock(c, i), Finish(<<Put(i)>>)) /\ UNCHANGED ofile

\* create() has returned: sys_mkdir() and sys_mknod() put the inode.
created(p) ==
  LET i == proc[p].ip IN
  /\ Ready(p, "created")
  /\ IF proc[p].type = "file" THEN Opened(p, core, i)
     ELSE Step(p, disk, iunlock(core, i), Finish(<<Put(i)>>)) /\ UNCHANGED ofile
  /\ UNCHANGED <<strayed, missed>>

\* sys_open() without O_CREATE
open_ip(p) ==
  LET i == proc[p].w IN
  /\ Found(p, "open", i)
  /\ Opened(p, ilock(core, i, p), i)
  /\ UNCHANGED <<strayed, missed>>

chdir_ip(p) ==
  LET i == proc[p].w IN
  LET c == ilock(core, i, p) IN
  /\ Found(p, "chdir", i)
  /\ Step(p, disk, iunlock(c, i),
          IF c[i].type = "dir" THEN [Finish(<<Put(cwd[p])>>) EXCEPT !.ip = i] ELSE Finish(<<Put(i)>>))
  /\ Calm

-----------------------------------------------------------------------------
\* Mutant of Reread: ireclaim() does not lock the inode it puts.
NotReread(i) == iget(core, i)

\* iget(), ilock() and iunlock() of ireclaim(): valid is set.
Reread(i) == ilock(iget(core, i), i, NoProc)

\* fsinit() after a crash: ireclaim() puts each inode that has no links, in an
\* operation of its own, before any process runs.
ireclaim ==
  /\ scan <= NINODES
  /\ scan' = scan + 1
  /\ IF disk[scan].type # "free" /\ disk[scan].nlink = 0 /\ LastUnlinked(Reread(scan), scan)
     THEN disk' = [disk EXCEPT ![scan] = Free] /\ committed' = disk'
     ELSE UNCHANGED <<disk, committed>>
  /\ UNCHANGED <<calls, core, outstanding, proc, cwd>> /\ Calm

\* The machine stops and starts again from what was committed.
Crash ==
  /\ disk' = committed
  /\ core' = Booted /\ outstanding' = {} /\ proc' = InUser
  /\ cwd' = RootDir /\ ofile' = NoFile
  /\ scan' = 1 /\ missed' = {}
  /\ UNCHANGED <<calls, committed, strayed>>

Next ==
  \/ \E p \in Procs :
       \/ sys_link(p) \/ sys_unlink(p) \/ sys_create(p) \/ sys_open(p)
       \/ sys_chdir(p) \/ sys_close(p) \/ end_op(p) \/ namex(p)
       \/ iput(p) \/ iputFree(p) \/ iputDrop(p)
       \/ link_ip(p) \/ link_dp(p) \/ link_bad(p)
       \/ unlink_dp(p) \/ unlink_ip(p) \/ unlink_dec(p)
       \/ create_dp(p) \/ create_old(p) \/ create_new(p) \/ created(p)
       \/ open_ip(p) \/ chdir_ip(p)
  \/ ireclaim \/ Crash

Spec == Init /\ [][Next]_vars

-----------------------------------------------------------------------------
\* The references of p to the inode i.
One(x, i) == IF x = i THEN 1 ELSE 0

Holds(p, i) ==
  LET r == proc[p] IN
  Cardinality({k \in DOMAIN r.puts : r.puts[k].inum = i})
  + One(r.w, i) + One(r.ip, i) + One(r.dp, i)
  + (IF r.pc = "end_op" /\ r.ip # 0 THEN 0 ELSE One(cwd[p], i))
  + One(ofile[p], i)

Pointers(i) == UNION {{p} \X (1 .. Holds(p, i)) : p \in Procs}

\* An entry of the inode table counts exactly the pointers to it: those of
\* open files, current directories, and system calls on their way through
\* namex(), iput() and the handlers, error paths included.
RefsCounted == \A i \in Inums : core[i].ref = Cardinality(Pointers(i))

\* The inode whose lock p takes next, or 0.
WaitsFor(p) ==
  IF proc[p].puts # <<>> THEN 0
  ELSE IF proc[p].pc \in {"namex", "found"} THEN proc[p].w
  ELSE IF proc[p].pc \in {"link_bad", "unlink_ip", "create_old", "create_new"} THEN proc[p].ip ELSE 0

\* The panics of fs.c and sysfile.c: ilock() of a free inode, unlink() of an
\* inode without links, and iput(), which holds itable.lock, going to sleep.
Panics(p) ==
  \/ \E i \in Inums : /\ WaitsFor(p) = i /\ core[i].lock = NoProc
                     /\ \/ NoType(i)
                        \/ proc[p].pc = "unlink_ip" /\ ilock(core, i, p)[i].nlink < 1
  \/ /\ proc[p].puts # <<>> /\ proc[p].at = "none"
     /\ LET i == proc[p].puts[1].inum IN
        LastUnlinked(core, i) /\ core[i].lock \notin {NoProc, IF proc[p].puts[1].unlock THEN p ELSE NoProc}

\* No system call ends in a panic: ilock() says an inode that a name leads to
\* has a type.
NoPanic == \A p \in Procs : ~Panics(p)

\* The only way to a panic is up, from a directory that was removed while it
\* was a current directory and whose parent has been removed after it.
PanicsOnlyGoingUp == \A p \in Procs : Panics(p) => proc[p].up

\* The entries of d that count as links of i: names, and the ".." of a
\* directory that has not been removed.
Links(d, i) ==
  {e \in UNION {{k} \X DOMAIN d[k].ents : k \in Inums} :
     /\ d[e[1]].type = "dir"
     /\ LET x == d[e[1]].ents[e[2]] IN
        x.inum = i /\ x.name # "." /\ (x.name = ".." => d[e[1]].nlink > 0)}

\* Whenever the machine crashes, every name on the disk is that of an inode
\* in use, and the link count of an inode is the number of its names, unless
\* a name was made in a directory that had been removed before.
CrashConsistent ==
  \A i \in Inums :
    /\ committed[i].type = "free" => Links(committed, i) = {}
    /\ ~strayed => committed[i].nlink = Cardinality(Links(committed, i))

\* "If that was the last reference and the inode has no links to it, free the
\* inode (and its content) on disk": an inode that nothing names and nobody
\* refers to is free, except until ireclaim() comes to it after a crash.
FreedWhenUnused ==
  \A i \in Inums :
    (disk[i].type # "free" /\ disk[i].nlink = 0 /\ core[i].ref = 0) => scan <= i

\* The only other exception: the last reference was the one that an iput()
\* gives up after it has freed the inode, when create() has already given the
\* inode to somebody who has removed it again.
LeakOnlyByLatePut ==
  \A i \in Inums \ missed :
    (disk[i].type # "free" /\ disk[i].nlink = 0 /\ core[i].ref = 0) => scan <= i

Blocked(p, q) == WaitsFor(p) # 0 /\ core[WaitsFor(p)].lock = q

\* No process waits for an inode lock it holds itself, and no two wait for
\* each other: locks are taken from a directory to what is in it.
NoLockCycle ==
  \A p, q \in Procs : ~(Blocked(p, q) /\ (p = q \/ Blocked(q, p)))
=============================================================================
