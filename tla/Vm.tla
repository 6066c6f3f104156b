--------------------------------- MODULE Vm ---------------------------------
(***************************************************************************)
(* User memory: the page allocator, three-level page tables, and what       *)
(* fork, exec, sbrk, exit, page faults and copies between user and kernel   *)
(* do with them.  Any kalloc() may find no page, so every call may stop     *)
(* half-way and has to undo what it did.                                    *)
(*                                                                         *)
(* Scaled down: a page-table page has two entries, so an address space has  *)
(* eight pages of PGSIZE = 2 cells.  A call is one step: another process    *)
(* can only take free pages from it, which the initial choice of how many   *)
(* there are covers.                                                        *)
(***************************************************************************)
EXTENDS Integers, Sequences, FiniteSets, SequencesExt

CONSTANTS Procs,      \* slots of the process table; init is the least
          NPAGES,     \* pages of physical memory, at most
          Programs,   \* executables: sequences of [va, memsz, filesz, perm, whole]
          MaxArgs,    \* bound on the arguments of exec
          MaxCalls    \* bound on the length of a behaviour

PGSIZE == 2
TRAMPOLINE == 14
TRAPFRAME == 12
USERSTACK == 1
MAXPATH == 3
vpn(va) == va \div PGSIZE
PGROUNDUP(sz) == ((sz + PGSIZE - 1) \div PGSIZE) * PGSIZE

VARIABLES
  mem,     \* [free, data]: free pages, and the cells of each page
  ps,      \* process -> [used, sz, t, trapframe]
  as,      \* process -> what it should find in its memory, cell by cell
  last,    \* [call, p, ret] of the last call
  calls,   \* how many calls there have been
  vpanic   \* a panic of vm.c or exec.c was reached

vvars == <<mem, ps, as, last, calls, vpanic>>

Fill(v) == [k \in 0 .. PGSIZE - 1 |-> v]
NoTable == [dir |-> <<>>, pte |-> <<>>]
Unused == [used |-> FALSE, sz |-> 0, t |-> NoTable, trapframe |-> 0]
Without(f, S) == [x \in DOMAIN f \ S |-> f[x]]
With(f, x, v) == [y \in DOMAIN f \cup {x} |-> IF y = x THEN v ELSE f[y]]

-----------------------------------------------------------------------------
\* The operations of kalloc.c and vm.c work on m = [free, data, t, sz, pa, argv,
\* ok, panic]: the memory, the page table they build and the size it is for,
\* the page they have come to (0: none), the pages of exec's arguments, and
\* whether all went well.

\* m, and then F if all went well, or if it did not.
Then(m, F(_)) == IF m.ok THEN F(m) ELSE m
Else(m, F(_)) == IF m.ok THEN m ELSE F(m)

kfree(m, S) == [m EXCEPT !.free = @ \cup S,
                         !.data = [b \in DOMAIN @ |-> IF b \in S THEN Fill(1) ELSE @[b]]]

kalloc(m) ==
  IF m.free = {} THEN [m EXCEPT !.pa = 0, !.ok = FALSE]
  ELSE LET b == CHOOSE x \in m.free : \A y \in m.free : x <= y IN
       [m EXCEPT !.free = @ \ {b}, !.data[b] = Fill(5), !.pa = b]

\* The page-table page <<level, index>>, made if it is not there.
Need(m, k) ==
  IF ~m.ok \/ k \in DOMAIN m.t.dir THEN m
  ELSE Then(kalloc(m), LAMBDA a : [a EXCEPT !.t.dir = With(@, k, a.pa)])

\* walk() with alloc != 0
walk(m, n) == Need(Need(m, <<2, n \div 4>>), <<1, n \div 2>>)

mappages(m, n, pa, perm) ==
  Then(walk(m, n), LAMBDA w :
    [w EXCEPT !.t.pte = With(@, n, [pa |-> pa, perm |-> perm]),
              !.panic = @ \/ n \in DOMAIN m.t.pte])

uvmunmap(m, S, do_free) ==
  LET gone == S \cap DOMAIN m.t.pte IN
  kfree([m EXCEPT !.t.pte = Without(@, gone)],
        IF do_free THEN {m.t.pte[n].pa : n \in gone} ELSE {})

uvmcreate(m) ==
  Then(kalloc([m EXCEPT !.t = NoTable]), LAMBDA a : [a EXCEPT !.t.dir = With(@, <<3, 0>>, a.pa)])

freewalk(m) ==
  [kfree(m, {m.t.dir[k] : k \in DOMAIN m.t.dir})
     EXCEPT !.t = NoTable, !.panic = @ \/ m.t.pte # <<>>]

\* The pages of 0..sz.
Below(sz) == 0 .. vpn(PGROUNDUP(sz)) - 1

uvmfree(m, sz) == freewalk(uvmunmap(m, Below(sz), TRUE))

\* One page at n, filled by its caller; given back if it cannot be mapped.
MapNew(m, n, cells, perm) ==
  Then(m, LAMBDA x : Then(kalloc(x), LAMBDA a :
    Else(mappages([a EXCEPT !.data[a.pa] = cells], n, a.pa, perm), LAMBDA b : kfree(b, {a.pa}))))

\* The vpns from lo to hi - 1 in order.
Run(lo, hi) == [k \in 1 .. hi - lo |-> lo + k - 1]

\* The zeroed pages by which a process grows.
Grown(m, oldsz, newsz, perm) ==
  FoldLeft(LAMBDA x, n : MapNew(x, n, Fill(0), perm), m,
           Run(vpn(PGROUNDUP(oldsz)), vpn(PGROUNDUP(newsz))))

\* Mutant of uvmalloc: what was allocated before the failure stays.
UvmallocKeeps(m, oldsz, newsz, xperm) ==
  IF newsz < oldsz THEN m ELSE Grown(m, oldsz, newsz, {"R", "U"} \cup xperm)

uvmalloc(m, oldsz, newsz, xperm) ==
  IF newsz < oldsz THEN m
  ELSE Else(Grown(m, oldsz, newsz, {"R", "U"} \cup xperm), LAMBDA g :
         uvmunmap(g, Below(newsz) \ Below(oldsz), TRUE))

uvmdealloc(m, oldsz, newsz) ==
  IF newsz >= oldsz THEN m ELSE uvmunmap(m, Below(oldsz) \ Below(newsz), TRUE)

\* The pages of 0..sz that a table has, in order.
Mapped(old, sz) == SelectSeq(Run(0, vpn(PGROUNDUP(sz))), LAMBDA n : n \in DOMAIN old.pte)

\* Mutant of uvmcopy: the child gets the parent's pages.
UvmcopyShares(m, old, sz) ==
  FoldLeft(LAMBDA x, n : Then(x, LAMBDA y : mappages(y, n, old.pte[n].pa, old.pte[n].perm)),
           m, Mapped(old, sz))

uvmcopy(m, old, sz) ==
  Else(FoldLeft(LAMBDA x, n : MapNew(x, n, m.data[old.pte[n].pa], old.pte[n].perm), m, Mapped(old, sz)),
       LAMBDA c : uvmunmap(c, Below(sz), TRUE))

-----------------------------------------------------------------------------
\* Page tables of processes.

proc_pagetable(m, trapframe) ==
  Then(uvmcreate(m), LAMBDA c :
  Then(Else(mappages(c, vpn(TRAMPOLINE), 0, {"R", "X"}), LAMBDA a : uvmfree(a, 0)), LAMBDA a :
  Else(mappages(a, vpn(TRAPFRAME), trapframe, {"R", "W"}), LAMBDA b :
       uvmfree(uvmunmap(b, {vpn(TRAMPOLINE)}, FALSE), 0))))

proc_freepagetable(m, sz) ==
  uvmfree(uvmunmap(m, {vpn(TRAMPOLINE), vpn(TRAPFRAME)}, FALSE), sz)

\* allocproc(): a trapframe and an empty page table, or freeproc().
allocproc(m) ==
  Then(kalloc(m), LAMBDA a :
  Then(Else(proc_pagetable(a, a.pa), LAMBDA b : kfree(b, {a.pa})), LAMBDA b : [b EXCEPT !.pa = a.pa]))

Start(p) == [free |-> mem.free, data |-> mem.data, t |-> ps[p].t, sz |-> ps[p].sz,
             pa |-> 0, argv |-> {}, ok |-> TRUE, panic |-> FALSE]

\* The call of p ends with memory m, processes q and address spaces a.
Return(call, p, m, q, a) ==
  /\ calls < MaxCalls /\ calls' = calls + 1
  /\ mem' = [free |-> m.free, data |-> m.data]
  /\ ps' = q /\ as' = a
  /\ last' = [call |-> call, p |-> p, ret |-> IF m.ok THEN 0 ELSE -1]
  /\ vpanic' = (vpanic \/ m.panic)

\* A call that only changes p's own page table and size.
ReturnOwn(call, p, m, sz, a) ==
  Return(call, p, m, [ps EXCEPT ![p] = [@ EXCEPT !.t = m.t, !.sz = sz]], a)

-----------------------------------------------------------------------------
\* The calls.

kfork(p) ==
  /\ ps[p].used
  /\ \E np \in Procs, a \in {allocproc(Start(p))} :
       /\ ~ps[np].used
       /\ IF ~a.ok THEN Return("fork", p, a, ps, as)
          ELSE \E c \in {uvmcopy(a, ps[p].t, ps[p].sz)} :
               IF ~c.ok THEN Return("fork", p, proc_freepagetable(kfree(c, {a.pa}), 0), ps, as)
               ELSE Return("fork", p, c,
                           [ps EXCEPT ![np] = [used |-> TRUE, sz |-> ps[p].sz, t |-> c.t, trapframe |-> a.pa]],
                           [as EXCEPT ![np] = as[p]])

\* kexit(), and freeproc() in the kwait() of the parent.
kexit(p) ==
  /\ ps[p].used /\ \E q \in Procs : q < p
  /\ Return("exit", p, proc_freepagetable(kfree(Start(p), {ps[p].trapframe}), ps[p].sz),
            [ps EXCEPT ![p] = Unused], [as EXCEPT ![p] = <<>>])

\* The cells of segment s read into the pages of g.  A segment that is not
\* whole in the file stops exec.
loadseg(g, s) ==
  LET cells == s.va .. s.va + s.filesz - 1
      at(b, k) == \E c \in cells : vpn(c) \in DOMAIN g.t.pte /\ g.t.pte[vpn(c)].pa = b /\ c % PGSIZE = k IN
  [g EXCEPT !.data = [b \in DOMAIN @ |-> [k \in 0 .. PGSIZE - 1 |-> IF at(b, k) THEN 7 ELSE @[b][k]]],
            !.ok = s.whole,
            !.panic = @ \/ \E c \in cells : vpn(c) \notin DOMAIN g.t.pte]

\* uvmalloc() and loadseg() of one segment.  uvmalloc() returns the new size,
\* of which 0 means failure.
Load(m, s) ==
  IF ~m.ok \/ s.memsz < s.filesz \/ s.va % PGSIZE # 0 THEN [m EXCEPT !.ok = FALSE]
  ELSE Then(uvmalloc(m, m.sz, s.va + s.memsz, s.perm), LAMBDA g :
         IF s.va + s.memsz = 0 /\ m.sz = 0 THEN [g EXCEPT !.ok = FALSE]
         ELSE loadseg([g EXCEPT !.sz = IF s.va + s.memsz < @ THEN @ ELSE s.va + s.memsz], s))

\* What a program finds: 7 where its file had something, its arguments (8) at
\* the top of the stack, 0 elsewhere.
Image(prog, sz) ==
  [c \in 0 .. sz - 1 |->
     IF c = sz - 1 THEN 8
     ELSE IF \E i \in DOMAIN prog : c \in prog[i].va .. prog[i].va + prog[i].filesz - 1 THEN 7 ELSE 0]

\* The guard page and the stack, with the arguments at its top if they fit.
Stack(m, fits) ==
  Then(uvmalloc(m, m.sz, m.sz + (USERSTACK + 1) * PGSIZE, {"W"}), LAMBDA g :
    [g EXCEPT !.sz = m.sz + (USERSTACK + 1) * PGSIZE,
              !.t.pte[vpn(m.sz)].perm = @ \ {"U"},
              !.data[g.t.pte[vpn(m.sz) + USERSTACK].pa][PGSIZE - 1] = IF fits THEN 8 ELSE @,
              !.ok = fits])

\* kexec() in the memory m: a new table, filled with the program and a stack,
\* takes the place of the old, or is freed.
kexec(m, p, prog, fits) ==
  Then(proc_pagetable([m EXCEPT !.sz = 0], ps[p].trapframe), LAMBDA t0 :
  Then(Else(Then(FoldLeft(Load, t0, prog), LAMBDA x : Stack([x EXCEPT !.sz = PGROUNDUP(@)], fits)),
            LAMBDA bad : proc_freepagetable(bad, bad.sz)), LAMBDA new :
  [proc_freepagetable([new EXCEPT !.t = ps[p].t], ps[p].sz) EXCEPT !.t = new.t]))

\* sys_exec() fetches argc arguments, each into a page of its own, of which
\* the last may be unreadable, and frees the pages when kexec() returns.
FetchArg(m, k) ==
  Then(m, LAMBDA x : Then(kalloc(x), LAMBDA a : [a EXCEPT !.argv = @ \cup {a.pa}]))

FreeArgs(m) == [kfree(m, m.argv) EXCEPT !.argv = {}]

sys_exec(p) ==
  /\ ps[p].used
  /\ \E argc \in 1 .. MaxArgs, readable \in BOOLEAN :
     \E a \in {FoldLeft(FetchArg, Start(p), Run(0, argc))} :
       IF ~a.ok \/ ~readable THEN Return("exec", p, [FreeArgs(a) EXCEPT !.ok = FALSE], ps, as)
       ELSE \E prog \in Programs, fits \in BOOLEAN : \E x \in {kexec(a, p, prog, fits)} :
            IF ~x.ok THEN Return("exec", p, FreeArgs(x), ps, as)
            ELSE Return("exec", p, FreeArgs(x),
                        [ps EXCEPT ![p] = [@ EXCEPT !.t = x.t, !.sz = x.sz]],
                        [as EXCEPT ![p] = Image(prog, x.sz)])

\* The address space of p with sz cells: new pages are zero.
Resized(p, sz) ==
  [as EXCEPT ![p] = [c \in 0 .. PGROUNDUP(sz) - 1 |-> IF c \in DOMAIN @ THEN @[c] ELSE 0]]

\* sys_sbrk() with SBRK_EAGER or n < 0: growproc().  A size below zero is a
\* large unsigned one, to which uvmdealloc() does nothing.
sbrk_eager(p) ==
  /\ ps[p].used
  /\ \E n \in {-20, -3, -1, 1, 3} :
       LET sz == ps[p].sz
           new == IF sz + n < 0 THEN sz ELSE sz + n IN
       \E m \in {IF new > TRAPFRAME THEN [Start(p) EXCEPT !.ok = FALSE]
                 ELSE IF n > 0 THEN uvmalloc(Start(p), sz, new, {"W"})
                 ELSE uvmdealloc(Start(p), sz, new)} :
       IF m.ok THEN ReturnOwn("sbrk", p, m, new, Resized(p, new))
       ELSE ReturnOwn("sbrk", p, m, sz, as)

sbrk_lazy(p) ==
  /\ ps[p].used
  /\ \E n \in {1, 3} :
       IF ps[p].sz + n > TRAPFRAME
       THEN ReturnOwn("sbrk", p, [Start(p) EXCEPT !.ok = FALSE], ps[p].sz, as)
       ELSE ReturnOwn("sbrk", p, Start(p), ps[p].sz + n, Resized(p, ps[p].sz + n))

\* Mutant of vmfault: the page is not zeroed.
VmfaultDirty(m, va, sz) ==
  IF va >= sz \/ vpn(va) \in DOMAIN m.t.pte THEN [m EXCEPT !.ok = FALSE]
  ELSE MapNew(m, vpn(va), Fill(5), {"R", "W", "U"})

vmfault(m, va, sz) ==
  IF va >= sz \/ vpn(va) \in DOMAIN m.t.pte THEN [m EXCEPT !.ok = FALSE]
  ELSE MapNew(m, vpn(va), Fill(0), {"R", "W", "U"})

\* m, with the page of va there for the user, by a page fault if need be.
Present(m, va, sz) ==
  IF ~m.ok \/ (vpn(va) \in DOMAIN m.t.pte /\ "U" \in m.t.pte[vpn(va)].perm) THEN m
  ELSE vmfault(m, va, sz)

Store(m, va, sz, v) ==
  Then(Present(m, va, sz), LAMBDA a :
    IF "W" \notin a.t.pte[vpn(va)].perm THEN [a EXCEPT !.ok = FALSE]
    ELSE [a EXCEPT !.data[a.t.pte[vpn(va)].pa][va % PGSIZE] = v])

\* A user store.  A fault that vmfault() cannot mend kills the process, whose
\* memory goes with it.
usertrap(p) ==
  /\ ps[p].used /\ \E q \in Procs : q < p
  /\ \E va \in 0 .. ps[p].sz :
     \E m \in {Store(Start(p), va, ps[p].sz, p)} :
       IF m.ok THEN ReturnOwn("store", p, m, ps[p].sz, [as EXCEPT ![p][va] = p])
       ELSE Return("store", p,
                   proc_freepagetable(kfree(m, {ps[p].trapframe}), ps[p].sz),
                   [ps EXCEPT ![p] = Unused], [as EXCEPT ![p] = <<>>])

\* copyout() of two cells, page by page: the first may be written when the
\* second cannot be.
copyout(p) ==
  /\ ps[p].used
  /\ \E va \in 0 .. ps[p].sz :
     \E m1 \in {Store(Start(p), va, ps[p].sz, 9)} :
     \E m2 \in {Then(m1, LAMBDA m : Store(m, va + 1, ps[p].sz, 9))} :
       LET done == (IF m1.ok THEN {va} ELSE {}) \cup (IF m2.ok THEN {va + 1} ELSE {}) IN
       ReturnOwn("copyout", p, m2, ps[p].sz,
                 [as EXCEPT ![p] = [c \in DOMAIN @ |-> IF c \in done THEN 9 ELSE @[c]]])

\* copyin() of two cells: it only brings pages in.
copyin(p) ==
  /\ ps[p].used
  /\ \E va \in 0 .. ps[p].sz :
     \E m \in {Present(Present(Start(p), va, ps[p].sz), va + 1, ps[p].sz)} :
       ReturnOwn("copyin", p, m, ps[p].sz, as)

\* The cell at va, which is mapped.
Cell(p, va) == mem.data[ps[p].t.pte[vpn(va)].pa][va % PGSIZE]

\* copyinstr() of at most MAXPATH cells: up to a 0, and without page faults.
copyinstr(p) ==
  /\ ps[p].used
  /\ \E va \in 0 .. ps[p].sz :
       LET there(c) == vpn(c) \in DOMAIN ps[p].t.pte /\ "U" \in ps[p].t.pte[vpn(c)].perm
           ok == \E z \in va .. va + MAXPATH - 1 : (\A c \in va .. z : there(c)) /\ Cell(p, z) = 0 IN
       ReturnOwn("copyinstr", p, [Start(p) EXCEPT !.ok = ok], ps[p].sz, as)

-----------------------------------------------------------------------------
\* userinit() and the first exec: init has one page of text and its stack.
VInit ==
  /\ \E n \in 0 .. NPAGES,
        prog \in {s \in Programs : Len(s) = 1},
        init \in {p \in Procs : \A q \in Procs : p <= q},
        a \in {allocproc([free |-> 1 .. NPAGES, data |-> [b \in 1 .. NPAGES |-> Fill(1)],
                          t |-> NoTable, sz |-> 0, pa |-> 0, argv |-> {}, ok |-> TRUE, panic |-> FALSE])} :
     \E x \in {FoldLeft(Load, a, prog)} :
     \E g \in {Stack([x EXCEPT !.sz = PGROUNDUP(@)], TRUE)} :
       LET taken == {b \in g.free : Cardinality({c \in g.free : c < b}) >= n} IN
       /\ n <= Cardinality(g.free)
       /\ mem = [free |-> g.free \ taken, data |-> Without(g.data, taken)]
       /\ ps = [[p \in Procs |-> Unused] EXCEPT ![init] =
                  [used |-> TRUE, sz |-> g.sz, trapframe |-> a.pa, t |-> g.t]]
       /\ as = [[p \in Procs |-> <<>>] EXCEPT ![init] = Image(prog, g.sz)]
  /\ last = [call |-> "boot", p |-> 0, ret |-> 0]
  /\ calls = 0
  /\ vpanic = FALSE

VNext == \E p \in Procs :
  kfork(p) \/ kexit(p) \/ sys_exec(p) \/ sbrk_eager(p) \/ sbrk_lazy(p) \/ usertrap(p) \/ copyout(p) \/ copyin(p) \/ copyinstr(p)

VSpec == VInit /\ [][VNext]_vvars

-----------------------------------------------------------------------------
\* The pages that p has: table pages, user pages, the trapframe.
TablePages(p) == {ps[p].t.dir[k] : k \in DOMAIN ps[p].t.dir}
UserPages(p) == {ps[p].t.pte[n].pa : n \in DOMAIN ps[p].t.pte} \ {0, ps[p].trapframe}
Has(p) == TablePages(p) \cup UserPages(p) \cup ({ps[p].trapframe} \ {0})

\* No page is lost and none is used twice: a page is free or belongs to one
\* process, for one purpose, whatever calls have failed half-way.
PagesAccounted ==
  /\ \A p \in Procs :
       /\ Has(p) \cap mem.free = {}
       /\ \A q \in Procs \ {p} : Has(p) \cap Has(q) = {}
       /\ Cardinality(Has(p)) = Cardinality(DOMAIN ps[p].t.dir) + Cardinality(DOMAIN ps[p].t.pte \ {7})
  /\ mem.free \cup UNION {Has(p) : p \in Procs} = DOMAIN mem.data

\* A process finds in its memory what its own calls put there, and nothing of
\* another's: pages that are there hold it, and the others are still all zero.
MemoryPrivate ==
  \A p \in Procs : \A c \in DOMAIN as[p] :
    as[p][c] = IF vpn(c) \in DOMAIN ps[p].t.pte THEN Cell(p, c) ELSE 0

\* No call runs into a panic of vm.c or exec.c (remap, freewalk of a leaf,
\* loadseg), and a fork, exec or sbrk that fails has no effect: every process
\* has the size and the memory it had, and fork and exec give back every page
\* they took.
CallsAtomic ==
  [][/\ ~vpanic'
     /\ (last'.ret = -1 /\ last'.call \in {"fork", "exec", "sbrk"}) =>
          /\ as' = as /\ \A p \in Procs : ps'[p].sz = ps[p].sz
          /\ last'.call # "sbrk" => mem'.free = mem.free]_vvars
=============================================================================
