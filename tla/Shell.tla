------------------------------- MODULE Shell --------------------------------
(***************************************************************************)
(* The shell of user/sh.c: its parser, and runcmd() in the processes it     *)
(* forks, with the descriptors they inherit, open, duplicate and close in   *)
(* the file table of kernel/file.c.                                         *)
(*                                                                         *)
(* A line is a sequence of tokens, as gettoken() returns them: words,       *)
(* "|", "&", ";", "(", ")", "<", ">" and "+" for ">>".  A program that       *)
(* exec() starts reads its standard input to the end and exits: it stays    *)
(* for as long as some descriptor can still write to the pipe it reads.     *)
(***************************************************************************)
EXTENDS Integers, Sequences, FiniteSets, SequencesExt

CONSTANTS Sessions,    \* [lines, nproc, tokens]: the lines that may be run, the process
                       \* slots, and the tokens from which lines are only parsed
          MaxTokens,   \* bound on the length of the latter
          NFILE,       \* entries of the file table
          NOFILE,      \* descriptors of a process
          MAXARGS

Marks == {"|", "&", ";", "(", ")", "<", ">", "+"}

-----------------------------------------------------------------------------
\* The parser.  A result is [ok, cmd, ts]: ts are the tokens that are left.

execcmd(argv) == [type |-> "EXEC", argv |-> argv]
redircmd(cmd, file, fd) == [type |-> "REDIR", cmd |-> cmd, file |-> file, fd |-> fd]
pipecmd(l, r) == [type |-> "PIPE", left |-> l, right |-> r]
listcmd(l, r) == [type |-> "LIST", left |-> l, right |-> r]
backcmd(c) == [type |-> "BACK", cmd |-> c]

Parsed(cmd, ts) == [ok |-> TRUE, cmd |-> cmd, ts |-> ts]
Panic == [ok |-> FALSE, cmd |-> execcmd(<<>>), ts |-> <<>>]

peek(ts, toks) == ts # <<>> /\ ts[1] \in toks
RedirFd(tok) == IF tok = "<" THEN 0 ELSE 1

RECURSIVE parseredirs(_, _)
parseredirs(cmd, ts) ==
  IF ~peek(ts, {"<", ">", "+"}) THEN Parsed(cmd, ts)
  ELSE IF Len(ts) < 2 \/ ts[2] \in Marks THEN Panic
  ELSE parseredirs(redircmd(cmd, ts[2], RedirFd(ts[1])), SubSeq(ts, 3, Len(ts)))

\* The arguments are put into the innermost command, under its redirections.
RECURSIVE AddArg(_, _)
AddArg(cmd, word) ==
  IF cmd.type = "REDIR" THEN [cmd EXCEPT !.cmd = AddArg(@, word)]
  ELSE [cmd EXCEPT !.argv = Append(@, word)]

RECURSIVE parseargs(_, _)
parseargs(x, argc) ==
  IF ~x.ok \/ x.ts = <<>> \/ peek(x.ts, {"|", ")", "&", ";"}) THEN x
  ELSE IF x.ts[1] \in Marks \/ argc + 1 >= MAXARGS THEN Panic
  ELSE parseargs(parseredirs(AddArg(x.cmd, x.ts[1]), Tail(x.ts)), argc + 1)

RECURSIVE takeBacks(_)
takeBacks(x) == IF x.ok /\ peek(x.ts, {"&"}) THEN takeBacks(Parsed(backcmd(x.cmd), Tail(x.ts))) ELSE x

RECURSIVE parseline(_)
RECURSIVE parsepipe(_)
RECURSIVE parseblock(_)
RECURSIVE parseexec(_)

parseblock(ts) ==
  LET x == parseline(Tail(ts)) IN
  IF ~x.ok \/ ~peek(x.ts, {")"}) THEN Panic ELSE parseredirs(x.cmd, Tail(x.ts))

parseexec(ts) ==
  IF peek(ts, {"("}) THEN parseblock(ts) ELSE parseargs(parseredirs(execcmd(<<>>), ts), 0)

\* Mutant of parsepipe: a pipeline groups to the left of its last bar.
ParsepipeOnce(ts) ==
  LET x == parseexec(ts) IN
  IF ~x.ok \/ ~peek(x.ts, {"|"}) THEN x
  ELSE LET y == parseexec(Tail(x.ts)) IN
       IF y.ok THEN Parsed(pipecmd(x.cmd, y.cmd), y.ts) ELSE y

parsepipe(ts) ==
  LET x == parseexec(ts) IN
  IF ~x.ok \/ ~peek(x.ts, {"|"}) THEN x
  ELSE LET y == parsepipe(Tail(x.ts)) IN
       IF y.ok THEN Parsed(pipecmd(x.cmd, y.cmd), y.ts) ELSE y

parseline(ts) ==
  LET x == takeBacks(parsepipe(ts)) IN
  IF ~x.ok \/ ~peek(x.ts, {";"}) THEN x
  ELSE LET y == parseline(Tail(x.ts)) IN
       IF y.ok THEN Parsed(listcmd(x.cmd, y.cmd), y.ts) ELSE y

parsecmd(ts) == LET x == parseline(ts) IN IF x.ok /\ x.ts # <<>> THEN Panic ELSE x

-----------------------------------------------------------------------------
\* What a line means, by its outermost marks: ";" binds least, then "&", then
\* "|", each to the right; redirections apply from the first to the last word.

Depth(ts, i) == Cardinality({j \in 1 .. i : ts[j] = "("}) - Cardinality({j \in 1 .. i - 1 : ts[j] = ")"})
Outer(ts, mark) == {i \in DOMAIN ts : ts[i] = mark /\ Depth(ts, i) = 0}
First(S) == CHOOSE i \in S : \A j \in S : i <= j
Before(ts, i) == SubSeq(ts, 1, i - 1)
After(ts, i) == SubSeq(ts, i + 1, Len(ts))

\* Words and redirections only; the files follow their marks.
Plain(ts) == \A i \in DOMAIN ts :
  /\ ts[i] \notin {"|", "&", ";", "(", ")"}
  /\ ts[i] \in Marks => i < Len(ts) /\ ts[i + 1] \notin Marks
IsFile(ts, i) == i > 1 /\ ts[i - 1] \in Marks
Args(ts) == LET S == {i \in DOMAIN ts : ts[i] \notin Marks /\ ~IsFile(ts, i)} IN
  [k \in 1 .. Cardinality(S) |-> ts[CHOOSE i \in S : Cardinality({j \in S : j <= i}) = k]]
Files(ts) == {i \in DOMAIN ts : IsFile(ts, i)}
Redirected(cmd, ts) ==
  FoldLeft(LAMBDA c, i : redircmd(c, ts[i], RedirFd(ts[i - 1])), cmd, SetToSortSeq(Files(ts), <))

RECURSIVE Meaning(_)
Meaning(ts) ==
  LET semi == Outer(ts, ";")
      bar == Outer(ts, "|")
      right == {i \in DOMAIN ts : ts[i] = ")" /\ Depth(ts, i) = 1}
      both(i, make(_, _)) ==
        LET l == Meaning(Before(ts, i))
            r == Meaning(After(ts, i)) IN
        IF l.ok /\ r.ok THEN Parsed(make(l.cmd, r.cmd), <<>>) ELSE Panic IN
  IF semi # {} THEN both(First(semi), listcmd)
  ELSE IF ts # <<>> /\ ts[Len(ts)] = "&"
  THEN LET l == Meaning(Before(ts, Len(ts))) IN IF l.ok THEN Parsed(backcmd(l.cmd), <<>>) ELSE Panic
  ELSE IF Outer(ts, "&") # {} THEN Panic
  ELSE IF bar # {} THEN both(First(bar), pipecmd)
  ELSE IF ts # <<>> /\ ts[1] = "("
  THEN IF right = {} THEN Panic
       ELSE LET m == First(right)
                in == Meaning(SubSeq(ts, 2, m - 1)) IN
            IF in.ok /\ Plain(After(ts, m)) /\ Args(After(ts, m)) = <<>>
            THEN Parsed(Redirected(in.cmd, After(ts, m)), <<>>) ELSE Panic
  ELSE IF Plain(ts) /\ Len(Args(ts)) < MAXARGS THEN Parsed(Redirected(execcmd(Args(ts)), ts), <<>>)
  ELSE Panic

-----------------------------------------------------------------------------
\* The processes and the file table.  want is what the command line says the
\* standard input and output of the process should be.

VARIABLES session, typed, procs, ftable, shell, halted
shvars == <<session, typed, procs, ftable, shell, halted>>

Slots == 1 .. session.nproc
Fds == 0 .. NOFILE - 1
None == <<"none", 0>>
ConsFile == <<"console", 0>>
Free == [st |-> "free", pc |-> "", cmd |-> execcmd(<<>>), parent |-> 0,
         ofile |-> [fd \in Fds |-> 0], pip |-> <<0, 0>>, want |-> <<ConsFile, ConsFile>>]

\* Init after main() has opened the console and duplicated it twice.
ShInit ==
  /\ session \in Sessions
  /\ typed = <<>>
  /\ procs = [p \in Slots |-> IF p = 1
                THEN [Free EXCEPT !.st = "live", !.pc = "start",
                                  !.ofile = [fd \in Fds |-> IF fd < 3 THEN 1 ELSE 0]]
                ELSE Free]
  /\ ftable = [f \in 1 .. NFILE |-> IF f = 1 THEN [ref |-> 3, what |-> ConsFile]
                                    ELSE [ref |-> 0, what |-> None]]
  /\ shell = 0
  /\ halted = FALSE

-----------------------------------------------------------------------------
\* The system calls on descriptors, as functions of [of, ft, ret, pip]: the
\* descriptors of the caller, the file table and the result of the call; pip
\* are the descriptors pipe() returns.

SysState(p) == [of |-> procs[p].ofile, ft |-> ftable, ret |-> 0, pip |-> <<0, 0>>]
Failed(s) == [s EXCEPT !.ret = -1]

filealloc(ft) == LET S == {f \in DOMAIN ft : ft[f].ref = 0} IN IF S = {} THEN 0 ELSE First(S)

filedup(ft, f) == [ft EXCEPT ![f].ref = @ + 1]

fileclose(ft, f) == [ft EXCEPT ![f] =
  IF @.ref > 1 THEN [@ EXCEPT !.ref = @ - 1] ELSE [ref |-> 0, what |-> None]]

fdalloc(s, f) == LET S == {fd \in Fds : s.of[fd] = 0} IN
  IF S = {} THEN Failed(s) ELSE [s EXCEPT !.of[First(S)] = f, !.ret = First(S)]

sys_close(s, fd) == LET f == s.of[fd] IN
  IF f = 0 THEN Failed(s) ELSE [s EXCEPT !.of[fd] = 0, !.ft = fileclose(@, f), !.ret = 0]

sys_dup(s, fd) == LET f == s.of[fd]
                      t == fdalloc(s, f) IN
  IF f = 0 \/ t.ret = -1 THEN Failed(s) ELSE [t EXCEPT !.ft = filedup(@, f)]

\* sys_open(): the file first, then the descriptor, undone when there is none.
sys_open(s, what) ==
  LET f == filealloc(s.ft)
      t == fdalloc([s EXCEPT !.ft[f] = [ref |-> 1, what |-> what]], f) IN
  IF f = 0 THEN Failed(s)
  ELSE IF t.ret = -1 THEN [t EXCEPT !.ft = fileclose(@, f)] ELSE t

\* A name for the pipe that kalloc() returns.
PipeId(ft) == First({k \in 1 .. NFILE : \A f \in DOMAIN ft : ft[f].what \notin {<<"r", k>>, <<"w", k>>}})

\* pipealloc() and sys_pipe(); pip is the pair of descriptors.
sys_pipe(s) ==
  LET r == filealloc(s.ft)
      s1 == [s EXCEPT !.ft[r] = [ref |-> 1, what |-> <<"r", PipeId(s.ft)>>]]
      w == filealloc(s1.ft)
      s2 == [s1 EXCEPT !.ft[w] = [ref |-> 1, what |-> <<"w", PipeId(s.ft)>>]]
      a == fdalloc(s2, r)
      b == fdalloc(a, w) IN
  IF r = 0 \/ w = 0 THEN Failed(s)
  ELSE IF a.ret = -1 \/ b.ret = -1
  THEN Failed([s EXCEPT !.ft = fileclose(fileclose(s2.ft, r), w)])
  ELSE [b EXCEPT !.pip = <<a.ret, b.ret>>]

-----------------------------------------------------------------------------
\* Processes.  The calls a process makes between two that concern another one
\* (fork, wait, exit, a program's last read) are one step.

Live(p, pc) == ~halted /\ procs[p].st = "live" /\ procs[p].pc = pc

\* kexit(): the descriptors closed, the children given to init.
Exit(p) ==
  /\ ftable' = FoldSet(LAMBDA fd, ft : IF procs[p].ofile[fd] = 0 THEN ft ELSE fileclose(ft, procs[p].ofile[fd]),
                       ftable, Fds)
  /\ procs' = [q \in Slots |->
       IF q = p THEN [Free EXCEPT !.st = "zombie", !.parent = procs[p].parent]
       ELSE [procs[q] EXCEPT !.parent = IF @ = p THEN 1 ELSE @]]
  /\ UNCHANGED <<shell, halted>>

Unused == {q \in Slots : procs[q].st = "free"}

\* fork1(): the child takes a free slot and all descriptors; panic() without.
\* The parent goes on as me, the child as kid.
Fork(p, me, kid) ==
  IF Unused = {} THEN Exit(p)
  ELSE /\ procs' = [procs EXCEPT ![p] = me,
                                 ![First(Unused)] = [kid EXCEPT !.parent = p, !.st = "live"]]
       /\ ftable' = FoldSet(LAMBDA fd, ft : IF procs[p].ofile[fd] = 0 THEN ft ELSE filedup(ft, procs[p].ofile[fd]),
                            ftable, Fds)
       /\ UNCHANGED <<shell, halted>>

\* wait(0): a child that has exited is freed.
Wait(p, me) ==
  /\ \E q \in Slots : /\ procs[q].st = "zombie" /\ procs[q].parent = p
                      /\ procs' = [procs EXCEPT ![q] = Free, ![p] = me]
  /\ UNCHANGED <<ftable, shell, halted>>

\* The process goes on as me with the descriptors and the table of s.
Called(p, s, me) ==
  /\ procs' = [procs EXCEPT ![p] = [me EXCEPT !.ofile = s.of]]
  /\ ftable' = s.ft
  /\ UNCHANGED <<shell, halted>>

At(p, pc) == [procs[p] EXCEPT !.pc = pc]
Run(p, cmd) == [procs[p] EXCEPT !.pc = "run", !.cmd = cmd]

\* getcmd() and the loop of main(): end of file, or a line for a child that
\* parses it, and exits when there is a syntax error.
main(p) ==
  /\ Live(p, "prompt")
  /\ \/ Exit(p)
     \/ \E line \in session.lines :
          LET x == parsecmd(line) IN
          Fork(p, At(p, "waitcmd"), IF x.ok THEN Run(p, x.cmd) ELSE At(p, "exit"))

waitcmd(p) == Live(p, "waitcmd") /\ Wait(p, At(p, "prompt"))

runcmd_exec(p) ==
  /\ Live(p, "run") /\ procs[p].cmd.type = "EXEC"
  /\ \/ Exit(p)
     \/ /\ procs[p].cmd.argv # <<>>
        /\ Called(p, SysState(p), At(p, "program"))

\* The mode of the file is left out; open() may also fail for want of it.
runcmd_redir(p) ==
  LET c == procs[p].cmd
      s == sys_open(sys_close(SysState(p), c.fd), <<c.file, 0>>) IN
  /\ Live(p, "run") /\ c.type = "REDIR"
  /\ \/ Exit(p)
     \/ /\ s.ret # -1
        /\ Called(p, s, [Run(p, c.cmd) EXCEPT !.want[c.fd + 1] = <<c.file, 0>>])

runcmd_list(p) ==
  /\ Live(p, "run") /\ procs[p].cmd.type = "LIST"
  /\ Fork(p, At(p, "list"), Run(p, procs[p].cmd.left))

listWait(p) == Live(p, "list") /\ Wait(p, Run(p, procs[p].cmd.right))

runcmd_back(p) ==
  /\ Live(p, "run") /\ procs[p].cmd.type = "BACK"
  /\ Fork(p, At(p, "exit"), Run(p, procs[p].cmd.cmd))

runcmd_pipe(p) ==
  LET s == sys_pipe(SysState(p)) IN
  /\ Live(p, "run") /\ procs[p].cmd.type = "PIPE"
  /\ IF s.ret = -1 THEN Exit(p) ELSE Called(p, s, [At(p, "pipe") EXCEPT !.pip = s.pip])

\* The two forks, and the closes of the parent.
pipeFork(p) ==
  LET k == ftable[procs[p].ofile[procs[p].pip[1]]].what[2] IN
  \/ /\ Live(p, "pipe")
     /\ Fork(p, At(p, "pipe2"), [At(p, "left") EXCEPT !.want[2] = <<"w", k>>])
  \/ /\ Live(p, "pipe2")
     /\ Fork(p, At(p, "pipe3"), [At(p, "right") EXCEPT !.want[1] = <<"r", k>>])

pipeClose(p) ==
  LET q == procs[p].pip
      s == sys_close(sys_close(SysState(p), q[1]), q[2]) IN
  /\ Live(p, "pipe3")
  /\ Called(p, s, At(p, "wait2"))

\* Mutant of pipeLeft: dup() comes before close(1).
PipeLeftEarly(p) ==
  LET q == procs[p].pip
      s == sys_close(sys_dup(SysState(p), q[2]), 1) IN
  /\ Live(p, "left")
  /\ Called(p, sys_close(sys_close(s, q[1]), q[2]), Run(p, procs[p].cmd.left))

pipeLeft(p) ==
  LET q == procs[p].pip
      s == sys_dup(sys_close(SysState(p), 1), q[2]) IN
  /\ Live(p, "left")
  /\ Called(p, sys_close(sys_close(s, q[1]), q[2]), Run(p, procs[p].cmd.left))

\* Mutant of pipeRight: the write end stays open in the reader.
PipeRightKeeps(p) ==
  LET q == procs[p].pip
      s == sys_dup(sys_close(SysState(p), 0), q[1]) IN
  /\ Live(p, "right")
  /\ Called(p, sys_close(s, q[1]), Run(p, procs[p].cmd.right))

pipeRight(p) ==
  LET q == procs[p].pip
      s == sys_dup(sys_close(SysState(p), 0), q[1]) IN
  /\ Live(p, "right")
  /\ Called(p, sys_close(sys_close(s, q[1]), q[2]), Run(p, procs[p].cmd.right))

pipeWait(p) == \/ Live(p, "wait2") /\ Wait(p, At(p, "wait1"))
               \/ Live(p, "wait1") /\ Wait(p, At(p, "exit"))

exit(p) == Live(p, "exit") /\ Exit(p)

\* What a descriptor refers to, and whether a pipe still has a writer.
Open(p, fd) == LET f == procs[p].ofile[fd] IN IF f = 0 THEN None ELSE ftable[f].what
HasWriter(k) == \E f \in DOMAIN ftable : ftable[f].what = <<"w", k>>

\* A program reads its standard input to the end.
program(p) ==
  /\ Live(p, "program")
  /\ Open(p, 0)[1] = "r" => ~HasWriter(Open(p, 0)[2])
  /\ Exit(p)

\* init.c: a shell is started; when it is reaped another one is, orphans are
\* reaped as they come.  Without a slot init exits, and the kernel panics.
init_fork ==
  /\ Live(1, "start") /\ session.tokens = {}
  /\ IF Unused = {} THEN halted' = TRUE /\ UNCHANGED <<procs, ftable, shell>>
     ELSE /\ procs' = [procs EXCEPT ![1].pc = "wait",
                         ![First(Unused)] = [At(1, "prompt") EXCEPT !.parent = 1]]
          /\ ftable' = [ftable EXCEPT ![1].ref = @ + 3]
          /\ shell' = First(Unused)
          /\ UNCHANGED halted

init_wait ==
  /\ Live(1, "wait")
  /\ \E q \in Slots : /\ procs[q].st = "zombie" /\ procs[q].parent = 1
                      /\ procs' = [procs EXCEPT ![q] = Free,
                                                ![1].pc = IF q = shell THEN "start" ELSE "wait"]
                      /\ shell' = IF q = shell THEN 0 ELSE shell
  /\ UNCHANGED <<ftable, halted>>

\* Another token of a line that is parsed and not run.
type ==
  /\ Len(typed) < MaxTokens
  /\ \E tok \in session.tokens : typed' = Append(typed, tok)
  /\ UNCHANGED <<session, procs, ftable, shell, halted>>

ShNext ==
  \/ type
  \/ UNCHANGED <<session, typed>> /\ (
     \/ init_fork \/ init_wait
     \/ \E p \in Slots :
          \/ main(p) \/ waitcmd(p) \/ runcmd_exec(p) \/ runcmd_redir(p) \/ runcmd_list(p) \/ listWait(p)
          \/ runcmd_back(p) \/ runcmd_pipe(p) \/ pipeFork(p) \/ pipeClose(p) \/ pipeLeft(p) \/ pipeRight(p)
          \/ pipeWait(p) \/ exit(p) \/ program(p))

ShSpec == ShInit /\ [][ShNext]_shvars

-----------------------------------------------------------------------------
\* The parser gives a line the meaning that its outermost marks give it, and
\* refuses it exactly when it has none: parseline() and the functions below it
\* nest lists, pipelines, blocks, redirections and arguments as they should.
ParsesAsMeant ==
  LET x == parsecmd(typed)
      y == Meaning(typed) IN
  x.ok = y.ok /\ (x.ok => x.cmd = y.cmd)

\* A program runs with the standard input and output its command line gives
\* it through pipes and redirections, with the console as standard error and
\* with no other descriptor, whatever runcmd() closed, duplicated and opened
\* in this process and in those it was forked from.
Plumbed == \A p \in Slots : Live(p, "program") =>
  /\ <<Open(p, 0), Open(p, 1), Open(p, 2)>> = procs[p].want \o <<ConsFile>>
  /\ \A fd \in Fds : fd > 2 => procs[p].ofile[fd] = 0

\* End of file is not waited for in a circle: neither a program that reads a
\* pipe nor a shell that waits for it can write to the pipe (runcmd()'s
\* closes), and a file of the table is in use as long as descriptors of
\* processes refer to it and no longer, failed calls and exits included.
RECURSIVE WaitsOn(_, _)
WaitsOn(q, p) == p # 0 /\ (q = p \/ (procs[p].parent # 1 /\ WaitsOn(q, procs[p].parent)))
EofArrives ==
  /\ \A p \in Slots : Live(p, "program") /\ Open(p, 0)[1] = "r" =>
       \A q \in Slots, fd \in Fds :
         WaitsOn(q, p) /\ (q = p \/ procs[q].pc \in {"wait1", "wait2", "list", "waitcmd"}) =>
           Open(q, fd) # <<"w", Open(p, 0)[2]>>
  /\ \A f \in DOMAIN ftable :
       ftable[f].ref = Cardinality({x \in Slots \X Fds : procs[x[1]].ofile[x[2]] = f})
=============================================================================
