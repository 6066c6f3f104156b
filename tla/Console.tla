------------------------------ MODULE Console ------------------------------
(***************************************************************************)
(* The console: consoleread() in processes, uartwrite() in processes, and   *)
(* uartintr() with consoleintr() in the handler of the UART's interrupt,    *)
(* which the PLIC lets one hart at a time claim.  The UART sends what is    *)
(* in its holding register, and asks for an interrupt when the register     *)
(* has become empty and while a character waits to be read.                 *)
(*                                                                         *)
(* Characters are "x" for any letter and the ones the code tells apart.     *)
(* queue and line are what consoleread() ought to return and what is still  *)
(* being edited; nothing reads them.                                        *)
(***************************************************************************)
EXTENDS Integers, Sequences

CONSTANTS Readers, Writers,
          INPUT_BUF_SIZE,
          CharWrap,     \* r, w and e are modulo this: 2^32 in the code
          MaxRead       \* bound on the n of a read()

ASSUME ConsoleAssumption ==
  /\ INPUT_BUF_SIZE \in Nat \ {0}
  /\ CharWrap \in Nat /\ INPUT_BUF_SIZE < CharWrap /\ CharWrap % INPUT_BUF_SIZE = 0

VARIABLES
  cbuf, r, w, e,     \* cons
  reader,            \* reader -> [pc, n, target, killed]
  tx_busy,
  writer,            \* writer -> [pc, n]
  idle, rx,          \* LSR_TX_IDLE and LSR_RX_READY
  tx_irq,            \* the UART asks for an interrupt: THR has become empty
  hpc,               \* the handler
  queue, line

cvars == <<cbuf, r, w, e, reader, queue, line>>
uvars == <<tx_busy, writer>>
rvars == <<cvars, uvars, idle, rx, tx_irq, hpc>>

Chars == {"x", "nl", "^D", "^U", "^H"}
Plus(i, k) == (i + k) % CharWrap
Slot(i) == i % INPUT_BUF_SIZE
InUser == [pc |-> "user", n |-> 0, target |-> 0, killed |-> FALSE]

CInit ==
  /\ cbuf = [i \in 0 .. INPUT_BUF_SIZE - 1 |-> "x"]
  /\ r = 0 /\ w = 0 /\ e = 0
  /\ reader = [p \in Readers |-> InUser]
  /\ tx_busy = FALSE /\ writer = [p \in Writers |-> [pc |-> "user", n |-> 0]]
  /\ idle = TRUE /\ rx = FALSE /\ tx_irq = FALSE
  /\ hpc = "out"
  /\ queue = <<>> /\ line = <<>>

-----------------------------------------------------------------------------
\* consoleread()

\* What the readers have before them, and the k-th character after the next.
Available == Plus(w, -r)
CharAt(k) == cbuf[Slot(Plus(r, k))]

Take(k) == r' = Plus(r, k) /\ queue' = SubSeq(queue, k + 1, Len(queue))
Leave(p, next) == reader' = [reader EXCEPT ![p] = next]

\* p has cons.lock and n of target characters to go.  After k characters it has
\* enough, or has to sleep (a killed process returns instead), or has come to
\* the end of the file, which it keeps for the next call if it has something
\* to return, or to the end of a line.  A failed either_copyout() also ends the
\* loop, and loses a character.
ReadLoop(p, n, target) ==
  /\ \E k \in 0 .. Available :
       /\ k <= n /\ \A j \in 0 .. k - 1 : CharAt(j) \notin {"^D", "nl"}
       /\ \/ k = n /\ Take(k) /\ Leave(p, InUser)
          \/ /\ k < n /\ k = Available /\ Take(k)
             /\ Leave(p, IF reader[p].killed THEN InUser
                         ELSE [pc |-> "asleep", n |-> n - k, target |-> target, killed |-> FALSE])
          \/ /\ k < n /\ k < Available /\ CharAt(k) = "^D"
             /\ Take(IF n - k < target THEN k ELSE k + 1) /\ Leave(p, InUser)
          \/ /\ k < n /\ k < Available /\ CharAt(k) # "^D"
             /\ Take(k + 1) /\ Leave(p, InUser)
  /\ UNCHANGED <<cbuf, w, e, line, uvars, idle, rx, tx_irq, hpc>>

consoleread(p) == reader[p].pc = "user" /\ \E n \in 1 .. MaxRead : ReadLoop(p, n, n)
readWoken(p) == reader[p].pc = "woken" /\ ReadLoop(p, reader[p].n, reader[p].target)

\* kkill() wakes a sleeping reader, but not one that has looked at killed() and
\* is about to sleep.
readKill(p) ==
  /\ reader[p].pc \in {"asleep", "woken"}
  /\ \E pc \in {reader[p].pc, "woken"} :
       reader' = [reader EXCEPT ![p] = [@ EXCEPT !.pc = pc, !.killed = TRUE]]
  /\ UNCHANGED <<cbuf, r, w, e, queue, line, uvars, idle, rx, tx_irq, hpc>>

-----------------------------------------------------------------------------
\* uartwrite() under tx_lock: a character if the UART is not busy, and sleep if
\* there are more.
Send(p, n) ==
  LET left == IF tx_busy THEN n ELSE n - 1 IN
  /\ idle' = (idle /\ tx_busy) /\ tx_busy' = TRUE
  /\ writer' = [writer EXCEPT ![p] = [pc |-> IF left = 0 THEN "user" ELSE "asleep", n |-> left]]
  /\ UNCHANGED <<cvars, rx, tx_irq, hpc>>

\* consolewrite(), of one or two characters
consolewrite(p) == writer[p].pc = "user" /\ \E n \in 1 .. 2 : Send(p, n)
writeWoken(p) == writer[p].pc = "woken" /\ Send(p, writer[p].n)

-----------------------------------------------------------------------------
\* The handler.

\* devintr() and plic_claim(); ReadReg(ISR) withdraws the request to send.
intrClaim ==
  /\ hpc = "out" /\ (tx_irq \/ rx)
  /\ tx_irq' = FALSE /\ hpc' = "tx"
  /\ UNCHANGED <<cvars, uvars, idle, rx>>

\* Mutant of Sent: the flag is left to the next interrupt.
SentForgets == UNCHANGED <<tx_busy, writer>>

\* tx_busy = 0; wakeup(&tx_chan)
Sent ==
  /\ tx_busy' = FALSE
  /\ writer' = [p \in Writers |-> IF writer[p].pc = "asleep" THEN [writer[p] EXCEPT !.pc = "woken"] ELSE writer[p]]

intrTx ==
  /\ hpc = "tx"
  /\ IF idle THEN Sent ELSE UNCHANGED <<tx_busy, writer>>
  /\ hpc' = "rx"
  /\ UNCHANGED <<cvars, idle, rx, tx_irq>>

WakeReaders ==
  [p \in Readers |-> IF reader[p].pc = "asleep" THEN [reader[p] EXCEPT !.pc = "woken"] ELSE reader[p]]

\* ^U takes k characters back: down to the end of the last line.
Killed(k) ==
  /\ \A j \in 1 .. k : cbuf[Slot(Plus(e, -j))] # "nl"
  /\ k = Plus(e, -w) \/ cbuf[Slot(Plus(e, -(k + 1)))] = "nl"

Erase(k) ==
  /\ e' = Plus(e, -k)
  /\ line' = SubSeq(line, 1, Len(line) - k)
  /\ UNCHANGED <<cbuf, w, reader, queue>>

\* Mutant of Fits: one character too many.
FitsOneMore == Plus(e, -r) <= INPUT_BUF_SIZE

Fits == Plus(e, -r) < INPUT_BUF_SIZE

\* Store c; the end of a line, of file or of the buffer hands it all over.
StoreChar(c) ==
  /\ cbuf' = [cbuf EXCEPT ![Slot(e)] = c]
  /\ e' = Plus(e, 1)
  /\ IF c \in {"nl", "^D"} \/ Plus(e', -r) = INPUT_BUF_SIZE
     THEN w' = e' /\ reader' = WakeReaders /\ queue' = queue \o Append(line, c) /\ line' = <<>>
     ELSE line' = Append(line, c) /\ UNCHANGED <<w, reader, queue>>

\* uartgetc() and consoleintr().  The echo goes through uartputc_sync(), which
\* spins until the register is empty.
intrRx ==
  /\ hpc = "rx" /\ rx /\ idle
  /\ rx' = FALSE
  /\ \E c \in Chars :
       CASE c = "^U" -> \E k \in 0 .. Plus(e, -w) : Killed(k) /\ Erase(k) /\ idle' = (k = 0)
         [] c = "^H" -> Erase(IF e = w THEN 0 ELSE 1) /\ idle' = (e = w)
         [] OTHER -> IF Fits THEN StoreChar(c) /\ idle' = FALSE
                     ELSE UNCHANGED <<cbuf, e, w, reader, queue, line, idle>>
  /\ UNCHANGED <<r, uvars, tx_irq, hpc>>

\* uartgetc() finds nothing: plic_complete()
intrDone ==
  /\ hpc = "rx" /\ ~rx /\ hpc' = "out"
  /\ UNCHANGED <<cvars, uvars, idle, rx, tx_irq>>

\* The UART.
Transmit == ~idle /\ idle' = TRUE /\ tx_irq' = TRUE /\ UNCHANGED <<cvars, uvars, rx, hpc>>
Receive == ~rx /\ rx' = TRUE /\ UNCHANGED <<cvars, uvars, idle, tx_irq, hpc>>

CNext ==
  \/ \E p \in Readers : consoleread(p) \/ readWoken(p) \/ readKill(p)
  \/ \E p \in Writers : consolewrite(p) \/ writeWoken(p)
  \/ intrClaim \/ intrTx \/ intrRx \/ intrDone \/ Transmit \/ Receive

CSpec == CInit /\ [][CNext]_rvars

-----------------------------------------------------------------------------
\* What is in the buffer, from i on.
Held(i, s) == \A k \in 1 .. Len(s) : cbuf[Slot(Plus(i, k - 1))] = s[k]

\* read() returns what was typed, edited line by line, in order and with
\* nothing lost or overwritten, also when the buffer is full and when the
\* indices have wrapped; and no reader sleeps while there is something to read.
InputInOrder ==
  /\ Plus(w, -r) = Len(queue) /\ Held(r, queue)
  /\ Plus(e, -w) = Len(line) /\ Held(w, line)
  /\ \A p \in Readers : reader[p].pc = "asleep" => r = w

\* A writer that waits for tx_busy to be cleared will see it: the register is
\* still full, or the UART asks for an interrupt, or the handler has yet to
\* look at the register.  Echoed characters, which share the register and
\* know nothing of tx_busy, do not lose the interrupt.
TransmitGoesOn ==
  /\ tx_busy => (~idle \/ tx_irq \/ hpc = "tx")
  /\ \A p \in Writers : writer[p].pc = "asleep" => tx_busy
=============================================================================
