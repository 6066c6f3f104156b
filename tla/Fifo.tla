-------------------------------- MODULE Fifo --------------------------------
(***************************************************************************)
(* What a pipe promises: a bounded queue of bytes, delivered once and in   *)
(* the order in which they were accepted.                                  *)
(***************************************************************************)
EXTENDS Naturals, Sequences

CONSTANTS Vals, Capacity

VARIABLES queue, out   \* out is the byte delivered last

vars == <<queue, out>>

Init == queue = <<>> /\ out \in Vals

Put(v) ==
  /\ Len(queue) < Capacity
  /\ queue' = Append(queue, v)
  /\ UNCHANGED out

Get ==
  /\ queue # <<>>
  /\ out' = Head(queue)
  /\ queue' = Tail(queue)

Next == Get \/ \E v \in Vals : Put(v)

Spec == Init /\ [][Next]_vars
=============================================================================
