---------------------------- MODULE BoundedFifo ----------------------------
(***************************************************************************)
(* What a single-producer/single-consumer queue promises (spec 4.1): a     *)
(* FIFO of at most Cap items; enqueue fails when it is full, dequeue when  *)
(* it is empty, and the consumer receives the items in enqueue order.      *)
(***************************************************************************)
EXTENDS Naturals, Sequences

CONSTANTS Cap, Values

VARIABLES q, out

Enq(v) == /\ Len(q) < Cap
          /\ q' = Append(q, v)
          /\ UNCHANGED out

Deq == /\ q # <<>>
       /\ q' = Tail(q)
       /\ out' = Append(out, Head(q))

Init == q = <<>> /\ out = <<>>
Next == (\E v \in Values : Enq(v)) \/ Deq
Spec == Init /\ [][Next]_<<q, out>>
=============================================================================
