--------------------------- MODULE LockFreeQueue ---------------------------
(***************************************************************************)
(* LockFreeRingBuffer (src/include/containers/lock_free_queue.hpp) used by *)
(* one producer thread and one consumer thread.  Each atomic access and    *)
(* each slot access is a step of its thread, in program order; a release  *)
(* store becomes visible only after the writes that precede it, so         *)
(* sequentially consistent interleaving of these steps is what the         *)
(* release/acquire pairs of the code guarantee.                            *)
(*                                                                         *)
(* The producer offers the values 1..MaxItems in order.  When try_push     *)
(* returns false the caller may retry or drop the value (the pipeline      *)
(* drops it).                                                              *)
(***************************************************************************)
EXTENDS Naturals, Sequences, SequencesExt

CONSTANTS
    Capacity,   \* the template parameter; a power of two
    MaxItems    \* number of values the producer offers

ASSUME Capacity \in {2, 4, 8, 16} /\ MaxItems \in Nat \ {0}

VARIABLES
    head, tail,   \* head_ and tail_, already masked
    buffer,       \* buffer_[0 .. Capacity-1]
    ppc, pct,     \* producer: step of try_push, its current_tail
    pnext,        \* next value the producer offers
    cpc, cch,     \* consumer: step of try_pop, its current_head
    citem,        \* the consumer's out parameter
    pushed,       \* values for which try_push returned true, in order
    consumed      \* values for which try_pop returned true, in order

vars == <<head, tail, buffer, ppc, pct, pnext, cpc, cch, citem, pushed, consumed>>

\* `(x + 1) & MASK` with MASK = Capacity - 1.
Succ(x) == (x + 1) % Capacity

Init ==
    /\ head = 0 /\ tail = 0
    /\ buffer = [i \in 0..Capacity - 1 |-> 0]     \* new T[Capacity]{}
    /\ ppc = "idle" /\ pct = 0 /\ pnext = 1
    /\ cpc = "idle" /\ cch = 0 /\ citem = 0
    /\ pushed = <<>> /\ consumed = <<>>

\* Mutant: the full test left out.
PushCheckNoFullTest ==
    /\ ppc = "idle" /\ pnext <= MaxItems
    /\ ppc' = "write" /\ pct' = tail /\ UNCHANGED pnext
    /\ UNCHANGED <<head, tail, buffer, cpc, cch, citem, pushed, consumed>>

\* try_push, lines 28-32: load tail_ (own index), acquire-load head_; full
\* when the next tail would meet head.  A full queue returns false: the
\* caller retries (no state changes) or drops the value.
PushCheck ==
    /\ ppc = "idle" /\ pnext <= MaxItems
    /\ IF Succ(tail) = head
       THEN \/ pnext' = pnext + 1 /\ UNCHANGED <<ppc, pct>>
            \/ UNCHANGED <<ppc, pct, pnext>>
       ELSE ppc' = "write" /\ pct' = tail /\ UNCHANGED pnext
    /\ UNCHANGED <<head, tail, buffer, cpc, cch, citem, pushed, consumed>>

\* Line 33: buffer_[current_tail] = item.
PushWrite ==
    /\ ppc = "write"
    /\ buffer' = [buffer EXCEPT ![pct] = pnext]
    /\ ppc' = "publish"
    /\ UNCHANGED <<head, tail, pct, pnext, cpc, cch, citem, pushed, consumed>>

\* Mutant: the next tail not masked.
PushPublishUnmasked ==
    /\ ppc = "publish"
    /\ tail' = pct + 1
    /\ pushed' = Append(pushed, pnext)
    /\ pnext' = pnext + 1 /\ ppc' = "idle"
    /\ UNCHANGED <<head, buffer, pct, cpc, cch, citem, consumed>>

\* Line 34: release-store of the next tail; try_push returns true.
PushPublish ==
    /\ ppc = "publish"
    /\ tail' = Succ(pct)
    /\ pushed' = Append(pushed, pnext)
    /\ pnext' = pnext + 1 /\ ppc' = "idle"
    /\ UNCHANGED <<head, buffer, pct, cpc, cch, citem, consumed>>

\* Mutant: a queue holding one item taken for empty.
PopCheckOffByOne ==
    /\ cpc = "idle"
    /\ IF Succ(head) = tail \/ head = tail
       THEN UNCHANGED <<cpc, cch>>
       ELSE cpc' = "read" /\ cch' = head
    /\ UNCHANGED <<head, tail, buffer, ppc, pct, pnext, citem, pushed, consumed>>

\* Mutant: the empty test left out.
PopCheckNoEmptyTest ==
    /\ cpc = "idle"
    /\ cpc' = "read" /\ cch' = head
    /\ UNCHANGED <<head, tail, buffer, ppc, pct, pnext, citem, pushed, consumed>>

\* try_pop, lines 40-43: load head_ (own index), acquire-load tail_; an
\* empty queue returns false and the consumer spins.
PopCheck ==
    /\ cpc = "idle"
    /\ IF head = tail
       THEN UNCHANGED <<cpc, cch>>
       ELSE cpc' = "read" /\ cch' = head
    /\ UNCHANGED <<head, tail, buffer, ppc, pct, pnext, citem, pushed, consumed>>

\* Line 44: item = buffer_[current_head].
PopRead ==
    /\ cpc = "read"
    /\ citem' = buffer[cch]
    /\ cpc' = "release"
    /\ UNCHANGED <<head, tail, buffer, ppc, pct, pnext, cch, pushed, consumed>>

\* Line 45: release-store of the next head; try_pop returns true.
PopRelease ==
    /\ cpc = "release"
    /\ head' = Succ(cch)
    /\ consumed' = Append(consumed, citem)
    /\ cpc' = "idle"
    /\ UNCHANGED <<tail, buffer, ppc, pct, pnext, cch, citem, pushed>>

Producer == PushCheck \/ PushWrite \/ PushPublish
Consumer == PopCheck \/ PopRead \/ PopRelease
Next == Producer \/ Consumer

\* Both are dedicated threads that spin on their queue operations.
Spec == Init /\ [][Next]_vars /\ WF_vars(Producer) /\ WF_vars(Consumer)

-----------------------------------------------------------------------------
(* Properties.                                                             *)

TypeOK ==
    /\ head \in 0..Capacity - 1 /\ tail \in 0..Capacity - 1
    /\ buffer \in [0..Capacity - 1 -> 0..MaxItems]
    /\ ppc \in {"idle", "write", "publish"} /\ cpc \in {"idle", "read", "release"}
    /\ pnext \in 1..MaxItems + 1 /\ citem \in 0..MaxItems

\* The producer never writes the slot the consumer is about to copy: the
\* element is trivially copyable and unsynchronised, so this would be a data
\* race (undefined behaviour) on the slot.
NoDataRace == ~(ppc = "write" /\ cpc = "read" /\ pct = cch)

\* The items between head_ and tail_, oldest first.
Contents ==
    [i \in 1..((tail - head + Capacity) % Capacity) |-> buffer[(head + i - 1) % Capacity]]

Fifo == INSTANCE BoundedFifo WITH Cap <- Capacity - 1, Values <- 1..MaxItems,
                                  q <- Contents, out <- consumed

\* Spec 4.1 and P1/P2: the ring buffer implements a FIFO of capacity
\* Capacity-1 whose consumer receives exactly the pushed values, in push
\* order, each once; a publish of tail_ is an enqueue and a publish of head_
\* a dequeue.
QueueRefinesFifo == Fifo!Spec

\* Every value whose try_push returned true is eventually returned by a
\* try_pop of the spinning consumer.
EveryPushConsumed ==
    \A v \in 1..MaxItems : (v \in ToSet(pushed)) ~> (v \in ToSet(consumed))
=============================================================================
