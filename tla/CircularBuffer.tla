--------------------------- MODULE CircularBuffer ---------------------------
(***************************************************************************)
(* CircularBuffer<T, Capacity> (src/include/containers/circular_buffer.hpp)*)
(* as a value: the heap array buffer_ (slots 0..Capacity-1), write_pos_    *)
(* and count_.  The buffer is not shared between threads, so each member   *)
(* function is an operator from buffer values to buffer values or         *)
(* elements, and a module that owns buffers keeps them in its variables.   *)
(* RetainedOf is the reference: what spec 4.3 says the logical view is.    *)
(***************************************************************************)
EXTENDS Integers, Sequences

\* The constructor: Capacity value-initialised slots, nothing retained.
CBNew(cap) == [buf |-> [k \in 0..cap - 1 |-> 0], write_pos |-> 0, count |-> 0, cap |-> cap]

\* push_back: overwrite the slot at write_pos_, advance it modulo the
\* capacity, and count up to the capacity.
PushBack(b, v) ==
    [b EXCEPT !.buf[b.write_pos] = v,
              !.write_pos = (@ + 1) % b.cap,
              !.count = IF @ < b.cap THEN @ + 1 ELSE @]

\* Mutant: logical index 0 is always the slot at write_pos_.
StartAtWritePos(b) == b.write_pos

\* The physical slot of logical index 0 (operator[] and front()).
Start(b) == IF b.count < b.cap THEN 0 ELSE b.write_pos

\* operator[](idx), back(), front(), size().
At(b, idx) == b.buf[(Start(b) + idx) % b.cap]
Back(b) == b.buf[(b.write_pos + b.cap - 1) % b.cap]
Front(b) == b.buf[Start(b)]
Size(b) == b.count

\* The elements begin() .. end() visit, oldest first.
Elements(b) == [k \in 1..b.count |-> At(b, k - 1)]

\* Reference: after the pushes h, the last min(Len(h), cap) of them.
RetainedOf(h, cap) ==
    IF Len(h) <= cap THEN h ELSE SubSeq(h, Len(h) - cap + 1, Len(h))
=============================================================================
