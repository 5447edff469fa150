-------------------------- MODULE MCLockFreeQueue --------------------------
(* Four slots (three usable) and six values: the indices wrap around and   *)
(* the queue is full and empty many times.                                 *)
EXTENDS LockFreeQueue
=============================================================================
