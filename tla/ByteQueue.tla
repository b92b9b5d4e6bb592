----------------------------- MODULE ByteQueue ------------------------------
(***************************************************************************)
(* What ring_buffer.h promises: a first-in first-out queue of bytes that    *)
(* refuses a byte when it is full.                                          *)
(***************************************************************************)
EXTENDS Naturals, Sequences

CONSTANTS Byte, Capacity
VARIABLE queue

Init == queue = <<>>

Put(b) == queue' = IF Len(queue) < Capacity THEN Append(queue, b) ELSE queue
Get    == queue # <<>> /\ queue' = Tail(queue)

Spec == Init /\ [][Get \/ \E b \in Byte : Put(b)]_queue
=============================================================================
