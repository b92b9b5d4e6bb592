----------------------------- MODULE RingBuffer -----------------------------
(***************************************************************************)
(* libs/ring_buffer.c: a circular buffer under a mutex.  Every operation    *)
(* holds the mutex from its first line to its last, so each is one step.    *)
(* One entry stays free to tell a full buffer from an empty one.            *)
(***************************************************************************)
EXTENDS Integers, Sequences

CONSTANTS
  Byte,    \* what a byte of the stream can be
  size     \* entries of the buffer

ASSUME RingAssumption == Byte # {} /\ size \in Nat \ {0, 1}

VARIABLES buffer, head, tail
ring == <<buffer, head, tail>>

After(i) == (i + 1) % size

FullNever(h, t) == FALSE            \* mutant: overwrites the oldest byte
Full(h, t)      == After(h) = t

\* ring_buffer_init; what malloc left in the buffer is never read.
RingInit == /\ buffer = [i \in 0 .. size - 1 |-> CHOOSE b \in Byte : TRUE]
            /\ head = 0 /\ tail = 0

\* ring_buffer_put: true when the byte is taken
PutOk == ~Full(head, tail)
RingPut(b) ==
  IF PutOk
    THEN /\ buffer' = [buffer EXCEPT ![head] = b]
         /\ head' = After(head)
         /\ UNCHANGED tail
    ELSE UNCHANGED ring

\* ring_buffer_get
EmptyByOrder == head <= tail        \* mutant: a wrapped buffer looks empty
Empty == head = tail
Front == buffer[tail]
RingGet == ~Empty /\ tail' = After(tail) /\ UNCHANGED <<buffer, head>>

\* ring_buffer_count
CountOfSize == (head + size - tail) % (size + 1)   \* mutant: wraps one too late
Count       == (head + size - tail) % size

\* The bytes in the buffer, oldest first.
Contents == [i \in 1 .. (head + size - tail) % size |-> buffer[(tail + i - 1) % size]]

Queue == INSTANCE ByteQueue WITH queue <- Contents, Capacity <- size - 1

\* The circular buffer is a bounded queue of size - 1 bytes.
RingIsQueue == Queue!Spec
=============================================================================
