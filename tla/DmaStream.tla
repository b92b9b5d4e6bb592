----------------------------- MODULE DmaStream -----------------------------
(***************************************************************************)
(* Stream 1 of the STM32H753 DMA model (dma_model.c), programmed as the    *)
(* ADC example does: a block of Block items from ADC1's data register to   *)
(* memory.  The state of the stream is a record; each operator is what a   *)
(* register write or a DMA request does to it.                             *)
(***************************************************************************)
EXTENDS Integers, FiniteSets

CONSTANTS Block,    \* items of the block: what firmware writes to S1NDTR
          Samples   \* values of the 16-bit sample counter

ASSUME StreamAssumption == Block \in Nat \ {0} /\ Samples \in Nat \ {0}

Items  == 0..(Block - 1)
Values == 0..(Samples - 1)
Flags  == {"TCIF", "TEIF"}   \* HTIF is always set along with TCIF

Stream ==
    [en : BOOLEAN, circ : BOOLEAN,   \* S1CR
     ndtr : 0..Block,                \* S1NDTR
     ptr : 0..Block,                 \* S1M0AR, from the block's start
     mapped : BOOLEAN,               \* there is memory at the block
     lisr : SUBSET Flags,
     irq : BOOLEAN,                  \* pending in the interrupt controller
     sample : Values,                \* adc1_dma_sample
     memory : [Items -> Values]]

InitStream ==
    [en |-> FALSE, circ |-> FALSE, ndtr |-> 0, ptr |-> 0, mapped |-> TRUE,
     lisr |-> {}, irq |-> FALSE, sample |-> 0, memory |-> [i \in Items |-> 0]]

-----------------------------------------------------------------------------
(* Register writes.                                                        *)

WriteNdtr(s) == [s EXCEPT !.ndtr = Block]

WriteM0ar(s, mapped) == [s EXCEPT !.ptr = 0, !.mapped = mapped]

WriteStreamCr(s, en, circ) == [s EXCEPT !.en = en, !.circ = circ]

WriteLifcr(s, flags) == [s EXCEPT !.lisr = @ \ flags]

-----------------------------------------------------------------------------
(* A request.                                                              *)

\* Mutant: the interrupt is raised by the flags as they were.
RaiseBefore(s, flag) ==
    [s EXCEPT !.lisr = @ \cup {flag}, !.irq = @ \/ s.lisr # {}]

\* A flag is set, and the interrupt raised: both interrupts are enabled.
Raise(s, flag) == [s EXCEPT !.lisr = @ \cup {flag}, !.irq = TRUE]

\* Mutant: the circular mode reloads the count and not the address.
RewindCount(s) == [s EXCEPT !.ndtr = Block]

\* The reload of circular mode.
Rewind(s) == [s EXCEPT !.ndtr = Block, !.ptr = 0]

\* The end of the block: circular mode starts over, otherwise the stream is
\* disabled.
Complete(s) ==
    LET done == Raise(s, "TCIF")
    IN  IF s.circ THEN Rewind(done) ELSE [done EXCEPT !.en = FALSE]

\* The sample the DMA model makes up for a read of ADC1's data register.
Sampled(s) == [s EXCEPT !.sample = (@ + 1) % Samples]

\* One item moved, the last one ends the block.
Move(s) ==
    LET moved == [s EXCEPT !.memory = [@ EXCEPT ![s.ptr] = s.sample],
                           !.ptr = @ + 1, !.ndtr = @ - 1]
    IN  IF moved.ndtr = 0 THEN Complete(moved) ELSE moved

\* A request of a stream that has items left.  The sample is spent though
\* the write fails; the stream stays enabled then.
Transfer(s) ==
    IF s.mapped THEN Move(Sampled(s)) ELSE Raise(Sampled(s), "TEIF")

\* Mutant: a request of a disabled stream spends a sample.
RequestSpends(s) ==
    CASE ~s.en               -> Sampled(s)
      [] s.en /\ s.ndtr > 0  -> Transfer(s)
      [] s.en /\ s.ndtr = 0  -> Complete(s)

\* dma_stream1_request_handler.  An exhausted stream takes a new count when
\* it is circular (and keeps its address), and ends an empty block otherwise.
Request(s) ==
    CASE ~s.en               -> s
      [] s.en /\ s.ndtr > 0  -> Transfer(s)
      [] s.en /\ s.ndtr = 0  -> IF s.circ
                                THEN Transfer([s EXCEPT !.ndtr = Block])
                                ELSE Complete(s)

-----------------------------------------------------------------------------
(* What holds of a stream that is programmed before it is enabled.         *)

\* The address and the count move together: the stream never writes outside
\* its block.
InBlock(s) == s.ptr + s.ndtr = Block \/ (~s.en /\ s.ndtr = 0)

\* The block in memory is Block samples in a row.
Consecutive(s) ==
    \A i \in Items : i > 0 => s.memory[i] = (s.memory[i - 1] + 1) % Samples

=============================================================================
