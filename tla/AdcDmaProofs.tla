---------------------------- MODULE AdcDmaProofs ----------------------------
(***************************************************************************)
(* The DMA stream and the timers of AdcDma, for every length of a block,   *)
(* every sample counter, every delay and whatever firmware writes.         *)
(***************************************************************************)
EXTENDS AdcDma, TLAPS

-----------------------------------------------------------------------------
(* The stream.                                                             *)

\* What has been written of the block so far is consecutive, and the sample
\* counter is at its last item.  Nothing is written where there is no memory.
Written(s) ==
    /\ s.ptr > 0 => s.mapped /\ s.memory[s.ptr - 1] = s.sample
    /\ \A i \in Items : 0 < i /\ i < s.ptr =>
           s.memory[i] = (s.memory[i - 1] + 1) % Samples

\* An enabled stream has items left, so that its address is in the block.
StreamInv(s) ==
    /\ s \in Stream
    /\ InBlock(s)
    /\ s.en => s.ndtr > 0
    /\ Written(s)

LEMMA StreamConstants == Block \in Nat /\ Block > 0 /\ Samples \in Nat /\ Samples > 0
BY StreamAssumption

\* The next sample is a sample.
LEMMA NextSample == \A v \in Values : (v + 1) % Samples \in Values
BY StreamConstants DEF Values

\* Raising a flag changes neither the block nor the place in it.
LEMMA RaiseKeeps ==
    ASSUME NEW s \in Stream, NEW flag \in Flags
    PROVE  LET r == Raise(s, flag)
           IN  /\ r \in Stream /\ r.irq /\ r.lisr = s.lisr \cup {flag}
               /\ r.en = s.en /\ r.circ = s.circ /\ r.ndtr = s.ndtr
               /\ r.ptr = s.ptr /\ r.mapped = s.mapped
               /\ r.sample = s.sample /\ r.memory = s.memory
BY DEF Raise, Stream

\* The counter moves on, and nothing else.
LEMMA SampledKeeps ==
    ASSUME NEW s \in Stream
    PROVE  LET r == Sampled(s)
           IN  /\ r \in Stream /\ r.sample = (s.sample + 1) % Samples
               /\ r.irq = s.irq /\ r.lisr = s.lisr
               /\ r.en = s.en /\ r.circ = s.circ /\ r.ndtr = s.ndtr
               /\ r.ptr = s.ptr /\ r.mapped = s.mapped
               /\ r.memory = s.memory
BY NextSample DEF Sampled, Stream

\* The end of the block leaves a stream that is disabled or at its beginning.
LEMMA CompleteKeeps ==
    ASSUME NEW s \in Stream, Written(s), s.ptr + s.ndtr = Block, s.ndtr = 0
    PROVE  LET r == Complete(s)
           IN  /\ StreamInv(r) /\ r.irq
               /\ r.lisr \subseteq Flags
               /\ r.memory = s.memory
<1> DEFINE d == Raise(s, "TCIF")
<1>1. "TCIF" \in Flags
  BY DEF Flags
<1>2. /\ d \in Stream /\ d.irq /\ d.circ = s.circ /\ d.ndtr = s.ndtr
      /\ d.ptr = s.ptr /\ d.mapped = s.mapped /\ d.sample = s.sample
      /\ d.memory = s.memory
  BY <1>1, RaiseKeeps
<1> HIDE DEF d
<1>3. CASE s.circ
  <2>1. Complete(s) = Rewind(d)
    BY <1>3 DEF Complete, d
  <2>2. Rewind(d) \in Stream /\ Rewind(d).irq /\ Rewind(d).memory = s.memory
        /\ Rewind(d).ptr = 0 /\ Rewind(d).ndtr = Block
    <3>1. 0 \in 0..Block /\ Block \in 0..Block
      BY StreamConstants
    <3>2. Rewind(d) = [d EXCEPT !.ndtr = Block, !.ptr = 0]
      BY DEF Rewind
    <3>3. d.irq \in BOOLEAN /\ Rewind(d).irq = d.irq
      BY <1>2, <3>2 DEF Stream
    <3>4. Rewind(d) \in Stream
      BY <1>2, <3>1, <3>2 DEF Stream
    <3>5. Rewind(d).memory = s.memory /\ Rewind(d).ptr = 0 /\ Rewind(d).ndtr = Block
      BY <1>2, <3>2 DEF Stream
    <3> QED
      BY <1>2, <3>3, <3>4, <3>5
  <2>3. StreamInv(Rewind(d))
    BY <2>2, StreamConstants DEF StreamInv, InBlock, Written, Items
  <2> QED
    BY <2>1, <2>2, <2>3 DEF Stream
<1>4. CASE ~s.circ
  <2> DEFINE r == [d EXCEPT !.en = FALSE]
  <2>1. Complete(s) = r
    BY <1>4 DEF Complete, d
  <2>2. /\ r \in Stream /\ r.irq /\ ~r.en /\ r.memory = s.memory
        /\ r.ptr = s.ptr /\ r.ndtr = s.ndtr /\ r.mapped = s.mapped
        /\ r.sample = s.sample
    BY <1>2 DEF Stream
  <2> HIDE DEF r
  <2>3. StreamInv(r)
    BY <2>2 DEF StreamInv, InBlock, Written
  <2> QED
    BY <2>1, <2>2, <2>3 DEF Stream
<1> QED
  BY <1>3, <1>4

\* An item moved extends what is written by the next sample, and the item that
\* ends the block leaves all of it written.
LEMMA MoveKeeps ==
    ASSUME NEW s \in Stream, StreamInv(s), s.mapped, s.ndtr > 0
    PROVE  LET r == Move(Sampled(s))
           IN  /\ StreamInv(r)
               /\ (r.irq = s.irq /\ r.lisr = s.lisr) \/ r.irq
               /\ s.ndtr = 1 => Consecutive(r)
               /\ s.ndtr # 1 => r.ndtr = s.ndtr - 1
<1> DEFINE u == Sampled(s)
           m == [u EXCEPT !.memory = [@ EXCEPT ![u.ptr] = u.sample],
                          !.ptr = @ + 1, !.ndtr = @ - 1]
<1>1. /\ u \in Stream /\ u.sample = (s.sample + 1) % Samples
      /\ u.irq = s.irq /\ u.lisr = s.lisr
      /\ u.en = s.en /\ u.circ = s.circ /\ u.ndtr = s.ndtr
      /\ u.ptr = s.ptr /\ u.mapped = s.mapped /\ u.memory = s.memory
  BY SampledKeeps
<1>2. Move(u) = IF m.ndtr = 0 THEN Complete(m) ELSE m
  BY DEF Move
<1> HIDE DEF u
<1>3. /\ s.ptr + s.ndtr = Block /\ s.ptr \in Items
      /\ s.ptr + 1 \in 0..Block /\ s.ndtr - 1 \in 0..Block
      /\ s.ptr \in Nat /\ s.ndtr \in Nat
  BY StreamConstants DEF StreamInv, InBlock, Stream, Items
<1>4. /\ m \in Stream /\ m.memory = [s.memory EXCEPT ![s.ptr] = u.sample]
      /\ m.ptr = s.ptr + 1 /\ m.ndtr = s.ndtr - 1 /\ m.sample = u.sample
      /\ m.mapped = s.mapped /\ m.en = s.en /\ m.irq = s.irq /\ m.lisr = s.lisr
  <2>1. [u.memory EXCEPT ![u.ptr] = u.sample] \in [Items -> Values]
    BY <1>1 DEF Stream
  <2> QED
    BY <1>1, <1>3, <2>1 DEF Stream
<1> HIDE DEF m
<1>5. s.memory \in [Items -> Values]
  BY DEF Stream
<1>6. Written(m)
  <2>1. m.memory[m.ptr - 1] = m.sample
    BY <1>3, <1>4, <1>5
  <2>2. ASSUME NEW i \in Items, 0 < i, i < m.ptr
        PROVE  m.memory[i] = (m.memory[i - 1] + 1) % Samples
    <3>1. i - 1 \in Items /\ i - 1 # s.ptr /\ m.memory[i - 1] = s.memory[i - 1]
      <4>1. m.ptr = s.ptr + 1 /\ m.memory = [s.memory EXCEPT ![s.ptr] = u.sample]
        BY <1>4
      <4>2. i \in Nat /\ i <= s.ptr
        BY <1>3, <2>2, <4>1 DEF Items
      <4>3. i - 1 \in Items /\ i - 1 # s.ptr
        BY <1>3, <2>2, <4>2 DEF Items
      <4> QED
        BY <1>5, <4>1, <4>3
    <3>2. CASE i = s.ptr
      BY <1>1, <1>3, <1>4, <1>5, <2>2, <3>1, <3>2 DEF StreamInv, Written
    <3>3. CASE i # s.ptr
      <4>1. i < s.ptr
        BY <1>3, <1>4, <2>2, <3>3 DEF Items
      <4> QED
        BY <1>4, <1>5, <2>2, <3>1, <3>3, <4>1 DEF StreamInv, Written
    <3> QED
      BY <3>2, <3>3
  <2> QED
    BY <1>4, <2>1, <2>2 DEF Written
<1>7. CASE m.ndtr = 0
  <2>1. m.ptr + m.ndtr = Block /\ s.ndtr = 1
    BY <1>3, <1>4, <1>7
  <2>2. StreamInv(Complete(m)) /\ Complete(m).irq /\ Complete(m).memory = m.memory
    BY <1>4, <1>6, <1>7, <2>1, CompleteKeeps
  <2>3. Consecutive(Complete(m))
    BY <1>6, <1>7, <2>1, <2>2, <1>3, <1>4 DEF Consecutive, Written, Items
  <2> QED
    BY <1>2, <1>7, <2>1, <2>2, <2>3 DEF u
<1>8. CASE m.ndtr # 0
  <2>1. StreamInv(m) /\ s.ndtr # 1
    BY <1>3, <1>4, <1>6, <1>8 DEF StreamInv, InBlock
  <2> QED
    BY <1>2, <1>4, <1>8, <2>1 DEF u
<1> QED
  BY <1>7, <1>8

\* A request keeps the stream in its block; it raises the interrupt for every
\* flag it sets, and what is in memory at the end of a block is consecutive.
LEMMA RequestKeeps ==
    ASSUME NEW s, StreamInv(s)
    PROVE  LET r == Request(s)
           IN  /\ StreamInv(r)
               /\ (r.irq = s.irq /\ r.lisr = s.lisr) \/ r.irq
               /\ s.en /\ s.ndtr = 1 /\ r.ndtr # 1 => Consecutive(r)
<1>1. s \in Stream
  BY DEF StreamInv
<1>2. CASE ~s.en
  BY <1>2 DEF Request
<1>3. CASE s.en
  <2>1. s.ndtr > 0 /\ Request(s) = Transfer(s)
    <3>1. s.ndtr > 0
      BY <1>3 DEF StreamInv
    <3> QED
      BY <1>1, <1>3, <3>1 DEF Request, Stream
  <2>2. CASE s.mapped
    BY <1>1, <2>1, <2>2, MoveKeeps DEF Transfer
  <2>3. CASE ~s.mapped
    <3> DEFINE u == Sampled(s)
               r == Raise(u, "TEIF")
    <3>1. "TEIF" \in Flags
      BY DEF Flags
    <3>2. u \in Stream /\ u.en = s.en /\ u.ndtr = s.ndtr /\ u.ptr = s.ptr
          /\ u.mapped = s.mapped
      BY <1>1, SampledKeeps
    <3>3. /\ r \in Stream /\ r.irq /\ r.en = s.en /\ r.ndtr = s.ndtr
          /\ r.ptr = s.ptr /\ r.mapped = s.mapped
      BY <3>1, <3>2, RaiseKeeps
    <3>4. Request(s) = r
      BY <2>1, <2>3 DEF Transfer
    <3> HIDE DEF r, u
    <3>5. s.ptr = 0
      BY <1>1, <2>3 DEF StreamInv, Written, Stream
    <3>6. StreamInv(r)
      BY <1>1, <3>3, <3>5 DEF StreamInv, InBlock, Written, Items
    <3> QED
      BY <3>3, <3>4, <3>6
  <2> QED
    BY <2>2, <2>3
<1> QED
  BY <1>2, <1>3

-----------------------------------------------------------------------------
(* The stream under everything firmware and the ADCs do.                   *)

\* A flag that the handler will not clear has an interrupt pending.
FlagInv ==
    /\ isr \in {"no", "entered", "read"}
    /\ isr = "no" /\ stream.lisr # {} => stream.irq
    /\ isr = "read" /\ stream.lisr \ seen # {} => stream.irq

SInv == StreamInv(stream) /\ FlagInv

\* A step of an ADC leaves the stream alone or requests it once.
LEMMA SyncedStreamCases == SyncedStream = stream \/ SyncedStream = Request(stream)
BY DEF SyncedStream

\* A step of an ADC.
LEMMA AdcStep ==
    ASSUME SInv, stream' = SyncedStream, UNCHANGED <<isr, seen>>
    PROVE  /\ SInv'
           /\ stream.en /\ stream.ndtr = 1 /\ stream'.ndtr # 1
                 => Consecutive(stream')
<1>1. CASE stream' = stream
  BY <1>1 DEF SInv, FlagInv
<1>2. CASE stream' = Request(stream)
  <2>1. /\ StreamInv(stream')
        /\ (stream'.irq = stream.irq /\ stream'.lisr = stream.lisr) \/ stream'.irq
        /\ stream.en /\ stream.ndtr = 1 /\ stream'.ndtr # 1
              => Consecutive(stream')
    BY <1>2, RequestKeeps DEF SInv
  <2>2. FlagInv'
    BY <2>1 DEF SInv, FlagInv
  <2> QED
    BY <2>1, <2>2 DEF SInv
<1> QED
  BY <1>1, <1>2, SyncedStreamCases

\* Firmware enables the stream after it wrote its count and its address.
LEMMA StartStep ==
    ASSUME SInv, NEW p \in Programs, StartStream(p)
    PROVE  SInv'
<1> DEFINE s == stream'
<1>1. p.mapped \in BOOLEAN /\ p.circ \in BOOLEAN
  BY AdcAssumption
<1>2. stream \in Stream
  BY DEF SInv, StreamInv
<1>3. s = [[[[stream EXCEPT !.ndtr = Block] EXCEPT !.lisr = @ \ Flags]
              EXCEPT !.ptr = 0, !.mapped = p.mapped]
              EXCEPT !.en = TRUE, !.circ = p.circ]
  BY DEF StartStream, WriteStreamCr, WriteM0ar, WriteLifcr, WriteNdtr
<1>4. 0 \in 0..Block /\ Block \in 0..Block /\ stream.lisr \ Flags = {}
  BY <1>2, StreamConstants DEF Stream
<1>5. s \in Stream
  BY <1>1, <1>2, <1>3, <1>4 DEF Stream
<1>6. s.ptr = 0 /\ s.ndtr = Block /\ s.lisr = {}
  BY <1>2, <1>3, <1>4 DEF Stream
<1>7. StreamInv(s)
  BY <1>5, <1>6, StreamConstants DEF StreamInv, InBlock, Written, Items
<1>8. FlagInv'
  BY <1>6 DEF SInv, FlagInv, StartStream
<1> QED
  BY <1>7, <1>8 DEF SInv

\* Firmware suspends the stream or enables it again where it left off.
LEMMA SuspendStep ==
    ASSUME SInv, SuspendStream \/ ResumeStream
    PROVE  SInv' /\ stream'.ndtr = stream.ndtr
<1>1. stream \in Stream
  BY DEF SInv, StreamInv
<1>2. PICK en \in BOOLEAN :
         /\ stream' = [stream EXCEPT !.en = en, !.circ = stream.circ]
         /\ en => stream.ndtr > 0
         /\ UNCHANGED <<isr, seen>>
  <2>1. CASE SuspendStream
    BY <2>1 DEF SuspendStream, WriteStreamCr
  <2>2. CASE ResumeStream
    BY <2>2 DEF ResumeStream, WriteStreamCr
  <2> QED
    BY <2>1, <2>2
<1>3. /\ stream' \in Stream /\ stream'.en = en /\ stream'.ndtr = stream.ndtr
      /\ stream'.ptr = stream.ptr /\ stream'.mapped = stream.mapped
      /\ stream'.lisr = stream.lisr /\ stream'.irq = stream.irq
      /\ stream'.sample = stream.sample /\ stream'.memory = stream.memory
  BY <1>1, <1>2 DEF Stream
<1>4. stream'.ptr + stream'.ndtr = Block \/ (~stream'.en /\ stream'.ndtr = 0)
  BY <1>1, <1>2, <1>3 DEF SInv, StreamInv, InBlock, Stream
<1>5. StreamInv(stream')
  BY <1>2, <1>3, <1>4 DEF SInv, StreamInv, InBlock, Written
<1>6. FlagInv'
  BY <1>2, <1>3 DEF SInv, FlagInv
<1> QED
  BY <1>3, <1>5, <1>6 DEF SInv

\* The handler is entered, reads the flags and clears those it read.
LEMMA HandlerStep ==
    ASSUME SInv, EnterIsr \/ ReadLisr \/ ClearFlags
    PROVE  SInv' /\ stream'.ndtr = stream.ndtr
<1>1. stream \in Stream
  BY DEF SInv, StreamInv
<1>2. CASE EnterIsr
  <2>1. stream' = [stream EXCEPT !.irq = FALSE] /\ isr' = "entered"
    BY <1>2 DEF EnterIsr
  <2>2. /\ stream' \in Stream /\ stream'.en = stream.en
        /\ stream'.ndtr = stream.ndtr
        /\ stream'.ptr = stream.ptr /\ stream'.mapped = stream.mapped
        /\ stream'.sample = stream.sample /\ stream'.memory = stream.memory
    BY <1>1, <2>1 DEF Stream
  <2>3. StreamInv(stream')
    BY <2>2 DEF SInv, StreamInv, InBlock, Written
  <2> QED
    BY <2>1, <2>2, <2>3 DEF SInv, FlagInv
<1>3. CASE ReadLisr
  BY <1>3 DEF ReadLisr, SInv, FlagInv
<1>4. CASE ClearFlags
  <2>1. stream' = [stream EXCEPT !.lisr = @ \ seen] /\ isr = "read" /\ isr' = "no"
    BY <1>4 DEF ClearFlags, WriteLifcr
  <2>2. /\ stream' \in Stream /\ stream'.en = stream.en
        /\ stream'.ndtr = stream.ndtr
        /\ stream'.ptr = stream.ptr /\ stream'.mapped = stream.mapped
        /\ stream'.sample = stream.sample /\ stream'.memory = stream.memory
        /\ stream'.lisr = stream.lisr \ seen /\ stream'.irq = stream.irq
    BY <1>1, <2>1 DEF Stream
  <2>3. StreamInv(stream')
    BY <2>2 DEF SInv, StreamInv, InBlock, Written
  <2> QED
    BY <2>1, <2>2, <2>3 DEF SInv, FlagInv
<1> QED
  BY <1>2, <1>3, <1>4

\* The steps of the ADCs are those that sync them; time leaves the stream be.
LEMMA StreamInvariance ==
    ASSUME SInv, [Next]_vars
    PROVE  /\ SInv'
           /\ stream.en /\ stream.ndtr = 1 /\ stream'.ndtr # 1
                 => Consecutive(stream')
<1>1. CASE \E u \in Units : WriteCr(u) \/ WriteCfgr(u) \/ ReadCr(u)
  BY <1>1, AdcStep DEF WriteCr, WriteCfgr, ReadCr
<1>2. CASE CalibrationDone \/ ConversionDone
  BY <1>2, AdcStep DEF CalibrationDone, ConversionDone
<1>3. CASE Tick \/ UNCHANGED vars
  BY <1>3 DEF Tick, vars, SInv, FlagInv
<1>4. CASE \E p \in Programs : StartStream(p)
  BY <1>4, StartStep DEF StartStream
<1>5. CASE SuspendStream \/ ResumeStream
  BY <1>5, SuspendStep
<1>6. CASE EnterIsr \/ ReadLisr \/ ClearFlags
  BY <1>6, HandlerStep
<1> QED
  BY <1>1, <1>2, <1>3, <1>4, <1>5, <1>6 DEF Next

\* The stream starts disabled, with nothing to move.
LEMMA StreamInitially == Init => SInv
<1> SUFFICES ASSUME Init PROVE SInv
  OBVIOUS
<1>1. /\ stream \in Stream /\ ~stream.en /\ stream.ndtr = 0 /\ stream.ptr = 0
      /\ stream.lisr = {} /\ isr = "no"
  BY StreamConstants DEF Init, InitStream, Stream, Items, Values
<1>2. StreamInv(stream)
  BY <1>1 DEF StreamInv, InBlock, Written, Items
<1> QED
  BY <1>1, <1>2 DEF SInv, FlagInv

LEMMA StreamAlways == Spec => []SInv
<1>1. SInv /\ [Next]_vars => SInv'
  BY StreamInvariance
<1> QED
  BY <1>1, StreamInitially, PTL DEF Spec

\* The stream never leaves the block that firmware programmed
\* (dma_stream1_request_handler), however it is suspended, fails or wraps.
THEOREM BlockIsKept == Spec => []StreamInBlock
<1>1. SInv => StreamInBlock
  BY DEF SInv, StreamInv, StreamInBlock
<1> QED
  BY <1>1, StreamAlways, PTL

\* A flag that dma_raise_stream1_irq_if_needed has raised is seen by the
\* handler: it is running, or its interrupt is pending.
THEOREM FlagIsSeen == Spec => []FlagHasInterrupt
<1>1. SInv => FlagHasInterrupt
  BY DEF SInv, FlagInv, FlagHasInterrupt
<1> QED
  BY <1>1, StreamAlways, PTL

\* The block is complete and without a gap when dma_stream1_complete_transfer
\* ends it.
THEOREM NoGapInBlock == Spec => BlockIsConsecutive
<1>1. SInv /\ [Next]_vars =>
         [stream.en /\ stream.ndtr = 1 /\ stream'.ndtr # 1
             => Consecutive(stream')]_vars
  BY StreamInvariance
<1> QED
  BY <1>1, StreamAlways, PTL DEF Spec, BlockIsConsecutive

-----------------------------------------------------------------------------
(* The ADCs and their timers.                                              *)

LEMMA LeftFacts ==
    /\ Delay \in Nat /\ Delay > 0 /\ Off \in Left /\ Delay \in Left /\ Delay # Off
    /\ \A d \in Left : d # Off => d \in Nat /\ 0..d \subseteq Left
BY AdcAssumption DEF Left, Off

\* A timer that is set for the work left covers all of it.
LEMMA RearmedCovers ==
    ASSUME NEW a \in Left, NEW b \in Left, NEW timer \in Left
    PROVE  LET t == Rearmed(timer, {a, b} \ {Off})
           IN  /\ t \in Left
               /\ a # Off => t \in 0..a
               /\ b # Off => t \in 0..b
<1> DEFINE S == {a, b} \ {Off}
           t == Rearmed(timer, S)
<1>1. CASE S = {}
  BY <1>1 DEF Rearmed
<1>2. CASE S # {}
  <2>1. \E x \in S : \A y \in S : x <= y
    BY <1>2, LeftFacts
  <2>2. Min(S) \in S /\ \A y \in S : Min(S) <= y
    <3> HIDE DEF S
    <3> QED
      BY <2>1 DEF Min
  <2>3. t = Min(S)
    BY <1>2 DEF Rearmed
  <2> QED
    BY <2>2, <2>3, LeftFacts
<1> QED
  BY <1>1, <1>2

LEMMA CalsCovered ==
    ASSUME NEW units \in [Units -> Unit], NEW timer \in Left
    PROVE  /\ Rearmed(timer, Cals(units)) \in Left
           /\ \A u \in Units : units[u].cal # Off =>
                 Rearmed(timer, Cals(units)) \in 0..units[u].cal
<1>1. Cals(units) = {units[1].cal, units[2].cal} \ {Off}
  BY DEF Cals, Units
<1>2. units[1].cal \in Left /\ units[2].cal \in Left
  BY DEF Unit, Units
<1> QED
  BY <1>1, <1>2, RearmedCovers DEF Units

LEMMA ConvsCovered ==
    ASSUME NEW units \in [Units -> Unit], NEW timer \in Left
    PROVE  /\ Rearmed(timer, Convs(units)) \in Left
           /\ \A u \in Units : units[u].conv # Off =>
                 Rearmed(timer, Convs(units)) \in 0..units[u].conv
<1>1. Convs(units) = {units[1].conv, units[2].conv} \ {Off}
  BY DEF Convs, Units
<1>2. units[1].conv \in Left /\ units[2].conv \in Left
  BY DEF Unit, Units
<1> QED
  BY <1>1, <1>2, RearmedCovers DEF Units

\* adc_sync_unit keeps the shape of an ADC.
LEMMA SyncUnitKeeps == \A a \in Unit : SyncUnit(a) \in Unit
<1> TAKE a \in Unit
<1>1. Calibrated(a) \in Unit
  BY LeftFacts DEF Calibrated, Unit
<1>2. ASSUME NEW c \in Unit PROVE Converted(c) \in Unit
  BY <1>2, LeftFacts DEF Converted, Unit
<1> QED
  BY <1>1, <1>2 DEF SyncUnit

LEMMA SyncedKeeps == adc \in [Units -> Unit] => Synced \in [Units -> Unit]
BY SyncUnitKeeps DEF Synced

\* A write to CR starts a calibration or a conversion of Delay, and leaves or
\* ends the one at work.
LEMMA CrWrittenKeeps ==
    ASSUME NEW a \in Unit, NEW w
    PROVE  LET r == CrWritten(a, w)
           IN  /\ r \in Unit
               /\ ~CalStarts(BeforeCal(a, w), w) => r.cal \in {a.cal, Off}
               /\ ~ConvStarts(BeforeConv(a, w), w) => r.conv \in {a.conv, Off}
<1>1. ASSUME NEW b \in Unit
      PROVE  /\ PoweredDown(b, w) \in Unit /\ Disabled(b, w) \in Unit
             /\ Stopped(b, w) \in Unit
             /\ PoweredDown(b, w).cal \in {b.cal, Off}
             /\ PoweredDown(b, w).conv \in {b.conv, Off}
             /\ Disabled(b, w).cal = b.cal /\ Disabled(b, w).conv \in {b.conv, Off}
             /\ Stopped(b, w).cal = b.cal /\ Stopped(b, w).conv \in {b.conv, Off}
  <2>1. /\ PoweredDown(b, w) \in Unit
        /\ PoweredDown(b, w).cal \in {b.cal, Off}
        /\ PoweredDown(b, w).conv \in {b.conv, Off}
    BY <1>1, LeftFacts DEF PoweredDown, Unit
  <2>2. /\ Disabled(b, w) \in Unit
        /\ Disabled(b, w).cal = b.cal /\ Disabled(b, w).conv \in {b.conv, Off}
    BY <1>1, LeftFacts DEF Disabled, Unit
  <2>3. /\ Stopped(b, w) \in Unit
        /\ Stopped(b, w).cal = b.cal /\ Stopped(b, w).conv \in {b.conv, Off}
    BY <1>1, LeftFacts DEF Stopped, Unit
  <2> QED
    BY <2>1, <2>2, <2>3
<1>2. ASSUME NEW b \in Unit
      PROVE  /\ Calibrating(b, w) \in Unit /\ Enabled(b, w) \in Unit
             /\ ~CalStarts(b, w) => Calibrating(b, w).cal = b.cal
             /\ Calibrating(b, w).conv = b.conv
             /\ Enabled(b, w).cal = b.cal /\ Enabled(b, w).conv = b.conv
  <2>1. /\ Calibrating(b, w) \in Unit
        /\ ~CalStarts(b, w) => Calibrating(b, w).cal = b.cal
        /\ Calibrating(b, w).conv = b.conv
    BY <1>2, LeftFacts DEF Calibrating, Unit
  <2>2. /\ Enabled(b, w) \in Unit
        /\ Enabled(b, w).cal = b.cal /\ Enabled(b, w).conv = b.conv
    BY <1>2, LeftFacts DEF Enabled, Unit
  <2> QED
    BY <2>1, <2>2
<1>3. ASSUME NEW b \in Unit
      PROVE  /\ Converting(b, w) \in Unit /\ Converting(b, w).cal = b.cal
             /\ ~ConvStarts(b, w) => Converting(b, w).conv = b.conv
  BY <1>3, LeftFacts DEF Converting, Unit
<1>4. ASSUME NEW b \in Unit
      PROVE  Shown(b, w) \in Unit /\ Shown(b, w).cal = b.cal
             /\ Shown(b, w).conv = b.conv
  <2> DEFINE deeppwd == "DEEPPWD" \in w
             aden    == b.aden \/ b.enabled
             adstart == b.adstart \/ b.conv # Off
             adcal   == b.adcal \/ b.cal # Off
  <2>1. Shown(b, w) = [b EXCEPT !.deeppwd = deeppwd, !.aden = aden,
                                !.adstart = adstart, !.adcal = adcal]
    BY Zenon DEF Shown
  <2>2. {deeppwd, aden, adstart, adcal} \subseteq BOOLEAN
    OBVIOUS
  <2> HIDE DEF deeppwd, aden, adstart, adcal
  <2> QED
    BY <1>4, <2>1, <2>2 DEF Unit
<1>5. /\ BeforeCal(a, w) \in Unit /\ BeforeCal(a, w).cal \in {a.cal, Off}
      /\ BeforeCal(a, w).conv \in {a.conv, Off}
  BY <1>1 DEF BeforeCal
<1>6. /\ BeforeConv(a, w) \in Unit
      /\ ~CalStarts(BeforeCal(a, w), w) => BeforeConv(a, w).cal \in {a.cal, Off}
      /\ BeforeConv(a, w).conv \in {a.conv, Off}
  BY <1>2, <1>5 DEF BeforeConv
<1> QED
  BY <1>3, <1>4, <1>6 DEF CrWritten

-----------------------------------------------------------------------------
(* The timers under everything firmware and time do.                       *)

\* Every ADC at work is covered by the timer of its kind.
CalTimed(timer, units) ==
    timer \in Left /\ \A u \in Units : units[u].cal # Off => timer \in 0..units[u].cal
ConvTimed(timer, units) ==
    timer \in Left /\ \A u \in Units : units[u].conv # Off => timer \in 0..units[u].conv

TInv ==
    /\ adc \in [Units -> Unit]
    /\ CalTimed(calTimer, adc)
    /\ ConvTimed(convTimer, adc)

\* adc_sync_state sets both timers anew.
LEMMA SyncTimed ==
    ASSUME adc \in [Units -> Unit], NEW c \in Left, NEW v \in Left
    PROVE  /\ CalTimed(Rearmed(c, Cals(Synced)), Synced)
           /\ ConvTimed(Rearmed(v, Convs(Synced)), Synced)
BY SyncedKeeps, CalsCovered, ConvsCovered DEF CalTimed, ConvTimed

\* A write to CR: what the sync has covered stays covered, what the write
\* starts sets its timer again.
LEMMA WriteCrTimed ==
    ASSUME TInv, NEW u \in Units, WriteCr(u)
    PROVE  TInv'
<1>1. PICK w \in CrWrites :
        LET a     == Synced[u]
            units == [Synced EXCEPT ![u] = CrWritten(a, w)]
            cal   == Rearmed(calTimer, Cals(Synced))
            conv  == Rearmed(convTimer, Convs(Synced))
        IN  /\ adc' = units
            /\ calTimer' = IF CalStarts(BeforeCal(a, w), w)
                           THEN Rearmed(cal, Cals(units)) ELSE cal
            /\ convTimer' = IF ConvStarts(BeforeConv(a, w), w)
                            THEN Rearmed(conv, Convs(units)) ELSE conv
  BY DEF WriteCr
<1> DEFINE a     == Synced[u]
           units == [Synced EXCEPT ![u] = CrWritten(a, w)]
           cal   == Rearmed(calTimer, Cals(Synced))
           conv  == Rearmed(convTimer, Convs(Synced))
<1>2. /\ Synced \in [Units -> Unit]
      /\ CalTimed(cal, Synced) /\ ConvTimed(conv, Synced)
  BY SyncedKeeps, SyncTimed DEF TInv, CalTimed, ConvTimed
<1>3. /\ units \in [Units -> Unit]
      /\ ~CalStarts(BeforeCal(a, w), w) => units[u].cal \in {a.cal, Off}
      /\ ~ConvStarts(BeforeConv(a, w), w) => units[u].conv \in {a.conv, Off}
      /\ \A o \in Units \ {u} : units[o] = Synced[o]
  BY <1>2, CrWrittenKeeps
<1>4. CalTimed(calTimer', units)
  <2>1. CASE CalStarts(BeforeCal(a, w), w)
    BY <1>1, <1>2, <1>3, <2>1, CalsCovered DEF CalTimed
  <2>2. CASE ~CalStarts(BeforeCal(a, w), w)
    <3> HIDE DEF units, cal
    <3>1. calTimer' = cal
      BY <1>1, <2>2 DEF cal
    <3> QED
      BY <1>2, <1>3, <2>2, <3>1 DEF CalTimed
  <2> QED
    BY <2>1, <2>2
<1>5. ConvTimed(convTimer', units)
  <2>1. CASE ConvStarts(BeforeConv(a, w), w)
    BY <1>1, <1>2, <1>3, <2>1, ConvsCovered DEF ConvTimed
  <2>2. CASE ~ConvStarts(BeforeConv(a, w), w)
    <3> HIDE DEF units, conv
    <3>1. convTimer' = conv
      BY <1>1, <2>2 DEF conv
    <3> QED
      BY <1>2, <1>3, <2>2, <3>1 DEF ConvTimed
  <2> QED
    BY <2>1, <2>2
<1> QED
  BY <1>1, <1>3, <1>4, <1>5 DEF TInv, CalTimed, ConvTimed

\* Writes to CFGR and reads change nothing that a timer is about.
LEMMA AccessTimed ==
    ASSUME TInv, NEW u \in Units, WriteCfgr(u) \/ ReadCr(u)
    PROVE  TInv'
<1>1. /\ Synced \in [Units -> Unit]
      /\ CalTimed(calTimer', Synced) /\ ConvTimed(convTimer', Synced)
  BY SyncedKeeps, SyncTimed DEF TInv, CalTimed, ConvTimed, WriteCfgr, ReadCr, SyncTimers
<1>2. /\ adc' \in [Units -> Unit]
      /\ \A o \in Units : adc'[o].cal = Synced[o].cal /\ adc'[o].conv = Synced[o].conv
  <2>1. CASE WriteCfgr(u)
    <3>1. PICK cfgr \in Configs[u] : adc' = [Synced EXCEPT ![u].cfgr = cfgr]
      BY <2>1 DEF WriteCfgr
    <3>2. cfgr \in [cont : BOOLEAN, dma : BOOLEAN]
      BY AdcAssumption DEF Units
    <3> QED
      BY <1>1, <3>1, <3>2 DEF Unit
  <2>2. CASE ReadCr(u)
    <3> DEFINE latches == u = 2 /\ latch /\ ShowsNothing(Synced[2])
               deeppwd == Synced[u].deeppwd \/ latches
    <3>1. adc' = [Synced EXCEPT ![u].deeppwd = deeppwd]
      BY <2>2, Zenon DEF ReadCr
    <3>2. deeppwd \in BOOLEAN
      OBVIOUS
    <3> HIDE DEF deeppwd
    <3> QED
      BY <1>1, <3>1, <3>2 DEF Unit
  <2> QED
    BY <2>1, <2>2
<1> QED
  BY <1>1, <1>2 DEF TInv, CalTimed, ConvTimed

\* Time brings the work and its timer nearer alike.
LEMMA TickTimed ==
    ASSUME TInv, Tick
    PROVE  TInv'
<1>1. \A d \in Left : /\ Sooner(d) \in Left
                      /\ Sooner(d) = Off <=> d = Off
                      /\ \A t \in Left : d # Off /\ t \in 0..d => Sooner(t) \in 0..Sooner(d)
  BY LeftFacts DEF Sooner, Left, Off
<1>2. /\ adc' \in [Units -> Unit]
      /\ \A u \in Units : /\ adc'[u].cal = Sooner(adc[u].cal)
                          /\ adc'[u].conv = Sooner(adc[u].conv)
                          /\ adc[u].cal \in Left /\ adc[u].conv \in Left
  <2> DEFINE next(a) == [a EXCEPT !.cal = Sooner(@), !.conv = Sooner(@)]
  <2>1. ASSUME NEW a \in Unit
        PROVE  /\ next(a) \in Unit /\ next(a).cal = Sooner(a.cal)
               /\ next(a).conv = Sooner(a.conv)
               /\ a.cal \in Left /\ a.conv \in Left
    <3>1. a.cal \in Left /\ a.conv \in Left
      BY <2>1 DEF Unit
    <3> DEFINE cal == Sooner(a.cal)
               conv == Sooner(a.conv)
    <3>2. cal \in Left /\ conv \in Left
      BY <1>1, <3>1
    <3> HIDE DEF cal, conv
    <3>3. [a EXCEPT !.cal = cal, !.conv = conv] \in Unit
      BY <2>1, <3>2 DEF Unit
    <3>4. /\ [a EXCEPT !.cal = cal, !.conv = conv].cal = cal
          /\ [a EXCEPT !.cal = cal, !.conv = conv].conv = conv
      BY <2>1 DEF Unit
    <3> QED
      BY <3>1, <3>3, <3>4 DEF cal, conv
  <2>2. adc' = [u \in Units |-> next(adc[u])]
    BY DEF Tick
  <2> HIDE DEF next
  <2> QED
    BY <2>1, <2>2 DEF TInv
<1>3. calTimer' = Sooner(calTimer) /\ convTimer' = Sooner(convTimer)
  BY DEF Tick
<1> QED
  BY <1>1, <1>2, <1>3 DEF TInv, CalTimed, ConvTimed

LEMMA TimerInvariance == TInv /\ [Next]_vars => TInv'
<1> SUFFICES ASSUME TInv, [Next]_vars PROVE TInv'
  OBVIOUS
<1>1. CASE \E u \in Units : WriteCr(u)
  BY <1>1, WriteCrTimed
<1>2. CASE \E u \in Units : WriteCfgr(u) \/ ReadCr(u)
  BY <1>2, AccessTimed
<1>3. CASE Tick
  BY <1>3, TickTimed
<1>4. CASE CalibrationDone \/ ConversionDone
  BY <1>4, SyncedKeeps, SyncTimed, LeftFacts
     DEF TInv, CalTimed, ConvTimed, CalibrationDone, ConversionDone, SyncTimers
<1>5. CASE UNCHANGED adcVars
  BY <1>5 DEF TInv, CalTimed, ConvTimed, adcVars
<1> QED
  BY <1>1, <1>2, <1>3, <1>4, <1>5
     DEF Next, vars, adcVars, StartStream, SuspendStream, ResumeStream, EnterIsr,
         ReadLisr, ClearFlags

LEMMA TimerInitially == Init => TInv
<1> SUFFICES ASSUME Init PROVE TInv
  OBVIOUS
<1>1. \A c \in [cont : BOOLEAN, dma : BOOLEAN] :
         InitUnit(c) \in Unit /\ InitUnit(c).cal = Off /\ InitUnit(c).conv = Off
  BY LeftFacts DEF InitUnit, Unit
<1>2. /\ adc \in [Units -> Unit]
      /\ \A u \in Units : adc[u].cal = Off /\ adc[u].conv = Off
  <2>1. \A u \in Units : [cont |-> u = 1, dma |-> u = 1] \in [cont : BOOLEAN, dma : BOOLEAN]
    OBVIOUS
  <2> QED
    BY <1>1, <2>1 DEF Init
<1> QED
  BY <1>2, LeftFacts DEF Init, TInv, CalTimed, ConvTimed

\* An ADC at work (adc_start_calibration, adc_start_conversion, adc_sync_unit)
\* is never left to a register access: the timer that the ADCs share is due
\* no later than it is done.
THEOREM WorkIsTimed == Spec => []WorkHasTimer
<1>1. TInv => WorkHasTimer
  BY DEF TInv, CalTimed, ConvTimed, WorkHasTimer
<1> QED
  BY <1>1, TimerInitially, TimerInvariance, PTL DEF Spec
=============================================================================
