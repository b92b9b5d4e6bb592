# FastDyn in TLA+

FastDyn runs the firmware of a microcontroller in QEMU. A TCG plugin written in C
(`core/`, `device_models/`, `virtuals/`) decides what an access to a peripheral
does: it can be forwarded to a real board over a debug probe, answered by a learned
or hand-written model, or replayed from a trace. On top of it sit a fuzzer (LibAFL in
Rust, or AFLNet) and a Python front end that reads the configuration and starts QEMU.

This directory specifies the parts in which several threads, or a thread and a
board, have to agree. It holds TLA+ modules, TLC configurations and proofs checked
by TLAPS.

    tlc -workers 2 -config MCHwSession.cfg MCHwSession
    tlapm GcsUartProofs.tla

## The system

| Component | State it keeps | Operations | Talks to |
|---|---|---|---|
| `hw_session.c`, `passthrough.c` | captured line, poll thread, probe | poll, serve, read, write, acquire | board over the probe; QEMU (raise); `dev.c` |
| monitor firmware of the board | r0, r1, active handlers | break, compare | `hw_session.c`, through registers and halts |
| `dev.c` | slot tables, vector table | register, read, write, interrupt, return | every device model; `core.c` hooks |
| `core.c` | PC ring, tracer thread, hooks | log, drain, dispatch | `fuzz.c`, `dev.c`, QEMU |
| `fuzz.c`, `fuzz_libafl.c` | message, snapshot, depth | snap, sync, assert, get data | `lib.rs`, `core.c`, harness |
| `fastdyn_fuzz_lib/lib.rs` | shared atomics, epochs | run target, trace input, wait | `fuzz_libafl.c` |
| `twintrace.c`, `utils/twintrace.py` | tape, position, replay thread | record, convert, replay | `hw_session.c`, `dev.c`, QEMU |
| `fuzz_aflnet.c`, `lwip_ip.c` | sockets, active sequence number, message buffer | next, restore, done; frames in and out | AFLNet; `fuzz.c` |
| `libs/ring_buffer.c` | buffer, head, tail, mutex | put, get, count | `gcs_receiver.c`, `ardupilot.c` |
| `gcs_receiver.c`, UART hooks of `ardupilot.c` | two UDP listeners, the ground station's address | receive, put; available, read, send | ring buffer; ground station |
| `virtuals.c`, `gazebo.cpp`, `fmu.c` | simulated time, the catch-up thread | tick, advance | `services.cpp`; an FMU |
| `services.cpp` | stepper thread, waiting requests, IMU samples | run until, step, read batch | Gazebo over UDP; the firmware's sensor hooks |
| generated ADC and DMA models (`STM32H753zi/ADC_with_DMA`) | registers, two shared timers, a stream | register accesses, timer callbacks, DMA requests | firmware; BoardRunner SDK |
| BoardRunner SDK | timers, signals, DMA, FIFOs, buses | of generated models | `elder.c` |
| virtual instructions, probe, introspection, Python VM | callbacks by address | | `core.c` |
| `src/fastdyn` (Python) | configuration, machines | parse, start, analyse, serve | the plugin's arguments and files |

How they interact:

- *Shared memory without locks.* The ring between the CPU and the tracer; the
  atomics between the CPU and the LibAFL thread; `fuzz_irq_depth`, `CVG`.
- *Mutex and condition variable.* `hw_mutex`/`irq_cv` between the poll thread and
  the CPU; `rep_mutex`/`rep_cv` between the replay thread and the CPU.
- *Callbacks.* QEMU calls the IRQ hooks; `core.c` dispatches to `dev.c` and
  `fuzz.c`; `dev.c` calls every model linked to a slot or a vector.
- *Messages.* AFLNet over a pair of datagram sockets that drop what does not fit;
  the ground station and the simulator over UDP; requests to `ServoService` over a
  transport library.
- *Asynchronous calls.* `qemu_plugin_raise_irq` only makes an exception pending.

What is hard: the three-party handshake board / poll thread / CPU; two models that
share it; a tracer that lags behind the CPU at the moment the coverage is read;
timeouts that withdraw an input the CPU is about to read; a replay thread that is
slower than the CPU it has to interrupt; a fuzzer that gives up on a firmware that
still runs; two listeners that fill one buffer; a clock that three threads and a
process move on; two converters on one timer, and a DMA stream that is reprogrammed
under way. `PROJECT.json` lists each of these as a
hazard at its line, with the properties that cover it.

What makes each component correct:

- *session*: each interrupt of the board is taken once by the firmware, its handler
  finishes, then the board's handler returns; nothing wedges.
- *dispatch*: a write reaches the models that registered it, and only those; a read is
  answered by one of them; an interrupt reaches each of its models, once.
- *trace*: the coverage read at the end of an input is exactly its own.
- *fuzz exchange*: input, memory, coverage, trace and verdict of one epoch belong
  together; a crash is never charged to, or hidden by, another input.
- *twintrace*: the replay raises the recorded interrupts in their order, and comes to
  the end of the tape unless one of them came too late.
- *aflnet*: an input runs in the session AFLNet meant it for; its DONE means that it
  was taken and that its coverage is complete.
- *ring buffer*: a bounded first-in first-out queue, whoever uses it.
- *ground station port*: the firmware reads no byte that nobody sent, and answers
  somebody who has spoken; a packet is taken whole or dropped whole (it is not).
- *simulated clock*: the simulation reaches what was asked for and does not run away
  from it; the firmware's window on the IMU samples only moves forward.
- *ADC and DMA*: what is under way ends without a further access; a stream stays in
  its block and writes it without a gap; each flag has its interrupt.

## Modules

| Module | Models | State and actions |
|---|---|---|
| `HwSession` | `hw_session.c`, `passthrough.c`, the IRQ part of `dev.c`, the board's `interrupt_server.c` | Below |
| `IrqForward` | what forwarding promises, with no session in it | a phase per line: idle, fired, taken, exited |
| `HwSessionProofs` | proofs about `HwSession`, with the refinement of `IrqForward` | |
| `TraceRing` | tracer of `core.c`; markers, depth and coverage of `fuzz.c` | ring, indices, depth, edges |
| `TraceRingProofs` | proofs about `TraceRing` | |
| `FuzzExchange` | `lib.rs`, `fuzz_libafl.c`, `fuzz.c`, `generic.c` | two threads, one program counter each |
| `FuzzExchangeProofs` | proofs about `FuzzExchange` | |
| `TwintraceReplay` | `twintrace.c`, the log of `dev.c`, `twintrace.py` | tape, position, replay thread, a small CPU |
| `DeviceLut` | `dev.c` | tables, and the latest access |
| `DeviceProofs` | proofs about `DeviceLut` and `TwintraceReplay` | |
| `AflnetExchange` | `fuzz_aflnet.c`, `lwip_ip.c`, `generic_callback`, the part of `fuzz.c` around a backend | AFLNet, two sockets, the CPU, memory and coverage |
| `AflnetExchangeProofs` | proofs about `AflnetExchange` | |
| `RingBuffer` | `libs/ring_buffer.c` | buffer, head, tail |
| `ByteQueue` | what `ring_buffer.h` promises | a sequence |
| `GcsUart` | `gcs_receiver.c`, the UART hooks of `ardupilot.c`; extends `RingBuffer` | two listeners, the address, the firmware's last read |
| `GcsUartProofs` | proofs about `RingBuffer` and `GcsUart` | |
| `LockstepPhysics` | tick of `virtuals.c`, `gazebo.cpp`, `fmu.c`, `services.cpp` | tick, catch-up, requests, stepper, simulator, datagrams |
| `LockstepPhysicsProofs` | proofs about `LockstepPhysics` | |
| `DmaStream` | a stream of `dma_model.c` | a record, one operator per register write and request |
| `AdcDma` | `adc_model.c`; extends `DmaStream` | two ADCs, two timers, the stream, a firmware handler |
| `AdcDmaProofs` | proofs about `DmaStream` and `AdcDma` | |

The `MC*` modules give the constants values; each `.cfg` is one question.

**HwSession.** `halted`, `r0`, `r1` and `frames` are the board: each active handler
is at the `mov`, the `bkpt` or the `cmp` of its loop, and keeps the r1 that exception
entry stacked. `irq_pending`, `poll` and `firing_line` are the session. `nvic`,
`active`, `cpu`, `exiting`, `todo` and `attempt` are the emulated CPU. A section
under `hw_mutex` is one action; the board moves between any two of them.
`PollCapture` and `PollRaise` are separate because the interrupt is raised after
the unlock. `Serve(m)` is one call of a model's serve handler, so that a return that
goes to two models is two actions. `owed` is a history variable. The libhw calls
(`hw_board_halted`, `hw_read_reg`, ...) are external: they return what the board's
state says, and an access may fail when `Flaky`.

The header of `interrupt_server.c` warns that a preempted handler deadlocks. In the
model r1 is stacked by exception entry, as on a Cortex-M, and the run shows that
nested handlers are served: `EveryIrqServed` holds with preemption.

**TraceRing.** Indices count entries modulo N; the code's are a `uint16_t` stepped
by 4. The inline logger waits while the ring has no more than `Reserve` free entries,
which is QEMU's side of `&tracer_consumed_index` (external); the markers of
`fuzz_irq_entry` and `fuzz_irq_exit` do not wait. `fuzz_irq_depth++` is a load
(`TracerRead`) and a store (`TracerObserve`), since the CPU writes it too. `CVG` is a
set of edges: counts and hash collisions are left out. `unread`, `last`, `expected`
and `live` are history variables.

**FuzzExchange.** An input is its epoch; coverage, trace and memory are the sets of
epochs that left something in them. Every store of `publish_input` and every load of
`fuzz_libafl_wait_next` that another thread can see between is an action of its own.
The firmware is arbitrary: it may run blocks, reach an assert, the snapshot point or
the synchronisation point, in any order. Whether an input is interesting is a
nondeterministic choice. `Outcome` looks at the timeout first and at the status only
if there was none, as `run_target` does.

**TwintraceReplay.** The recorded run interleaves interrupts at will; `Convert` filters
the log into the tape; the second run is the same firmware fed from it. The firmware is
external: a straight program, and one for each handler, whose instructions are blocks
with at most one access to a traced register. An access's register, size and value are
one name per place in the program, so that what the firmware accesses does not depend on
when a handler ran; the recording runs to the end of `Main`, where the firmware idles.
`Lines` are the vectors of the traced devices, raised by the board while recording
(`HardwareIrq`) and by the replay thread afterwards (`Raise`). `Others` come at any time
in either run, and not at the same (`OtherIrq`): SysTick, which `twintrace.py:51` calls
noisy and non-deterministic, and the vectors of models that stay live. The CPU waits for
nobody: it executes, takes and returns whatever the thread does, so that an interrupt of
the tape may be overtaken, which is how a replay diverges. The names that `DeviceLut` has
too start with `Twin` here, since `DeviceProofs` extends both.

**AflnetExchange.** AFLNet is not in the repository; it is external and may send
whenever it does not wait, and give up waiting when `GivesUp`. A socket holds
`Capacity` datagrams; what `fuzz_aflnet.c` writes to a full one is lost. An input is
its sequence number, memory and coverage the sets of inputs that left something in
them. The firmware is arbitrary between the snapshot point, the synchronisation
point, the frames it reads and the ones it sends. `TakeMessage` is `fuzz_get_data`: the
message is handed out once, and the hook that took it gives it to the firmware (`read`)
or does not (`refused`): `fuzz_eth_in` drops an empty input and one it cannot write
(`lwip_ip.c:134`, `:157`), and the firmware goes on with no frame. A visit of the
snapshot point ends in `Inject`, `generic_callback`: it takes the message, or has no
fields to fill, or dies for want of its schema (`cpu = "died"`, which ends AFLNet's
thread too). `FuzzExchange` has the callback with a schema that is there and has
fields. `cpu = "poll"` is the wait of the backend, between a look at the socket and the
next.

**RingBuffer, ByteQueue, GcsUart.** `ring_buffer_put`, `_get` and `_count` hold the
mutex from first line to last and are one step each; what is between two of them is
not. A listener is at the receive, at the two stores that publish the ground
station's address, at the look at the room, or at the next byte. A byte is named by
its packet and place. `Contents` is the refinement mapping; `RingIsQueue` is the
queue's specification under it.

**LockstepPhysics.** Time counts simulation steps. The board's tick, the plugin's
catch-up thread, the request handlers of `ServoService`, its stepper thread and the
simulator are actors; servo frames and states travel as datagrams that may be lost
or, after the receive timeout, late. `run_until_time_s_` and `latest_time_s_` are
read where the code reads them, so that a handler that waits compares with a target
another request has moved. What an FMU computes is left out but for how far it gets.
A request of the board's thread that times out is the last one sent, so that the
one transport may drop is `Last(requests)` (`Undelivered`).

**DmaStream, AdcDma.** A stream is a record that operators change; `AdcDma` calls
them where the model calls `api_dma_request`. Times are what is left, so 0 is due, and
a due callback may come after a register access that has done its work
(`adc_sync_state` runs at both). Firmware programs, suspends, restarts and stops the
stream as the vendor's driver does, with a handler that reads the flags, clears what
it has read and returns, in steps of their own.

**DeviceLut.** Regions and slots are scaled down (eight bytes and two); the wrapping
of the unsigned differences is kept, with widths scaled alike.

## Runs

| Run | Shows | Bounds |
|---|---|---|
| `hw_session` | safety, refinement of `IrqForward`, and service of every interrupt, with one owner per vector | lines 0, 1, 2; line 1 preempts the others; 2 retries; a timer in QEMU |
| `hw_session_fanout` | *violation*: two models on a vector, the second serve answers another line | the same, two models |
| `trace_ring` | no event lost, depth and coverage exact, the drain ends | 4 entries, 3 reserved, nesting 1 |
| `trace_ring_early_irq` | *violation*: the depth reset at the snapshot point races the tracer | the same, exceptions before the snapshot |
| `fuzz_exchange` | epochs never mix; every input is judged unless a wait times out | 4 epochs, 1 seed, timeouts |
| `aflnet_exchange` | inputs stay in their session; DONE means taken, and coverage at rest; every request is answered unless a datagram is lost | 3 inputs, 2 restores, sockets of 2, 1 response, AFLNet gives up |
| `twintrace_replay` | what is pending is the next record; a replay diverges only at an interrupt that is late, and ends otherwise | firmware of 4 instructions, handlers of 2, 2 interrupts of 2 vectors, 1 of SysTick or another model in either run, 5 instructions until the firmware idles for good |
| `device_lut` | writes reach their models, reads have their answer, interrupts reach each model once | 4 configurations, every address |
| `gcs_uart` | the ring is a queue; no phantom byte; one byte cut at most; replies to somebody; overflow passes | ring 4, limit 2, packets of 1 or 2 bytes, 2 per listener, 2 stations |
| `gcs_uart_cut` | *violation*: a packet that was let in loses a byte | the same |
| `lockstep_physics` | batches move forward, an answered request was reached, overrun bounded by timeouts, requests served | 2 ticks of 2 steps, tolerance 1, 3 samples, batches of 2, 1 datagram lost, 1 late |
| `adc_dma` | stream in its block and without gaps, flags with interrupts, work with timers, calibrations end | block 2, samples modulo 2, delay 2 |

The largest are `aflnet_exchange` (408 000 states), `adc_dma` (382 000, two and a half
minutes, most of it for `CalibrationEnds`), `gcs_uart` (357 000, a minute), `trace_ring`
(219 000) and `twintrace_replay` (179 000, half a minute); the others have fewer than
52 000 and take seconds.

Why the bounds are enough. `hw_session`: two forwardable lines give every order of
two halts, including one nested in the other; the session holds one line at a time,
so a third adds no new case; line 0 is the spurious halt; two retries separate "may
try again" from "gives up". The retry count is the only bound on an action.
`trace_ring`: the ring wraps many times; three reserved entries are what one
exception and its exit need on top of the logger; nesting of 1 gives entry, exit and
back-to-back exceptions (`MaxNest` bounds `IrqEntry`). `fuzz_exchange`: `MaxEpoch`
bounds `Begin`; four epochs are a traced seed, an input, its traced repetition and
the input after it. `twintrace_replay`: `MaxIrqs` bounds `HardwareIrq`,
`MaxOthers` bounds `OtherIrq`; two interrupts come in any order, nested or not, at any
instruction, with one of SysTick or of another model before, between or inside them in
one run and not in the other. `MaxIcount` bounds `Idle` while recording; in the replay
the firmware idles until the count of the next interrupt, so that the bound keeps none
from coming.
`aflnet_exchange`: three inputs and two restores are an input before the first
restore, one in each session, and a wait given up in between; sockets of two can hold
a stale answer and a new one, and overflow. `gcs_uart`: the ring holds three bytes and
the two packets of two need four, as 1023 and twice 512; it wraps with every second
pair of packets. `MaxPackets` bounds `Receive`. `lockstep_physics`: two ticks give a request made while an earlier one is
served; `MaxLost` and `MaxLate` bound the faults, `MaxTime` the tick. `adc_dma`: the
state space is finite without a bound; a block of two has a first, a last and a next
item, and two units on one timer give each order of two deadlines.

`CHECK_DEADLOCK FALSE` stands where the program really stops: `utils_die` after an
access that failed for too long, `exit` or a panic of the fuzzer, a refused vector;
the loop after a hard fault; or where a bound stops the environment (AFLNet's inputs,
the ground station's packets, the board's time).

Each module states `TypeOK` (`TwinTypeOK`); the run `hw_session` checks it, and for
the others it is stated for the reader, holds in the same instances, and can be added
to their configurations; for most of them it is a theorem (below).

Every property of a passing run has a mutant in `PROJECT.json`: a definition of the
module changed as a plausible bug would change it (`\* mutant:` in the modules),
under which TLC finds the property violated.

### Fairness

- *HwSession*: weak for the poll thread (a loop that sleeps a bounded time). Strong
  for the board's handlers, which get their turn between preemptions; strong for
  taking a pending exception and returning from a handler, since the firmware
  unmasks interrupts and leaves its handlers again and again; weak for the end of an
  access and for serve, which the CPU thread is in the middle of. Nothing is assumed
  of `AccessFail`.
- *TraceRing*: weak for the tracer, which spins on a thread of its own, and for the
  CPU's own spin in the drain.
- *FuzzExchange*: weak for each thread; strong for reaching the snapshot point and
  the synchronisation point, because the firmware loops through both. Nothing is
  assumed of timeouts: `InputIsJudged` says what holds if none happens.
- *TwintraceReplay*: weak for the CPU, the replay thread, the conversion and the taking
  of each pending interrupt. Nothing says that the thread is in time.
- *AflnetExchange*: weak for the hooks the CPU is in and for AFLNet's receive; strong
  for the snapshot point, the frame input and the synchronisation point, which the
  firmware's loop passes again and again. `EveryRequestAnswered` says what holds while
  AFLNet does not give up; in the run the responses leave room for a DONE, so it says
  nothing of a DONE that a full socket drops.
- *GcsUart*: weak for each listener thread, and for a firmware that polls and reads
  what it was told is there. Without such a firmware the ring stays full, so the
  property is about the listeners and the ring, given a reader.
- *LockstepPhysics*: weak for the stepper thread, the simulator and each waiting
  handler. Nothing is assumed of the network: lost and late datagrams are bounded.
- *AdcDma*: weak for time and for the calibration callback, which QEMU's timers run.

## Findings

Three disagreements between the code and what it or its documents say, each with a
violation run and, in `PROJECT.json`, the quoted line:

1. `hw_session_serve` is called safe under duplicate dispatches; with two models on
   a vector the second call can answer a line captured in between.
2. `fuzz_snap_point` resets the interrupt depth before the ring is drained.
3. `udp_listener` drops a packet that does not fit, but looks at the room once for the
   whole packet; a second packet let in meanwhile costs one of them a byte.

Observations without a run of their own:

- `publish_input` (`lib.rs:104`) erases an assert that was reached before the first
  input; `FuzzExchange` shows it with no seed and no timeout.
- `docs/BoardRunner_Flow.md:30` says of twintrace that it "Records or replays MMIO traces
  for deterministic re-execution". Nothing holds the CPU back while the replay thread is
  late, or brings SysTick and the interrupts of live models to the same place: in
  `TwintraceReplay` the CPU overtakes an interrupt of the tape and the replay aborts.
  `DivergesOnlyWhenLate` says that it does so in no other way.
- `qemu_target.py:444` filters the tape's interrupts only if a passthrough device is
  configured, and then keeps those of every twintrace device, whereas `twintrace.c:437`
  registers the first device's only ("only first device's IRQs are registered"). A vector
  on the tape that is not registered is raised and taken without an event; the replay
  diverges at the firmware's next event, or waits for ever if there is none.
  `TwintraceReplay` shows it with `Targets` larger than `Registered` (`ReplayEnds`).
- `include/device.h:18` calls the end of a range inclusive and `dev.c:311` takes `end - 1`
  for the last address. As slots are linked whole, a range loses its end just when that is
  the first byte of a slot; an end like `...FF` loses nothing. `LeftOut` states it, and
  `WriteReachesItsModels` holds of everything else the documentation promises.
- The comment at `dev.c:199` says that a read of a slot with several models, none of
  which "matched the priority name", gets to the branch "NOT Handled". It does not:
  `dev.c:172` has chosen the first of the list by then, so that the model that registered
  last answers (`ReadIsAnswered`).
- The DONE of an input that was empty, or that could not be written to the firmware's
  memory, is like any other: AFLNet is not told that the firmware never had it.
- Neither `OnGetIMUBatch` (`services.cpp:1171`) nor `ins_block_read` (`ardupilot.c:747`),
  which takes the oldest eight samples, drains the buffer: two batches may hold the same
  samples, and the first of one may be older than the last of the one before.
  `BatchesMoveForward` is about the window as a whole.
- Models of RAM ranges are indexed with the base of the system region (`dev.c:309`)
  and are never reached.
- `DEEPPWD` written during a calibration drops the calibration and leaves `ADCAL` set;
  with `PowersDownAnyTime = TRUE` the property `CalibrationEnds` fails.
- The aflnet backend has no verdict: a recoverable assert is not reported, and the
  DONE of an input that ended in a hard fault looks like any other.
- A circular stream that is exhausted takes a new count and keeps its address; the
  vendor's driver disables it first, and the model's firmware does too.
- A catch-up thread that is started twice runs twice.

## Proofs

| Module | Theorem | Property |
|---|---|---|
| `HwSessionProofs` | `TypeCorrect` | `TypeOK` |
| | `CapturedBoardStands` | `PendingIsHalted` |
| | `OneInterruptAtATime` | `OneAtATime` |
| | `ServeResumesItsOwnLine` | `ResumedByOwnReturn` |
| | `ForwardsOnce` | `ForwardsEachIrqOnce`, the refinement of `IrqForward` |
| `TraceRingProofs` | `NothingLost` | `NoEventLost` |
| | `DepthIsNest` | `DepthMatches` |
| | `CoverageIsExact` | `CoverageExact` |
| | `RingTypeOK` | `TypeOK` |
| `FuzzExchangeProofs` | `CoverageIsStill` | `JudgesStillCoverage` |
| | `InputMeetsSnapshot` | `InputMeetsItsSnapshot` |
| | `BufferStaysHeld` | `BufferIsHeld` |
| | `VerdictIsOwn` | `VerdictIsOfItsInput` |
| | `ExchangeTypeOK` | `TypeOK` |
| `AflnetExchangeProofs` | `OwnSession` | `RunsInItsSession` |
| | `DoneFreezes` | `DoneFreezesCoverage` |
| | `DoneIsTaken` | `DoneMeansTaken` |
| | `NothingIsLate` | `NothingAfterDone` |
| | `AflnetTypeOK` | `TypeOK` |
| `LockstepPhysicsProofs` | `EngineMeetsRequest` | `NotPastTheRequest` |
| | `TrueMeansReached` | `SuccessMeansReached` |
| | `BatchesAscend` | `BatchesMoveForward` |
| | `ClockTypeOK` | `TypeOK` |
| `DeviceProofs` | `WritesArrive` | `WriteReachesItsModels` |
| | `OneAnswer` | `ReadIsAnswered` |
| | `IrqOnce` | `InterruptReachesModelsOnce` |
| | `LutTypeOK` | `TypeOK` |
| | `ReplayRaisesTheNext` | `PendingIsNext` |
| | `ReplayDivergesOnlyWhenLate` | `DivergesOnlyWhenLate` |
| | `ReplayTypes`, `TwinTypesAlways` | `TwinTypeOK`, and the thread within the tape |
| `GcsUartProofs` | `RingImplementsQueue` | `RingIsQueue`, the refinement of `ByteQueue` |
| | `NoByteFromNowhere` | `NoPhantomByte` |
| | `RepliesGoHome` | `RepliesHaveAnAddress` |
| | `CutIsOneByte` | `CutByOneAtMost` |
| `AdcDmaProofs` | `BlockIsKept` | `StreamInBlock` |
| | `NoGapInBlock` | `BlockIsConsecutive` |
| | `FlagIsSeen` | `FlagHasInterrupt` |
| | `WorkIsTimed` | `WorkHasTimer` |

Each holds for every value of the constants that satisfies the assumptions of its
module, and of the theorem where it names some.

### HwSession

For every set of lines, models, other vectors, preemption order and retry bound.

Assumptions. `SoleOwner`: a forwarded vector has at most one session-backed model
and QEMU raises no such vector by itself; run `hw_session_fanout` shows that the
property fails without its first half. `ConnectQuiet`: connecting to the board does
not leave a number of a line in r0; otherwise the halt of connecting is captured as
an interrupt. The assumptions on constants are those of `HwSession`, of which
`VectorsFitLut` says that no line is raised past the end of `irq_lut`.

Argument. `OneAtATime` and `PendingIsHalted` are not inductive by themselves. `IInv`
adds that a halt is either a monitor halt of the innermost handler or the one of
connecting (`HaltInv`), that the poll thread raises what it captured (`RaiseInv`),
that exit hooks run for a vector with owners, none of which has been called yet
(`ServeInv`), and that no exception is active twice (`NoReentry`). The captured line
is a token: `PollCapture` creates it, raising, taking and returning hand it on, and
serve, which `SoleOwner` makes the only one, destroys it together with the halt. Each
of the board, the poll thread and the CPU preserves `IInv` in a lemma of its own. The
lemmas on stacks (`PushStack`, `PopStack`) rest on the library's facts on sequences.

Refinement. `FInv` adds to `IInv` what ties the frames of the board to the debt of a
line. `HandlersInv`: the lines of the frames are distinct; only the innermost handler
stands at its bkpt, and then the board is halted; a handler at its mov is owed, one at
its bkpt is owed or captured, one at its compare has been answered and finds its own
line in r1, or will, in the r1 that the frame above it stacked. `OwedInv`: a line that
is being raised or is queued is owed until it is taken, and is no longer owed while
its handler runs or is served. A step of the board, the poll thread or the CPU is then
one of fire, take, exit and return of `IrqForward`, for one line, or a stutter.

### GcsUart and its ring

For every ring of at least two entries, every limit, any lengths and number of
datagrams and any stations. `RingTypeOK` is all the ring needs: `PutIsPut` and
`GetIsGet` show that each operation does to `Contents` what the queue does, from
`AroundOnce`, which replaces the modulus by going once around. `UInv` adds that a
listener that is busy holds a datagram with bytes left, so that what it puts is a
byte, and that the firmware was told of no more bytes than there are: listeners only
add, and `gcs_read` takes one from both. `AddrInv` follows the address from the
datagram through the two stores: the flag is set only after the address was stored.
`RoomInv` adds up what is in the ring and what both listeners have still to put; the
sum never exceeds twice the limit, since each packet was let in with at most `Limit`,
its own bytes included. A refused byte therefore finds the ring full and itself the
last one of both packets. `CutIsOneByte` assumes `2 * Limit <= size`, which is the
512 of `gcs_receiver.c` and the 1024 of `ardupilot.c`.

### AdcDma

For every length of a block, range of the sample counter, delay, and whatever
firmware programs. `StreamInv` says that the stream is within its block, that an
enabled one has items left, and that what is written of the block is consecutive with
the counter at the last item; `BlockIsKept` and `NoGapInBlock` follow. A failed write
keeps it because a block that starts has its sample counter anywhere and memory is
either there for all of it or for none. `FlagInv` is `FlagHasInterrupt` with the
handler's place. `TInv` says of each ADC that its work is timed; every access and
every callback ends in setting the shared timer for the minimum of both.

### TraceRing

For every ring, reserve, nesting and set of blocks. `NothingLost` assumes
`Reserve >= MaxNest + 2`: only the inline logger waits for room, so the reserve has to
take the markers of every level that can be entered, and one exit with the entry that
follows it, before a block is logged again. The instance with a reserve of 3 and
nesting 1 meets it with equality. `RingInv` says that `unread` is what lies between
the indices, and bounds what is in the ring and still to be logged by
`N - Reserve + MaxNest + 1`, which is below N. The reserve is QEMU's and the nesting
the firmware's: the code states neither.

`DepthIsNest` and `CoverageIsExact` also assume `EarlyIrqs = FALSE`; run
`trace_ring_early_irq` shows that the first fails without it. `TraceInv` says that
replaying the unread entries from the tracer's state, whatever of an entry it has in
hand included, ends in the CPU's: in its depth and, from the snapshot on, in the
coverage expected. A log extends the replay at its end, a step of the tracer
shortens it at its beginning (`LogStep`, `ReplayStep`); with nothing unread the
replay is empty and the two are equal.

### FuzzExchange

For every number of epochs and seeds, with and without timeouts. `ExchangeInv` holds
the four epoch counters within one of each other (`EpochsClose`), and says what the
place of each thread tells about the atomics the other one reads (`FuzzerPlace`,
`CpuPlace`). After a timeout no epoch is begun (`CampaignEnds`), which is why a CPU
that is late cannot touch the coverage of a later input. `OwnEffects` is then local to
the CPU. `VerdictIsOwn` assumes `EarlyAsserts = FALSE`, for the reason under Findings;
`StatusInv` says that while an epoch is open its status is set exactly when the
firmware hit an assert in it.

### AflnetExchange

For every number of inputs, restores and responses, and sockets of any capacity, with
no further assumption. Datagrams may be lost and AFLNet may give up at any wait, so
that inputs and restores of an abandoned session are still queued when the next one
begins. `Sessions` is the heart of `SessionInv`: of two inputs with no restore
between them, in the queue or in the memory, the later one's session had begun by the
earlier one. A restore that is lost keeps its session from beginning, so the
statement survives it. `Awaited` says where the input AFLNet waits for is; its DONE can
then only be that of the CPU's last step. `NothingIsLate` follows from `Active`:
what is sent carries the active number, which is not answered yet.

### LockstepPhysics

For every tick, tolerance, batch, capacity and bound on faults, with no further
assumption. `Traffic` counts: each frame of the stepper is under way, answered, lost
or charged to a timeout. `Ahead` turns this into a bound on how far the engine is from
what the service last heard, and `NotPastTheRequest` follows, since a frame is only
sent while what it heard is below the target. Under `Answers` and `Requests` every
queue ascends: an answer that comes late is older than those still to come, but newer
than what the service has, so that `Samples` can say that a batch read now is, place
by place, at least the one read before. It may be the same, or overlap it. This is so although the
oldest sample is dropped from a full buffer, which only moves a newer one into its place.

### DeviceLut

For every configuration. `LutInv` says that a slot lists exactly the models that
registered a range over it so far, the last one first, that a vector lists exactly the
models that named it and none twice, and that accesses come when the tables are complete.
`IrqOnce` and `LutTypeOK`, which says that no registration writes past a table, hold for
any sizes and widths. `WritesArrive` and `OneAnswer` assume `Geometry`: the sixteen
regions fit `hwaddr` and, in slots, an index; a region is whole slots; no range ends past
the last region. In `dev.c` a region is 0x10000000 bytes, a slot 0x10, `hwaddr` has 64
bits and an index 32. Then no difference wraps (`SlotIs`), the clamp of the last slot
cuts nothing that was asked for (`AskedIsCovered`), and a slot that is linked holds an
address of the range (`CoveredIsNear`). What was asked for has its end, as `device.h`
says, but for the case `LeftOut`. RAM ranges are outside the theorems, as they are
outside the properties.

### TwintraceReplay

For every firmware and every handler, any lines and any number of their interrupts, in
any order, nested or not, at any instruction; for any interrupts of SysTick and of other
models, in either run; and for a CPU that never waits for the thread. Both theorems
assume `Followable`:

- `Registered = Lines` and `Targets = Lines`: the twintrace model owns every line that
  the recorded hardware raises, and the tape keeps the interrupts of those vectors only.
  The code does not see to it (Findings). A line without the model is not raised again,
  so that its handler's accesses are missing; a vector the tape keeps but the model does
  not own is a record that no event consumes.
- No traced line is SysTick's or is raised by anything else.
- The handlers of everything else make no traced access. Where they do, their accesses
  are on the tape at the place where they ran while recording, and a replay diverges
  without being late. This matters for SysTick, whose interrupts are not replayed though
  its handler's accesses are.

The types (`TwinTypesAlways`, `ReplayTypes`) need none of this.

Argument. The replay has to be compared with a run that is over, of which the model keeps
the tape only. What two runs have in common is a *view* (`Views`): the firmware and the
handlers of `Lines` that are active, each with a place in its program that is known up to
instructions that are no access (`Same`). `Event(p, e, t)` says that record `e` leads from
view `p` to view `t`, and `IsPath` that there is a view between any two records of a tape.
`Tracks` ties the CPU to a view: the handlers of `Others` on its stack are skipped, since
they leave no trace. `Recorded` says of the recording that its log has a path and that
the CPU is at the end of it; `Replayed` says of the replay that the tape has one, and that
the CPU is at the view before the next record. Both the path and what ties the CPU to it
are existentially quantified, so that the model needs no history variable.

Each step of the CPU then leaves the view alone (`QuietIrq`, `QuietExecute` and their
like), or is an access, an entry or a return of `Lines`. While recording these extend the
path. In the replay the record that is next starts from the same view: if it is no
interrupt, the firmware's next access or end of a handler can only be that record
(`AccessIsNext`, `EndIsNext`), so that a divergence needs an interrupt for a next record.
An entry is always the next record, by `Raises`: what is pending of `Lines` was raised by
the thread for the record it looks at, which has not been consumed since. That is
`ReplayRaisesTheNext`; the thread does not go on before the CPU has taken the interrupt.

For the second half of `DivergesOnlyWhenLate`, `Counts` adds to the view how many
instructions were executed below each handler, which makes sense only while nothing else
has interrupted either run (`others = 0`). `Due` says that the count of an interrupt's
record is what had been executed when it was taken, `Counts` that no handler of the replay
began earlier than its recorded one. When the CPU goes past the place of an interrupt,
the count of its record has come (`CountIsPast`).

The converter is a recursive function; `Makes` states what it computes without the
recursion, and `MakesNothing` and `MakesMore` extend it as the log is extended, so that no induction over a
log is made. `RecordedStep`, `ReplayedStep` and `RaisesStep` are the steps of the three
parts of the invariant, `Follows`.

### Only model-checked

- All liveness: `EveryIrqServed`, `DrainEnds`, `InputIsJudged`, `EveryRequestAnswered`,
  `ReplayEnds`, `OverflowPasses`, `RequestIsServed`, `CalibrationEnds`. It needs
  fairness and ENABLED, which are out of the prover's reach. Every other property of a
  passing run is a theorem.
- What a recursive definition computes for every input: the provers have no induction
  over data. `TraceRing` avoids it with a witness for the replay, a sequence of states
  instead of a recursive function, and the converter of `TwintraceReplay` with `Makes`.

## Not modelled

- The registry of sessions beyond its result; the configuration path (TOML to JSON to
  `dev.c`); the Python front end, servers and analysers: sequential start-up code or
  off-line tools.
- Of the physics: the lidar protocol, storage hooks, the other sensor services, how
  PWM values are mixed, and what an FMU computes (continuous state).
- Of BoardRunner: the other generated models, the SDK's signals, FIFOs and buses
  beyond the timers and requests `AdcDma` uses, and firmware binaries; of the ADC and
  DMA models, registers that only keep data, memory-to-memory transfers and the
  DMAMUX.
- Virtual instructions other than the tick and `raiseirq`, probe, introspection, the
  Python VM; `libafl_phi`; coverage dump files; the schema of `generic.c`.

`PROJECT.json` gives the reason for each. Most of the repository's lines are of these
kinds: generated register models of other boards, firmware, tables and tools. No
module has memory weaker than sequential consistency: the plain `int`s and the ring
index are read and written in the order of the code.

## Plan

Done: the modules and theorems above. Next, in this order:

1. *Session registry*: slots, reference counts, names; reached by two models at once.
2. *Composition*: `DeviceLut` dispatching to the session and to twintrace in record
   mode, in place of the constant `Claims`.
3. *BoardRunner SDK*: signals, FIFOs, buses, with a second generated model.
4. *A replay in time*: what the replay promises once the code holds the CPU back while
   an interrupt is due, with the accesses of live handlers filtered from the tape.
