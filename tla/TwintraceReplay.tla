-------------------------- MODULE TwintraceReplay ---------------------------
(***************************************************************************)
(* device_models/twintrace/twintrace.c, with the log of dev.c it replays    *)
(* and the converter utils/twintrace.py between the two.                    *)
(*                                                                         *)
(* A first run of the firmware is recorded: every MMIO access, every        *)
(* exception entry and exit, with the instruction count.  A second run is   *)
(* then fed from the tape: an access must be the next record of the tape,   *)
(* and a thread raises an interrupt when its record is the next one and the *)
(* instruction count has come.  The CPU does not wait for that thread.      *)
(*                                                                         *)
(* The firmware (external) is a program and one for every vector.  An       *)
(* instruction stands for a block with at most one access to a traced       *)
(* register: "mmio" has it, "other" has not.  Other interrupts than those   *)
(* of the traced devices come at any time, and not at the same in the two   *)
(* runs: SysTick runs on a clock, and other models raise what they like.    *)
(***************************************************************************)
EXTENDS Integers, Sequences, SequencesExt

CONSTANTS
  Main,          \* the program of the firmware, which idles at its end
  Handler,       \* vector -> the program of its handler
  Lines,         \* vectors of the traced devices, raised in the recorded run
  Others,        \* vectors that anything else raises, in either run
  Registered,    \* vectors with the twintrace model in irq_lut
  Targets,       \* vectors whose records the tape keeps
  MaxIrqs,       \* bound: interrupts of Lines in the recorded run
  MaxOthers,     \* bound: interrupts of Others in both runs
  MaxIcount      \* bound: instruction count up to which the firmware idles

SysTick      == 15
Instructions == {"mmio", "other"}
Vectors      == Lines \cup Others

ASSUME ProgramAssumption == /\ Main \in Seq(Instructions)
                            /\ Handler \in [Vectors -> Seq(Instructions)]
ASSUME VectorAssumption  == Vectors \subseteq Nat \ {0} /\ Registered \subseteq Vectors
ASSUME BoundAssumption   == MaxIrqs \in Nat /\ MaxOthers \in Nat /\ MaxIcount \in Nat

VARIABLES
  mode,      \* "record", "replay", "diverged"
  tape,      \* the records
  idx,       \* g_rep.idx: records consumed
  pc, stack, \* position in Main, and <<vector, position>> of the handlers running
  icount,    \* instructions executed
  nvic,      \* interrupts pending in QEMU
  irqs,      \* interrupts of Lines the hardware has raised
  others,    \* interrupts of Others raised, in both runs
  thread, e_idx   \* replay_irq_thread_fn, and the record it looks at

cpu  == <<pc, stack, icount>>
raised == <<irqs, others>>
twinVars == <<mode, tape, idx, cpu, nvic, raised, thread, e_idx>>

Record(type, addr) == [type |-> type, addr |-> addr, icount |-> icount]

Replaying   == mode = "replay"
Exhausted   == idx >= Len(tape)
Expected    == tape[idx + 1]
Awaits(t)   == ~Exhausted /\ Expected.type = t

-----------------------------------------------------------------------------
(* What a CPU event does to the tape.                                      *)

NoBroadcast == thread' = thread     \* mutant: a sleeping thread sleeps on
Broadcast == thread' = CASE thread = "asleep" -> "look"
                         [] thread = "slept"  -> "settle"
                         [] OTHER             -> thread

\* twintrace_read, _write, _interrupt and _serve: the event must be the next
\* record, or the replay aborts.  The instruction count is not compared.
Replay(r) ==
  /\ IF Awaits(r.type) /\ Expected.addr = r.addr
       THEN idx' = idx + 1 /\ Broadcast /\ mode' = mode
       ELSE mode' = "diverged" /\ UNCHANGED <<idx, thread>>
  /\ UNCHANGED <<tape, e_idx>>

Log(r) == tape' = Append(tape, r) /\ UNCHANGED <<mode, idx, thread, e_idx>>

NoEvent == UNCHANGED <<mode, tape, idx, thread, e_idx>>

Access(register) == IF Replaying THEN Replay(Record("MMIO", register))
                                 ELSE Log(Record("MMIO", register))

\* dev_notify_irq and dev_irqret_hook log every vector but the timer's, and
\* call the model only for those it registered; the model ignores the timer's.
IrqEvent(type, v) ==
  IF v = SysTick                          THEN NoEvent
  ELSE IF ~Replaying                      THEN Log(Record(type, v))
  ELSE IF v \in Registered                THEN Replay(Record(type, v))
  ELSE NoEvent

-----------------------------------------------------------------------------
(* The CPU.                                                                *)

InHandler   == stack # <<>>
At          == IF InHandler THEN Last(stack)[2] ELSE pc
Program     == IF InHandler THEN Handler[Last(stack)[1]] ELSE Main
Instruction == Program[At + 1]
Advance     == IF InHandler
                 THEN /\ stack' = Append(Front(stack), <<Last(stack)[1], At + 1>>)
                      /\ pc' = pc
                 ELSE pc' = pc + 1 /\ stack' = stack

\* The register an access goes to: each place in the code has its own.
AccessedRegister == (IF InHandler THEN Last(stack)[1] * 100 ELSE 0) + At

\* A handler is not interrupted by its own vector.
CanTake(v) == v \in nvic /\ \A i \in 1 .. Len(stack) : stack[i][1] # v

Execute ==
  /\ mode # "diverged"
  /\ At < Len(Program)
  /\ icount' = icount + 1
  /\ Advance
  /\ IF Instruction = "mmio" THEN Access(AccessedRegister) ELSE NoEvent
  /\ UNCHANGED <<nvic, raised>>

\* The firmware has nothing left to do, and waits for interrupts.
Idle ==
  /\ mode # "diverged"
  /\ ~InHandler /\ pc = Len(Main)
  /\ icount < MaxIcount \/ (Replaying /\ Awaits("TAKEN") /\ icount < Expected.icount)
  /\ icount' = icount + 1
  /\ UNCHANGED <<mode, tape, idx, pc, stack, nvic, raised, thread, e_idx>>

\* Exception entry.
TakeIrq(v) ==
  /\ mode # "diverged"
  /\ CanTake(v)
  /\ nvic' = nvic \ {v}
  /\ stack' = Append(stack, <<v, 0>>)
  /\ IrqEvent("TAKEN", v)
  /\ UNCHANGED <<pc, icount, raised>>

ReturnIrq ==
  /\ mode # "diverged"
  /\ InHandler /\ At = Len(Program)
  /\ stack' = Front(stack)
  /\ IrqEvent("SERVED", Last(stack)[1])
  /\ UNCHANGED <<pc, icount, nvic, raised>>

\* The recorded run: hw_session raises an interrupt of the board.
HardwareIrq(v) ==
  /\ mode = "record" /\ irqs < MaxIrqs
  /\ nvic' = nvic \cup {v}
  /\ irqs' = irqs + 1
  /\ UNCHANGED <<mode, tape, idx, cpu, others, thread, e_idx>>

\* The clock, or a model of another device, in either run.
OtherIrq(v) ==
  /\ mode # "diverged" /\ others < MaxOthers
  /\ nvic' = nvic \cup {v}
  /\ others' = others + 1
  /\ UNCHANGED <<mode, tape, idx, cpu, irqs, thread, e_idx>>

Finished == pc = Len(Main) /\ ~InHandler /\ nvic = {}

\* The recorded run is over: convert the log, and start the firmware anew.
Kept(r) == r.type = "MMIO" \/ r.addr \in Targets

\* The converter goes down the log and writes the records it keeps.
Filtered(log) ==
  LET kept[n \in 0 .. Len(log)] ==
        IF n = 0 THEN <<>>
        ELSE IF Kept(log[n]) THEN Append(kept[n - 1], log[n]) ELSE kept[n - 1]
  IN  kept[Len(log)]

Convert ==
  /\ mode = "record" /\ Finished
  /\ mode' = "replay"
  /\ tape' = Filtered(tape)
  /\ pc' = 0 /\ icount' = 0 /\ idx' = 0
  /\ thread' = "look"
  /\ UNCHANGED <<stack, nvic, raised, e_idx>>

-----------------------------------------------------------------------------
(* replay_irq_thread_fn.  Each step but "raise" is a section under the mutex. *)

ThreadTo(at) == thread' = at /\ UNCHANGED <<mode, tape, idx, cpu, nvic, raised>>
Stay         == e_idx' = e_idx

\* Wait for an IRQ_TAKEN record to come up.
Look ==
  /\ thread = "look"
  /\ \/ Exhausted /\ ThreadTo("done") /\ Stay
     \/ Awaits("TAKEN") /\ ThreadTo("time") /\ e_idx' = idx
     \/ ~Exhausted /\ ~Awaits("TAKEN") /\ ThreadTo("asleep") /\ Stay

IsTime == icount >= tape[e_idx + 1].icount

\* Wait for its instruction count, as long as it is still the next record.
Time ==
  /\ thread = "time"
  /\ \/ IsTime /\ ThreadTo("confirm")
     \/ ~IsTime /\ idx # e_idx /\ ThreadTo("look")
  /\ Stay

Confirm ==
  /\ thread = "confirm"
  /\ ThreadTo(IF idx = e_idx THEN "raise" ELSE "look")
  /\ Stay

RaisedVector == tape[e_idx + 1].addr

Raise ==
  /\ thread = "raise"
  /\ nvic' = nvic \cup {RaisedVector}
  /\ thread' = "settle"
  /\ UNCHANGED <<mode, tape, idx, cpu, raised, e_idx>>

\* mutant: does not wait for the CPU to take the interrupt
SettleAtOnce == thread = "settle" /\ ThreadTo("look") /\ Stay

\* Wait until the CPU has taken it.
Settle ==
  /\ thread = "settle"
  /\ ThreadTo(IF idx = e_idx THEN "slept" ELSE "look")
  /\ Stay

Thread == mode # "diverged" /\ (Look \/ Time \/ Confirm \/ Raise \/ Settle)

-----------------------------------------------------------------------------
TwinInit ==
  /\ mode = "record" /\ tape = <<>> /\ idx = 0
  /\ pc = 0 /\ stack = <<>> /\ icount = 0
  /\ nvic = {} /\ irqs = 0 /\ others = 0
  /\ thread = "off" /\ e_idx = 0

Cpu == Execute \/ Idle \/ (\E v \in Vectors : TakeIrq(v)) \/ ReturnIrq

\* Both runs are over.
Over ==
  /\ mode = "diverged" \/ (Replaying /\ Finished /\ thread = "done")
  /\ UNCHANGED twinVars

TwinNext ==
  \/ Cpu
  \/ \E v \in Lines : HardwareIrq(v)
  \/ \E v \in Others : OtherIrq(v)
  \/ Convert
  \/ Thread
  \/ Over

TwinSpec == TwinInit /\ [][TwinNext]_twinVars

\* The CPU and the thread keep running; QEMU lets a pending interrupt in.
TwinFairSpec ==
  /\ TwinSpec /\ WF_twinVars(Cpu) /\ WF_twinVars(Convert) /\ WF_twinVars(Thread)
  /\ \A v \in Vectors : WF_twinVars(TakeIrq(v))

-----------------------------------------------------------------------------
(* Properties.                                                             *)

Records == [type : {"MMIO", "TAKEN", "SERVED"}, addr : Nat, icount : Nat]

\* The range of every variable.
TwinTypeOK ==
  /\ mode \in {"record", "replay", "diverged"}
  /\ tape \in Seq(Records)
  /\ idx \in 0 .. Len(tape) /\ e_idx \in 0 .. Len(tape)
  /\ pc \in 0 .. Len(Main) /\ icount \in Nat
  /\ stack \in Seq(Vectors \X Nat)
  /\ \A i \in 1 .. Len(stack) : stack[i][2] <= Len(Handler[stack[i][1]])
  /\ nvic \subseteq Vectors /\ irqs \in 0 .. MaxIrqs /\ others \in 0 .. MaxOthers
  /\ thread \in {"off", "look", "asleep", "time", "confirm", "raise", "settle",
                 "slept", "done"}

\* A replay ends early only because an interrupt of the tape did not come before
\* the CPU went on to the event after it.  Where nothing but the traced devices has
\* interrupted either run, its instruction count had come: the thread was late.
DivergesOnlyWhenLate ==
  [][mode # "diverged" /\ mode' = "diverged" =>
       Awaits("TAKEN") /\ (others = 0 => icount >= Expected.icount)]_twinVars

\* A traced interrupt pending during the replay is the next record of the tape:
\* the thread raises nothing twice, whenever the CPU takes it.
PendingIsNext ==
  Replaying => \A v \in nvic \cap Registered : Awaits("TAKEN") /\ Expected.addr = v

\* A replay that does not diverge comes to the end of the tape, and the thread with
\* it: neither waits for the other for ever.
ReplayEnds ==
  Replaying ~> mode = "diverged" \/ (Exhausted /\ Finished /\ thread = "done")

=============================================================================
