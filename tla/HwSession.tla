----------------------------- MODULE HwSession ------------------------------
(***************************************************************************)
(* device_models/common/hw_session.c: one probe, shared by the device      *)
(* models that forward MMIO and interrupts to a real board.                *)
(*                                                                         *)
(* Three parties run concurrently.                                         *)
(*   - the board (external), whose monitor firmware halts in a loop        *)
(*       1: mov r0,#L ; bkpt ; cmp r1,#L ; bne 1b                          *)
(*     on every interrupt L;                                               *)
(*   - the session's poll thread, which sees the halt, captures the line   *)
(*     and raises it in QEMU;                                              *)
(*   - the emulated CPU (external), which takes exceptions and returns     *)
(*     from them, and runs the exit hooks: core.c dispatches to dev.c,     *)
(*     which calls serve of every model linked to the vector.              *)
(*                                                                         *)
(* A section under hw_mutex is one action: it never blocks except in       *)
(* pthread_cond_wait, which is the guard irq_pending = 0 of the poll       *)
(* thread.  The board runs on by itself between any two of them.           *)
(***************************************************************************)
EXTENDS Integers, Sequences, SequencesExt

CONSTANTS
  Lines,        \* interrupt lines the board can fire
  Models,       \* device models that share the session
  Claims,       \* <<m, v>>: model m is linked in irq_lut[v]
  Others,       \* vectors raised inside QEMU (timers, virtual instructions)
  ConnectR0,    \* what r0 may hold when connecting halts the board
  Preempts,     \* <<k, l>>: on the board, line k preempts line l
  MaxAttempts,  \* HW_RETRY_MAX_ATTEMPTS
  Flaky         \* an access may fail

IRQ_FIRING_LINE_MIN  == 1
IRQ_FIRING_LINE_MAX  == 240
IRQ_QEMU_VECTOR_BASE == 16
MAX_INTERRUPTS       == 240
NoLine               == -1     \* a register value that is no interrupt line

Vector(l)     == l + IRQ_QEMU_VECTOR_BASE
InRange(r)    == r \in IRQ_FIRING_LINE_MIN .. IRQ_FIRING_LINE_MAX
Forwardable   == {l \in Lines : InRange(l)}
Vectors       == {Vector(l) : l \in Forwardable} \cup Others

\* The session-backed models of irq_lut[v].  The list has no duplicates.
EveryModel(v) == Models       \* mutant: hand the return to every model
Owners(v)     == {m \in Models : <<m, v>> \in Claims}

ASSUME LinesAssumption    == Lines \subseteq Nat
ASSUME VectorsFitLut      == Vectors \subseteq 0 .. MAX_INTERRUPTS - 1
ASSUME ConnectAssumption  == ConnectR0 \subseteq Int
ASSUME AttemptsAssumption == MaxAttempts \in Nat
ASSUME FlakyAssumption    == Flaky \in BOOLEAN

VARIABLES
  \* the board
  halted,       \* hw_board_halted
  r0, r1,       \* the registers the monitor and the session talk through
  frames,       \* handlers active on the board, innermost last
  \* the session
  irq_pending,  \* captured line, 0 = none
  poll,         \* the poll thread: "check" (under the mutex) or "raise"
  firing_line,  \* its local variable
  \* the emulated CPU
  nvic,         \* exceptions pending in QEMU
  active,       \* exceptions being handled, innermost last
  cpu,          \* "run", "serve" (exit hooks), "access" (MMIO), "dead"
  exiting,      \* the exception whose exit hooks run, 0 = none
  todo,         \* models whose serve the exit dispatch still has to call
  attempt,      \* retries of the access in progress
  \* history
  owed          \* lines that fired on the board and were not yet taken

board   == <<halted, r0, r1, frames>>
session == <<irq_pending, poll, firing_line>>
qemu    == <<nvic, active, cpu, exiting, todo, attempt>>
vars    == <<board, session, qemu, owed>>

-----------------------------------------------------------------------------
(* The board and its monitor firmware (external).                          *)

Top          == Last(frames)
InHandler    == {frames[i].line : i \in 1 .. Len(frames)}
MoveTop(at)  == Append(Front(frames), [Top EXCEPT !.at = at])

\* What hw_board_run does: a handler stopped at its bkpt goes on to the cmp.
Resume ==
  /\ halted' = FALSE
  /\ frames' = IF frames # <<>> /\ Top.at = "bkpt" THEN MoveTop("cmp") ELSE frames

\* Exception entry stacks r1; in thread mode r1 holds anything.
BoardEnter(l) ==
  /\ ~halted
  /\ l \notin InHandler
  /\ frames # <<>> => <<l, Top.line>> \in Preempts
  /\ \E r \in IF frames = <<>> THEN Lines \cup {NoLine} ELSE {r1} :
       /\ r1' = r
       /\ frames' = Append(frames, [line |-> l, at |-> "mov", saved |-> r])
  /\ owed' = owed \cup {l}
  /\ UNCHANGED <<halted, r0, session, qemu>>

\* mov r0,#L ; bkpt #0
BoardBreak(l) ==
  /\ ~halted /\ frames # <<>> /\ Top.at = "mov" /\ Top.line = l
  /\ r0' = l
  /\ halted' = TRUE
  /\ frames' = MoveTop("bkpt")
  /\ UNCHANGED <<r1, session, qemu, owed>>

\* cmp r1,#L ; bne 1b : loop, or return from the handler and unstack r1.
BoardCompare(l) ==
  /\ ~halted /\ frames # <<>> /\ Top.at = "cmp" /\ Top.line = l
  /\ IF r1 = l
       THEN /\ frames' = Front(frames)
            /\ r1' = Top.saved
            /\ owed' = owed
       ELSE /\ frames' = MoveTop("mov")
            /\ UNCHANGED <<r1, owed>>
  /\ UNCHANGED <<halted, r0, session, qemu>>

-----------------------------------------------------------------------------
(* The poll thread.                                                        *)

NoWait == TRUE                     \* mutant: no pthread_cond_wait
NothingPending == irq_pending = 0

PollCapture ==
  /\ poll = "check" /\ NothingPending
  /\ halted /\ InRange(r0)
  /\ irq_pending' = r0
  /\ firing_line' = r0
  /\ poll' = "raise"
  /\ UNCHANGED <<board, qemu, owed>>

\* A halt that is no monitor halt: resume the board, r1 untouched.
PollSpurious ==
  /\ poll = "check" /\ NothingPending
  /\ halted /\ ~InRange(r0)
  /\ Resume
  /\ UNCHANGED <<r0, r1, session, qemu, owed>>

RaiseLine(l) == nvic' = nvic \cup {l}        \* mutant: no vector base
RaiseIrq(l)  == nvic' = nvic \cup {Vector(l)}

\* After the unlock: qemu_plugin_raise_irq.
PollRaise ==
  /\ poll = "raise"
  /\ RaiseIrq(firing_line)
  /\ poll' = "check"
  /\ UNCHANGED <<board, irq_pending, firing_line, active, cpu, exiting, todo,
                 attempt, owed>>

-----------------------------------------------------------------------------
(* The emulated CPU and the hooks it runs.                                 *)

OtherRaise(v) ==
  /\ v \notin nvic
  /\ cpu # "dead"
  /\ nvic' = nvic \cup {v}
  /\ UNCHANGED <<board, session, active, cpu, exiting, todo, attempt, owed>>

\* Exception entry.  The entry hooks change nothing here: interrupt() of the
\* passthrough model, and of twintrace when it records, returns at once.
TakeIrq(v) ==
  /\ cpu = "run"
  /\ v \in nvic /\ ~ Contains(active, v)
  /\ nvic' = nvic \ {v}
  /\ active' = Append(active, v)
  /\ owed' = {l \in owed : Vector(l) # v}
  /\ UNCHANGED <<board, session, cpu, exiting, todo, attempt>>

\* Exception return: core_irq_exit_dispatch, dev_irqret_hook.
ReturnIrq(v) ==
  /\ cpu = "run"
  /\ active # <<>> /\ v = Last(active)
  /\ active' = Front(active)
  /\ IF Owners(v) = {}
       THEN UNCHANGED <<cpu, exiting, todo>>
       ELSE cpu' = "serve" /\ exiting' = v /\ todo' = Owners(v)
  /\ UNCHANGED <<board, session, nvic, attempt, owed>>

LeaveR1   == r1' = r1                         \* mutant: resume without an answer
AnswerR1  == r1' = irq_pending
LeavePending == irq_pending' = irq_pending    \* mutant: no reset
ClearPending == irq_pending' = 0

\* hw_session_serve, called by the serve handler of model m.  It ignores the
\* vector that returned.
Serve(m) ==
  /\ cpu = "serve" /\ m \in todo
  /\ IF irq_pending = 0
       THEN UNCHANGED <<board, irq_pending>>
       ELSE /\ AnswerR1
            /\ Resume
            /\ ClearPending
            /\ UNCHANGED r0
  /\ todo' = todo \ {m}
  /\ IF todo = {m}
       THEN cpu' = "run" /\ exiting' = 0
       ELSE UNCHANGED <<cpu, exiting>>
  /\ UNCHANGED <<poll, firing_line, nvic, active, attempt, owed>>

\* The firmware touches a passed-through register: hw_session_read or _write.
AccessStart ==
  /\ cpu = "run"
  /\ cpu' = "access"
  /\ UNCHANGED <<board, session, nvic, active, exiting, todo, attempt, owed>>

AccessDone ==
  /\ cpu = "access"
  /\ cpu' = "run" /\ attempt' = 0
  /\ UNCHANGED <<board, session, nvic, active, exiting, todo, owed>>

\* The probe failed.  Retried only while the board is halted, then utils_die.
AccessFail ==
  /\ Flaky /\ cpu = "access"
  /\ IF halted /\ attempt < MaxAttempts
       THEN attempt' = attempt + 1 /\ cpu' = cpu
       ELSE cpu' = "dead" /\ attempt' = attempt
  /\ UNCHANGED <<board, session, nvic, active, exiting, todo, owed>>

-----------------------------------------------------------------------------
\* hw_session_acquire has connected, which may have halted the board, and
\* started the poll thread.
Init ==
  /\ halted \in BOOLEAN /\ r0 \in ConnectR0 /\ r1 = NoLine /\ frames = <<>>
  /\ irq_pending = 0 /\ poll = "check" /\ firing_line = 0
  /\ nvic = {} /\ active = <<>> /\ cpu = "run" /\ exiting = 0 /\ todo = {}
  /\ attempt = 0
  /\ owed = {}

Board == \E l \in Lines : BoardEnter(l) \/ BoardBreak(l) \/ BoardCompare(l)
Poll  == PollCapture \/ PollSpurious \/ PollRaise
Cpu   == \/ \E v \in Others : OtherRaise(v)
         \/ \E v \in Vectors : TakeIrq(v) \/ ReturnIrq(v)
         \/ \E m \in Models : Serve(m)
         \/ AccessStart \/ AccessDone \/ AccessFail

Next == Board \/ Poll \/ Cpu

Spec == Init /\ [][Next]_vars

\* The board and the poll thread run on their own.  The firmware lets every
\* pending exception in sooner or later, and returns from its handlers; a
\* handler of the board gets its turn between preemptions.
Fairness ==
  /\ WF_vars(Poll)
  /\ \A l \in Lines : SF_vars(BoardBreak(l) \/ BoardCompare(l))
  /\ \A l \in Forwardable : SF_vars(TakeIrq(Vector(l)))
  /\ \A v \in Vectors : SF_vars(ReturnIrq(v))
  /\ WF_vars(AccessDone \/ \E m \in Models : Serve(m))

FairSpec == Spec /\ Fairness

-----------------------------------------------------------------------------
(* Properties.                                                             *)

Frame == [line : Lines, at : {"mov", "bkpt", "cmp"}, saved : Lines \cup {NoLine}]

\* The range of every variable.
TypeOK ==
  /\ halted \in BOOLEAN
  /\ r0 \in Lines \cup ConnectR0
  /\ r1 \in Lines \cup {NoLine}
  /\ frames \in Seq(Frame)
  /\ irq_pending \in Forwardable \cup {0}
  /\ poll \in {"check", "raise"}
  /\ firing_line \in Forwardable \cup {0}
  /\ nvic \subseteq Vectors
  /\ active \in Seq(Vectors)
  /\ cpu \in {"run", "serve", "access", "dead"}
  /\ exiting \in Vectors \cup {0}
  /\ todo \subseteq Models
  /\ attempt \in 0 .. MaxAttempts
  /\ owed \subseteq Lines

\* A captured line is a real monitor halt that still stands: the board is
\* stopped at the bkpt of exactly that line's handler.  So serve writes r1 for
\* the handler that is waiting, and resumes a board that is halted.
PendingIsHalted ==
  irq_pending # 0 =>
    /\ halted /\ r0 = irq_pending
    /\ frames # <<>> /\ Top.at = "bkpt" /\ Top.line = irq_pending

\* Where the interrupt of line l is on its way through QEMU.
Raising(l)   == poll = "raise" /\ firing_line = l
Queued(l)    == Vector(l) \in nvic
Running(l)   == Contains(active, Vector(l))
Serving(l)   == cpu = "serve" /\ exiting = Vector(l)

\* A line has business in QEMU only while it is the captured one, and then in
\* one place: being raised, pending, active or served.  The poll thread never
\* raises a second interrupt on top of one in flight.
OneAtATime ==
  /\ \A l \in Forwardable :
       Raising(l) \/ Queued(l) \/ Running(l) \/ Serving(l) => irq_pending = l
  /\ \A l \in Forwardable :
       /\ ~ (Raising(l) /\ (Queued(l) \/ Running(l) \/ Serving(l)))
       /\ ~ (Queued(l) /\ (Running(l) \/ Serving(l)))
       /\ ~ (Running(l) /\ Serving(l))

\* The board leaves the halt of a captured line only when the firmware in QEMU
\* has returned from the handler of that very line, not from another's.
ResumedByOwnReturn ==
  [][irq_pending # 0 /\ irq_pending' = 0 => exiting = Vector(irq_pending)]_vars

\* How far each line is, for the abstract specification.
phase ==
  [l \in Forwardable |->
     IF l \notin InHandler THEN "idle"
     ELSE IF l \in owed THEN "fired"
     ELSE IF Running(l) THEN "taken"
     ELSE "exited"]

Forward == INSTANCE IrqForward WITH Lines <- Forwardable, phase <- phase

\* The session forwards each interrupt of the board exactly once and holds the
\* board's handler until the firmware's handler has finished.
ForwardsEachIrqOnce == Forward!Spec

\* Every interrupt of the board is served in the end: its handler returns,
\* unless the firmware dies of a probe that fails for too long.
EveryIrqServed ==
  \A l \in Forwardable : l \in InHandler ~> l \notin InHandler \/ cpu = "dead"

=============================================================================
