---------------------------- MODULE FuzzExchange ----------------------------
(***************************************************************************)
(* The exchange of inputs and verdicts between the LibAFL thread            *)
(* (fastdyn_fuzz_lib/src/lib.rs) and the emulated CPU (fuzz.c and           *)
(* fuzz_libafl.c).                                                          *)
(*                                                                         *)
(* The two threads share a handful of atomics and no lock.  The fuzzer      *)
(* publishes an input under a new epoch and spins until that epoch is       *)
(* completed, or gives up.  The CPU completes an epoch when the firmware    *)
(* reaches the synchronisation point, and spins for the next epoch.         *)
(*                                                                         *)
(* An input is its epoch; coverage, traces and memory are the sets of       *)
(* epochs that left something in them (0 is what ran before any input).     *)
(* The firmware is arbitrary: it may visit its hooks in any order.  Its     *)
(* snap callback is that of generic.c, the one fuzz_init registers.         *)
(***************************************************************************)
EXTENDS Integers

CONSTANTS
  MaxEpoch,     \* bound: epochs the fuzzer hands out
  Seeds,        \* inputs found in the corpus directory
  Timeouts,     \* a wait of the fuzzer may reach its 60 seconds
  EarlyAsserts  \* the firmware may reach an assert before its first input

ASSUME EpochAssumption   == MaxEpoch \in Nat \ {0} /\ Seeds \in Nat
ASSUME BooleanAssumption == Timeouts \in BOOLEAN /\ EarlyAsserts \in BOOLEAN

None  == 0    \* of an epoch, a null pointer; of a status, ASSERT_NONE
RECOVERABLE == 1
FATAL       == 2
Epochs      == 1 .. MaxEpoch
Larger(a, b) == IF a < b THEN b ELSE a

VARIABLES
  \* the shared atomics
  ASSERT_STATUS, CURRENT_INPUT_PTR, PUBLISHED_INPUT_EPOCH,
  COMPLETED_INPUT_EPOCH, BACKEND_READY_FOR_INPUT,
  \* the fuzzer thread
  fuzzer,           \* where it is
  NEXT_INPUT_EPOCH, epoch,
  seeds,            \* pending_initial_traces still to run
  tracing,          \* the input runs in trace_input_once
  timed_out, crashed,
  verdict,          \* of the latest input: "none", "ok", "crash", "timeout"
  \* the CPU thread
  cpu,              \* where it is
  back,             \* where the synchronisation point returns to
  g_current_epoch, seen,
  g_active_msg_state, g_active_msg_data,
  fuzz_snap_initialized,
  \* what the runs leave behind
  CVG, g_trace_enabled, trace, memory,
  \* history
  hits              \* epochs during which the firmware reached an assert

shared   == <<ASSERT_STATUS, CURRENT_INPUT_PTR, PUBLISHED_INPUT_EPOCH,
              COMPLETED_INPUT_EPOCH, BACKEND_READY_FOR_INPUT>>
thread   == <<fuzzer, NEXT_INPUT_EPOCH, epoch, seeds, tracing, timed_out, crashed,
              verdict>>
message  == <<g_current_epoch, seen, g_active_msg_state, g_active_msg_data>>
emulated == <<cpu, back, fuzz_snap_initialized>>
effects  == <<CVG, g_trace_enabled, trace, memory>>
vars     == <<shared, thread, message, emulated, effects, hits>>

-----------------------------------------------------------------------------
(* The fuzzer thread: FastDynExecutor::run_target.                         *)

\* trace_input_once and run_target begin alike; the status is cleared first.
Begin(trace_it) ==
  /\ NEXT_INPUT_EPOCH <= MaxEpoch
  /\ epoch' = NEXT_INPUT_EPOCH /\ NEXT_INPUT_EPOCH' = NEXT_INPUT_EPOCH + 1
  /\ tracing' = trace_it /\ verdict' = "none"
  /\ IF trace_it THEN trace' = {} /\ g_trace_enabled' = TRUE
                 ELSE UNCHANGED <<trace, g_trace_enabled>>
  /\ ASSERT_STATUS' = None
  /\ fuzzer' = "pointer"
  /\ UNCHANGED <<CURRENT_INPUT_PTR, PUBLISHED_INPUT_EPOCH, COMPLETED_INPUT_EPOCH,
                 BACKEND_READY_FOR_INPUT, seeds, timed_out, crashed, CVG, memory,
                 message, emulated, hits>>

Goto(place) ==
  /\ fuzzer' = place
  /\ UNCHANGED <<shared, NEXT_INPUT_EPOCH, epoch, seeds, tracing, timed_out,
                 crashed, verdict, message, emulated, effects, hits>>

\* Called again after a hard fault or a timeout, run_target panics.
RunTarget ==
  /\ fuzzer = "idle"
  /\ \/ crashed /\ Goto("panicked")
     \/ ~crashed /\ seeds > 0 /\ Goto("ready")
     \/ ~crashed /\ seeds = 0 /\ Begin(FALSE)

\* trace_initial_corpus_inputs: wait for the backend, once, then run each seed.
TraceSeed    == fuzzer = "ready" /\ BACKEND_READY_FOR_INPUT /\ Begin(TRUE)
ReadyTimeout == Timeouts /\ fuzzer = "ready" /\ ~BACKEND_READY_FOR_INPUT
                /\ Goto("exited")

\* An interesting input is run once more, traced.
TraceInteresting == fuzzer = "interesting" /\ Begin(TRUE)

PublishPointer ==
  /\ fuzzer = "pointer"
  /\ CURRENT_INPUT_PTR' = epoch
  /\ fuzzer' = "epoch"
  /\ UNCHANGED <<ASSERT_STATUS, PUBLISHED_INPUT_EPOCH, COMPLETED_INPUT_EPOCH,
                 BACKEND_READY_FOR_INPUT, NEXT_INPUT_EPOCH, epoch, seeds, tracing,
                 timed_out, crashed, verdict, message, emulated, effects, hits>>

PublishEpoch ==
  /\ fuzzer = "epoch"
  /\ PUBLISHED_INPUT_EPOCH' = epoch
  /\ fuzzer' = "wait"
  /\ UNCHANGED <<ASSERT_STATUS, CURRENT_INPUT_PTR, COMPLETED_INPUT_EPOCH,
                 BACKEND_READY_FOR_INPUT, NEXT_INPUT_EPOCH, epoch, seeds, tracing,
                 timed_out, crashed, verdict, message, emulated, effects, hits>>

IsCompleteEarly == COMPLETED_INPUT_EPOCH + 1 >= epoch   \* mutant: off by one
IsComplete      == COMPLETED_INPUT_EPOCH >= epoch

\* wait_until_complete returns, Ok or Err.
WaitReturns(err) ==
  /\ fuzzer = "wait"
  /\ timed_out' = err
  /\ fuzzer' = "clear"
  /\ UNCHANGED <<shared, NEXT_INPUT_EPOCH, epoch, seeds, tracing, crashed, verdict,
                 message, emulated, effects, hits>>

WaitDone    == IsComplete /\ WaitReturns(FALSE)
WaitTimeout == Timeouts /\ ~IsComplete /\ WaitReturns(TRUE)

\* clear_input, and the end of the trace.
ClearInput ==
  /\ fuzzer = "clear"
  /\ CURRENT_INPUT_PTR' = None
  /\ g_trace_enabled' = FALSE
  /\ fuzzer' = "outcome"
  /\ UNCHANGED <<ASSERT_STATUS, PUBLISHED_INPUT_EPOCH, COMPLETED_INPUT_EPOCH,
                 BACKEND_READY_FOR_INPUT, NEXT_INPUT_EPOCH, epoch, seeds, tracing,
                 timed_out, crashed, verdict, CVG, trace, memory, message, emulated,
                 hits>>

\* What ends the campaign: the executor is marked crashed.
CampaignOver == timed_out \/ ASSERT_STATUS = FATAL

SeedsLeft == IF seeds > 0 THEN seeds - 1 ELSE seeds

\* take_assert_status, and what the caller makes of it.  A seed that does not
\* end well ends the process; MaxMapFeedback decides what is interesting.
Outcome ==
  /\ fuzzer = "outcome"
  /\ verdict' = IF timed_out THEN "timeout"
                ELSE IF ASSERT_STATUS # None THEN "crash" ELSE "ok"
  /\ ASSERT_STATUS' = IF timed_out THEN ASSERT_STATUS ELSE None
  /\ IF seeds > 0
       THEN /\ fuzzer' = IF verdict' # "ok" THEN "exited"
                         ELSE IF seeds = 1 THEN "idle" ELSE "ready"
            /\ crashed' = crashed
       ELSE /\ crashed' = CampaignOver
            /\ fuzzer' \in IF verdict' = "ok" /\ ~tracing THEN {"idle", "interesting"}
                                                          ELSE {"idle"}
  /\ seeds' = SeedsLeft
  /\ UNCHANGED <<CURRENT_INPUT_PTR, PUBLISHED_INPUT_EPOCH, COMPLETED_INPUT_EPOCH,
                 BACKEND_READY_FOR_INPUT, NEXT_INPUT_EPOCH, epoch, tracing,
                 timed_out, message, emulated, effects, hits>>

-----------------------------------------------------------------------------
(* The CPU thread: the firmware and its hooks.                             *)

\* Blocks of the firmware run.  Every hook that hands them over to the fuzzer
\* waits for the tracer first, so their coverage is there at once.
RunBlocks ==
  /\ cpu = "run"
  /\ CVG' = CVG \cup {g_current_epoch}
  /\ memory' = IF fuzz_snap_initialized THEN memory \cup {g_current_epoch} ELSE memory
  /\ trace' = IF g_trace_enabled THEN trace \cup {g_current_epoch} ELSE trace
  /\ UNCHANGED <<g_trace_enabled, shared, thread, message, emulated, hits>>

\* mutant: the message stays READY
GetDataAgain == UNCHANGED message

\* fuzz_get_data: only a READY message is handed out, and only once.
GetData ==
  /\ g_active_msg_state' = IF g_active_msg_state = "READY" THEN "CONSUMED"
                                                           ELSE g_active_msg_state
  /\ UNCHANGED <<g_current_epoch, seen, g_active_msg_data>>

\* The firmware reads its input by itself, as the stateful fuzzers do.
ReadInput ==
  /\ cpu = "run"
  /\ GetData
  /\ UNCHANGED <<shared, thread, emulated, effects, hits>>

\* fuzz_snap_point.  The first visit takes the snapshot and is a
\* synchronisation point too; every visit ends in the snap callback.
SnapPoint ==
  /\ cpu = "run"
  /\ IF fuzz_snap_initialized
       THEN /\ cpu' = "inject"
            /\ UNCHANGED <<back, fuzz_snap_initialized, CVG, message>>
       ELSE /\ fuzz_snap_initialized' = TRUE
            /\ CVG' = {}
            /\ cpu' = "next" /\ back' = "inject"
            /\ g_active_msg_state' = "INACTIVE"
            /\ UNCHANGED <<g_current_epoch, seen, g_active_msg_data>>
  /\ UNCHANGED <<g_trace_enabled, trace, memory, shared, thread, hits>>

\* generic_callback
Inject ==
  /\ cpu = "inject"
  /\ GetData
  /\ cpu' = "run"
  /\ UNCHANGED <<back, fuzz_snap_initialized, shared, thread, effects, hits>>

\* fuzz_sync_point.  A message nobody has read yet stays active.
SyncPoint ==
  /\ cpu = "run" /\ fuzz_snap_initialized
  /\ IF g_active_msg_state = "READY"
       THEN UNCHANGED <<emulated, message>>
       ELSE /\ g_active_msg_state' = "INACTIVE"
            /\ cpu' = "next" /\ back' = "run"
            /\ UNCHANGED <<fuzz_snap_initialized, g_current_epoch, seen,
                           g_active_msg_data>>
  /\ UNCHANGED <<shared, thread, effects, hits>>

\* fuzz_backend_next, up to the wait.
Complete ==
  /\ cpu = "next"
  /\ COMPLETED_INPUT_EPOCH' = Larger(COMPLETED_INPUT_EPOCH, g_current_epoch)
  /\ BACKEND_READY_FOR_INPUT' = TRUE
  /\ cpu' = "wait"
  /\ UNCHANGED <<ASSERT_STATUS, CURRENT_INPUT_PTR, PUBLISHED_INPUT_EPOCH, thread,
                 message, back, fuzz_snap_initialized, effects, hits>>

\* fuzz_libafl_wait_next: an epoch is there; its pointer is read after it.
SeePublished ==
  /\ cpu = "wait" /\ PUBLISHED_INPUT_EPOCH > g_current_epoch
  /\ seen' = PUBLISHED_INPUT_EPOCH
  /\ cpu' = "load"
  /\ UNCHANGED <<shared, thread, g_current_epoch, g_active_msg_state,
                 g_active_msg_data, back, fuzz_snap_initialized, effects, hits>>

\* Without a pointer there is no input, and fuzz_sync_point dies.
LoadInput ==
  /\ cpu = "load"
  /\ IF CURRENT_INPUT_PTR = None
       THEN cpu' = "died" /\ UNCHANGED message
       ELSE /\ g_current_epoch' = seen
            /\ g_active_msg_data' = CURRENT_INPUT_PTR
            /\ cpu' = "restore"
            /\ UNCHANGED <<seen, g_active_msg_state>>
  /\ UNCHANGED <<shared, thread, back, fuzz_snap_initialized, effects, hits>>

KeepMemory      == memory' = memory     \* mutant: no restore
RestoreSnapshot == memory' = {}

KeepCoverage  == CVG' = CVG             \* mutant: coverage accumulates
ClearCoverage == CVG' = {}

\* Restore the snapshot, start with clean coverage, activate the message.
StartInput ==
  /\ cpu = "restore"
  /\ RestoreSnapshot /\ ClearCoverage
  /\ g_active_msg_state' = "READY"
  /\ cpu' = back
  /\ UNCHANGED <<shared, thread, g_current_epoch, seen, g_active_msg_data, back,
                 fuzz_snap_initialized, g_trace_enabled, trace, hits>>

\* fuzz_libafl_report_assert
ReportFatalOnly(status) ==              \* mutant: recoverable asserts only jump
  ASSERT_STATUS' = IF status = FATAL THEN FATAL ELSE ASSERT_STATUS
Report(status) == ASSERT_STATUS' = Larger(ASSERT_STATUS, status)

\* virt_assert: report, then resume elsewhere, or complete the input and spin.
Assert(status) ==
  /\ cpu = "run"
  /\ EarlyAsserts \/ g_current_epoch # None
  /\ hits' = hits \cup {g_current_epoch}
  /\ Report(status)
  /\ cpu' = IF status = FATAL THEN "fatal" ELSE "run"
  /\ UNCHANGED <<CURRENT_INPUT_PTR, PUBLISHED_INPUT_EPOCH, COMPLETED_INPUT_EPOCH,
                 BACKEND_READY_FOR_INPUT, thread, message, back,
                 fuzz_snap_initialized, effects>>

CompleteFatal ==
  /\ cpu = "fatal"
  /\ COMPLETED_INPUT_EPOCH' = Larger(COMPLETED_INPUT_EPOCH, g_current_epoch)
  /\ cpu' = "spin"
  /\ UNCHANGED <<ASSERT_STATUS, CURRENT_INPUT_PTR, PUBLISHED_INPUT_EPOCH,
                 BACKEND_READY_FOR_INPUT, thread, message, back,
                 fuzz_snap_initialized, effects, hits>>

-----------------------------------------------------------------------------
Init ==
  /\ ASSERT_STATUS = None /\ CURRENT_INPUT_PTR = None
  /\ PUBLISHED_INPUT_EPOCH = 0 /\ COMPLETED_INPUT_EPOCH = 0
  /\ BACKEND_READY_FOR_INPUT = FALSE
  /\ fuzzer = "idle" /\ NEXT_INPUT_EPOCH = 1 /\ epoch = 0 /\ seeds = Seeds
  /\ tracing = FALSE /\ timed_out = FALSE /\ crashed = FALSE /\ verdict = "none"
  /\ cpu = "run" /\ back = "run" /\ fuzz_snap_initialized = FALSE
  /\ g_current_epoch = 0 /\ seen = 0
  /\ g_active_msg_state = "INACTIVE" /\ g_active_msg_data = None
  /\ CVG = {} /\ g_trace_enabled = FALSE /\ trace = {} /\ memory = {}
  /\ hits = {}

Fuzzer == \/ RunTarget \/ TraceSeed \/ TraceInteresting
          \/ PublishPointer \/ PublishEpoch \/ WaitDone \/ ClearInput \/ Outcome

GiveUp == ReadyTimeout \/ WaitTimeout

Hooks == Inject \/ Complete \/ SeePublished \/ LoadInput \/ StartInput \/ CompleteFatal

Firmware == \/ RunBlocks \/ ReadInput \/ SnapPoint \/ SyncPoint
            \/ \E s \in {RECOVERABLE, FATAL} : Assert(s)

\* utils_die and exit(1) end the process, and with it both threads.
Alive == cpu # "died" /\ fuzzer # "exited"

Next == Alive /\ (Fuzzer \/ GiveUp \/ Hooks \/ Firmware)

Spec == Init /\ [][Next]_vars

\* Both threads run; the firmware keeps going round its loop from the snap
\* point to the synchronisation point.  Nothing is assumed of the timeouts.
FairSpec ==
  /\ Spec
  /\ WF_vars(Alive /\ Fuzzer) /\ WF_vars(Alive /\ Hooks)
  /\ SF_vars(Alive /\ SnapPoint) /\ SF_vars(Alive /\ SyncPoint)

-----------------------------------------------------------------------------
(* Properties.                                                             *)

\* The range of every variable.
TypeOK ==
  /\ ASSERT_STATUS \in {None, RECOVERABLE, FATAL}
  /\ CURRENT_INPUT_PTR \in Epochs \cup {None}
  /\ PUBLISHED_INPUT_EPOCH \in 0 .. MaxEpoch
  /\ COMPLETED_INPUT_EPOCH \in 0 .. MaxEpoch
  /\ BACKEND_READY_FOR_INPUT \in BOOLEAN
  /\ fuzzer \in {"idle", "ready", "interesting", "pointer", "epoch", "wait",
                 "clear", "outcome", "panicked", "exited"}
  /\ NEXT_INPUT_EPOCH \in 1 .. MaxEpoch + 1 /\ epoch \in 0 .. MaxEpoch
  /\ seeds \in 0 .. Seeds
  /\ tracing \in BOOLEAN /\ timed_out \in BOOLEAN /\ crashed \in BOOLEAN
  /\ verdict \in {"none", "ok", "crash", "timeout"}
  /\ cpu \in {"run", "inject", "next", "wait", "load", "restore", "fatal", "spin",
              "died"}
  /\ back \in {"run", "inject"} /\ fuzz_snap_initialized \in BOOLEAN
  /\ g_current_epoch \in 0 .. MaxEpoch /\ seen \in 0 .. MaxEpoch
  /\ g_active_msg_state \in {"INACTIVE", "READY", "CONSUMED"}
  /\ g_active_msg_data \in Epochs \cup {None}
  /\ CVG \subseteq 0 .. MaxEpoch /\ trace \subseteq 0 .. MaxEpoch
  /\ memory \subseteq 0 .. MaxEpoch /\ hits \subseteq 0 .. MaxEpoch
  /\ g_trace_enabled \in BOOLEAN

\* A verdict is about its own input: an input is called a crash exactly when
\* the firmware reached an assert while it ran that input, and the status of
\* one input never leaks into the next.
VerdictIsOfItsInput ==
  [][/\ verdict' = "crash" /\ verdict # "crash" => epoch \in hits
     /\ verdict' = "ok" /\ verdict # "ok" => epoch \notin hits]_vars

\* While the fuzzer judges an input that ended, the coverage is that of this
\* input alone, and the CPU is not running firmware that would change it.
JudgesStillCoverage ==
  fuzzer \in {"clear", "outcome", "idle", "interesting"} /\ epoch # 0 /\ ~timed_out /\ ~crashed
    => CVG \subseteq {epoch} /\ cpu \in {"next", "wait", "spin"}

\* The firmware reads input in the memory of the snapshot, or in one that only
\* this input has touched; and the bytes are those of the epoch it is charged to.
InputMeetsItsSnapshot ==
  g_active_msg_state # "INACTIVE" =>
    /\ g_active_msg_data = g_current_epoch
    /\ memory \subseteq {g_current_epoch}

\* The buffer that a read would copy from is still held by the fuzzer, unless
\* the fuzzer gave up on it.
BufferIsHeld ==
  cpu \in {"run", "inject"} /\ g_active_msg_state = "READY" /\ ~timed_out =>
    fuzzer = "wait" /\ g_active_msg_data = epoch

\* As long as no wait times out, every input that is published is judged.
InputIsJudged == []~timed_out => (fuzzer = "wait" ~> fuzzer = "outcome")

=============================================================================
