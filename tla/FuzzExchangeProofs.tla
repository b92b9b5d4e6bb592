------------------------- MODULE FuzzExchangeProofs -------------------------
(***************************************************************************)
(* The fuzzer thread and the CPU never lose step, for every number of       *)
(* epochs and seeds, with and without timeouts.                             *)
(***************************************************************************)
EXTENDS FuzzExchange, TLAPS

-----------------------------------------------------------------------------
(* The invariant.                                                          *)

\* The four counters of the two threads stay within one epoch of each other.
EpochsClose ==
  /\ NEXT_INPUT_EPOCH = epoch + 1
  /\ epoch <= COMPLETED_INPUT_EPOCH + 1
  /\ COMPLETED_INPUT_EPOCH <= g_current_epoch
  /\ g_current_epoch <= PUBLISHED_INPUT_EPOCH
  /\ PUBLISHED_INPUT_EPOCH <= epoch

\* What the place of the fuzzer thread says of the atomics it writes.
FuzzerPlace ==
  /\ fuzzer \in {"pointer", "epoch"} => PUBLISHED_INPUT_EPOCH = epoch - 1
  /\ fuzzer \notin {"pointer", "epoch"} => PUBLISHED_INPUT_EPOCH = epoch
  /\ fuzzer \in {"epoch", "wait", "clear"} => CURRENT_INPUT_PTR = epoch
  /\ fuzzer \notin {"epoch", "wait", "clear"} => CURRENT_INPUT_PTR = None
  /\ fuzzer \in {"pointer", "epoch", "wait", "clear", "outcome"} => epoch > 0
  /\ fuzzer \in {"pointer", "epoch", "wait"} => timed_out = FALSE
  /\ fuzzer \notin {"pointer", "epoch", "wait"} /\ timed_out = FALSE =>
       COMPLETED_INPUT_EPOCH = epoch

\* After a timeout, and after a crash of the firmware, no input is run again.
CampaignEnds ==
  /\ timed_out = TRUE => \/ fuzzer \in {"clear", "outcome", "panicked", "exited"}
                         \/ fuzzer = "idle" /\ crashed = TRUE
  /\ crashed = TRUE => fuzzer \in {"idle", "panicked"}

\* What the place of the CPU says of the epoch it works on.
CpuPlace ==
  /\ cpu \in {"run", "inject", "restore", "fatal", "next"} =>
       COMPLETED_INPUT_EPOCH < g_current_epoch \/ g_current_epoch = 0
  /\ cpu \in {"wait", "load"} => COMPLETED_INPUT_EPOCH = g_current_epoch
  /\ cpu = "load" => seen = PUBLISHED_INPUT_EPOCH /\ seen > g_current_epoch
                     /\ (CURRENT_INPUT_PTR = seen \/ timed_out = TRUE)
  /\ cpu = "restore" => g_current_epoch > 0 /\ g_active_msg_data = g_current_epoch
  /\ cpu = "died" => timed_out = TRUE
  /\ g_current_epoch > 0 => fuzz_snap_initialized = TRUE
  /\ cpu \in {"next", "wait", "load", "restore"} =>
       fuzz_snap_initialized = TRUE /\ g_active_msg_state = "INACTIVE"

\* Coverage and memory are those of the input at hand.
OwnEffects ==
  /\ g_active_msg_state # "INACTIVE" =>
       g_current_epoch > 0 /\ g_active_msg_data = g_current_epoch
       /\ memory \subseteq {g_current_epoch}
  /\ cpu # "restore" /\ g_current_epoch > 0 => CVG \subseteq {g_current_epoch}

ExchangeInv ==
  TypeOK /\ EpochsClose /\ FuzzerPlace /\ CampaignEnds /\ CpuPlace /\ OwnEffects

\* The status tells whether the input at hand reached an assert.
StatusInv ==
  /\ \A h \in hits : h <= g_current_epoch
  /\ fuzzer \in {"pointer", "epoch", "wait", "clear", "outcome"} /\ timed_out = FALSE =>
       (ASSERT_STATUS # None <=> epoch \in hits)

-----------------------------------------------------------------------------
(* Its steps.                                                              *)

\* Every action keeps the variables in their range.
LEMMA ExchangeTypes ==
  ASSUME TypeOK, [Next]_vars
  PROVE  TypeOK'
<1> USE EpochAssumption, BooleanAssumption DEF TypeOK, vars, shared, thread, message, emulated, effects,
             None, RECOVERABLE, FATAL, Epochs
<1>1. CASE RunTarget
  <2>1. CASE crashed /\ Goto("panicked")
    BY <1>1, <2>1 DEF RunTarget, Goto
  <2>2. CASE ~crashed /\ seeds > 0 /\ Goto("ready")
    BY <1>1, <2>2 DEF RunTarget, Goto
  <2>3. CASE ~crashed /\ seeds = 0 /\ Begin(FALSE)
    <3>1. tracing' \in BOOLEAN /\ UNCHANGED <<trace, g_trace_enabled>>
      BY <2>3 DEF Begin
    <3>2. fuzzer' = "pointer" /\ verdict' = "none" /\ ASSERT_STATUS' = None
      BY <2>3 DEF Begin
    <3>3. epoch' \in 0 .. MaxEpoch /\ NEXT_INPUT_EPOCH' \in 1 .. MaxEpoch + 1
      BY <2>3 DEF Begin
    <3>4. UNCHANGED <<CURRENT_INPUT_PTR, PUBLISHED_INPUT_EPOCH, COMPLETED_INPUT_EPOCH,
                      BACKEND_READY_FOR_INPUT, seeds, timed_out, crashed, CVG, memory,
                      message, emulated, hits>>
      BY <2>3 DEF Begin
    <3> QED
      BY <3>1, <3>2, <3>3, <3>4
  <2> QED
    BY <1>1, <2>1, <2>2, <2>3 DEF RunTarget
<1>2. CASE TraceSeed
  BY <1>2 DEF TraceSeed, Begin
<1>3. CASE TraceInteresting
  BY <1>3 DEF TraceInteresting, Begin
<1>4. CASE PublishPointer
  BY <1>4 DEF PublishPointer
<1>5. CASE PublishEpoch
  BY <1>5 DEF PublishEpoch
<1>6. CASE WaitDone
  <2>1. timed_out' \in BOOLEAN
    BY <1>6 DEF WaitDone, WaitReturns
  <2> QED
    BY <1>6, <2>1 DEF WaitDone, WaitReturns
<1>7. CASE ClearInput
  <2>1. g_trace_enabled' \in BOOLEAN
    BY <1>7 DEF ClearInput
  <2> QED
    BY <1>7, <2>1 DEF ClearInput
<1>8. CASE Outcome
  <2>1. crashed' \in BOOLEAN
    BY <1>8 DEF Outcome, CampaignOver
  <2>2. verdict' \in {"ok", "crash", "timeout"} /\ ASSERT_STATUS' \in {None, RECOVERABLE, FATAL}
    BY <1>8 DEF Outcome
  <2>3. fuzzer' \in {"exited", "idle", "ready", "interesting"} /\ seeds' \in 0 .. Seeds
    BY <1>8 DEF Outcome, SeedsLeft
  <2> QED
    BY <1>8, <2>1, <2>2, <2>3 DEF Outcome
<1>9. CASE ReadyTimeout
  BY <1>9 DEF ReadyTimeout, Goto
<1>10. CASE WaitTimeout
  BY <1>10 DEF WaitTimeout, IsComplete, WaitReturns
<1>11. CASE Inject
  BY <1>11 DEF Inject, GetData
<1>12. CASE Complete
  BY <1>12 DEF Complete, Larger
<1>13. CASE SeePublished
  BY <1>13 DEF SeePublished
<1>14. CASE LoadInput
  BY <1>14 DEF LoadInput
<1>15. CASE StartInput
  BY <1>15 DEF StartInput, RestoreSnapshot, ClearCoverage
<1>16. CASE CompleteFatal
  BY <1>16 DEF CompleteFatal, Larger
<1>17. CASE RunBlocks
  BY <1>17 DEF RunBlocks
<1>18. CASE ReadInput
  BY <1>18 DEF ReadInput, GetData
<1>19. CASE SnapPoint
  <2>1. CASE fuzz_snap_initialized
    <3>1. cpu' = "inject" /\ UNCHANGED <<back, fuzz_snap_initialized, CVG, message>>
      BY <1>19, <2>1 DEF SnapPoint
    <3> QED
      BY <1>19, <3>1 DEF SnapPoint
  <2>2. CASE ~fuzz_snap_initialized
    BY <1>19, <2>2 DEF SnapPoint
  <2> QED
    BY <2>1, <2>2
<1>20. CASE SyncPoint
  <2>1. CASE g_active_msg_state = "READY"
    BY <1>20, <2>1 DEF SyncPoint
  <2>2. CASE g_active_msg_state # "READY"
    BY <1>20, <2>2 DEF SyncPoint
  <2> QED
    BY <2>1, <2>2
<1>21. ASSUME NEW s \in {RECOVERABLE, FATAL}, Assert(s)
      PROVE  TypeOK'
  BY <1>21 DEF Assert, Report, Larger
<1>22. CASE UNCHANGED vars
  BY <1>22
<1> QED
  BY <1>1, <1>2, <1>3, <1>4, <1>5, <1>6, <1>7, <1>8, <1>9, <1>10, <1>11, <1>12, <1>13, <1>14, <1>15, <1>16, <1>17, <1>18, <1>19, <1>20, <1>21, <1>22 DEF Next, Fuzzer, GiveUp, Hooks, Firmware

\* Every action keeps the threads within an epoch.
LEMMA ExchangeStep ==
  ASSUME ExchangeInv, TypeOK', [Next]_vars
  PROVE  ExchangeInv'
<1> USE EpochAssumption, BooleanAssumption DEF ExchangeInv, EpochsClose, FuzzerPlace,
             CampaignEnds, CpuPlace, OwnEffects, TypeOK, vars, shared, thread, message, emulated, effects,
             None, RECOVERABLE, FATAL, Epochs
<1>1. CASE RunTarget
  <2>1. CASE crashed /\ Goto("panicked")
    BY <1>1, <2>1 DEF RunTarget, Goto
  <2>2. CASE ~crashed /\ seeds > 0 /\ Goto("ready")
    BY <1>1, <2>2 DEF RunTarget, Goto
  <2>3. CASE ~crashed /\ seeds = 0 /\ Begin(FALSE)
    BY <1>1, <2>3 DEF RunTarget, Begin
  <2> QED
    BY <1>1, <2>1, <2>2, <2>3 DEF RunTarget
<1>2. CASE TraceSeed
  BY <1>2 DEF TraceSeed, Begin
<1>3. CASE TraceInteresting
  BY <1>3 DEF TraceInteresting, Begin
<1>4. CASE PublishPointer
  BY <1>4 DEF PublishPointer
<1>5. CASE PublishEpoch
  BY <1>5 DEF PublishEpoch
<1>6. CASE WaitDone
  BY <1>6 DEF WaitDone, IsComplete, WaitReturns
<1>7. CASE ClearInput
  BY <1>7 DEF ClearInput
<1>8. CASE Outcome
  BY <1>8 DEF Outcome, SeedsLeft, CampaignOver
<1>9. CASE ReadyTimeout
  BY <1>9 DEF ReadyTimeout, Goto
<1>10. CASE WaitTimeout
  BY <1>10 DEF WaitTimeout, IsComplete, WaitReturns
<1>11. CASE Inject
  BY <1>11 DEF Inject, GetData
<1>12. CASE Complete
  BY <1>12 DEF Complete, Larger
<1>13. CASE SeePublished
  BY <1>13 DEF SeePublished
<1>14. CASE LoadInput
  <2>1. CASE CURRENT_INPUT_PTR = None
    BY <1>14, <2>1 DEF LoadInput
  <2>2. CASE CURRENT_INPUT_PTR # None
    <3>1. cpu = "load" /\ fuzzer \in {"epoch", "wait", "clear"}
      BY <1>14, <2>2 DEF LoadInput
    <3>2. CURRENT_INPUT_PTR = seen /\ seen = epoch /\ seen = PUBLISHED_INPUT_EPOCH
          /\ seen > 0
      BY <3>1
    <3>3. g_current_epoch' = seen /\ g_active_msg_data' = seen /\ cpu' = "restore"
          /\ UNCHANGED <<seen, g_active_msg_state, shared, thread, back,
                         fuzz_snap_initialized, effects, hits>>
      BY <1>14, <2>2, <3>2 DEF LoadInput
    <3> QED
      BY <3>1, <3>2, <3>3
  <2> QED
    BY <2>1, <2>2
<1>15. CASE StartInput
  BY <1>15 DEF StartInput, RestoreSnapshot, ClearCoverage
<1>16. CASE CompleteFatal
  BY <1>16 DEF CompleteFatal, Larger
<1>17. CASE RunBlocks
  BY <1>17 DEF RunBlocks
<1>18. CASE ReadInput
  BY <1>18 DEF ReadInput, GetData
<1>19. CASE SnapPoint
  BY <1>19 DEF SnapPoint
<1>20. CASE SyncPoint
  <2>1. CASE g_active_msg_state = "READY"
    BY <1>20, <2>1 DEF SyncPoint
  <2>2. CASE g_active_msg_state # "READY"
    BY <1>20, <2>2 DEF SyncPoint
  <2> QED
    BY <2>1, <2>2
<1>21. ASSUME NEW s \in {RECOVERABLE, FATAL}, Assert(s)
      PROVE  ExchangeInv'
  BY <1>21 DEF Assert, Report, Larger
<1>22. CASE UNCHANGED vars
  BY <1>22
<1> QED
  BY <1>1, <1>2, <1>3, <1>4, <1>5, <1>6, <1>7, <1>8, <1>9, <1>10, <1>11, <1>12, <1>13, <1>14, <1>15, <1>16, <1>17, <1>18, <1>19, <1>20, <1>21, <1>22 DEF Next, Fuzzer, GiveUp, Hooks, Firmware

\* An assert is charged to the epoch the fuzzer waits for, as long as none is
\* reached before the first input.
LEMMA StatusStep ==
  ASSUME EarlyAsserts = FALSE, ExchangeInv, ExchangeInv', StatusInv, [Next]_vars
  PROVE  StatusInv'
<1> USE EpochAssumption, BooleanAssumption DEF StatusInv, ExchangeInv, EpochsClose, FuzzerPlace,
             CampaignEnds, CpuPlace, TypeOK, vars, shared, thread, message, emulated, effects,
             None, RECOVERABLE, FATAL, Epochs
<1>1. CASE RunTarget
  <2>1. CASE crashed /\ Goto("panicked")
    BY <1>1, <2>1 DEF Goto
  <2>2. CASE ~crashed /\ seeds > 0 /\ Goto("ready")
    BY <1>1, <2>2 DEF Goto
  <2>3. CASE ~crashed /\ seeds = 0 /\ Begin(FALSE)
    BY <1>1, <2>3 DEF Begin
  <2> QED
    BY <1>1, <2>1, <2>2, <2>3 DEF RunTarget
<1>2. CASE TraceSeed
  BY <1>2 DEF TraceSeed, Begin
<1>3. CASE TraceInteresting
  BY <1>3 DEF TraceInteresting, Begin
<1>4. CASE PublishPointer
  BY <1>4 DEF PublishPointer
<1>5. CASE PublishEpoch
  BY <1>5 DEF PublishEpoch
<1>6. CASE WaitDone
  BY <1>6 DEF WaitDone, IsComplete, WaitReturns
<1>7. CASE ClearInput
  BY <1>7 DEF ClearInput
<1>8. CASE Outcome
  BY <1>8 DEF Outcome, SeedsLeft, CampaignOver
<1>9. CASE ReadyTimeout
  BY <1>9 DEF ReadyTimeout, Goto
<1>10. CASE WaitTimeout
  BY <1>10 DEF WaitTimeout, IsComplete, WaitReturns
<1>11. CASE Inject
  BY <1>11 DEF Inject, GetData
<1>12. CASE Complete
  BY <1>12 DEF Complete, Larger
<1>13. CASE SeePublished
  BY <1>13 DEF SeePublished
<1>14. CASE LoadInput
  BY <1>14 DEF LoadInput
<1>15. CASE StartInput
  BY <1>15 DEF StartInput, RestoreSnapshot, ClearCoverage
<1>16. CASE CompleteFatal
  BY <1>16 DEF CompleteFatal, Larger
<1>17. CASE RunBlocks
  BY <1>17 DEF RunBlocks
<1>18. CASE ReadInput
  BY <1>18 DEF ReadInput, GetData
<1>19. CASE SnapPoint
  BY <1>19 DEF SnapPoint
<1>20. CASE SyncPoint
  BY <1>20 DEF SyncPoint
<1>21. ASSUME NEW s \in {RECOVERABLE, FATAL}, Assert(s)
      PROVE  StatusInv'
  BY <1>21 DEF Assert, Report, Larger
<1>22. CASE UNCHANGED vars
  BY <1>22
<1> QED
  BY <1>1, <1>2, <1>3, <1>4, <1>5, <1>6, <1>7, <1>8, <1>9, <1>10, <1>11, <1>12, <1>13, <1>14, <1>15, <1>16, <1>17, <1>18, <1>19, <1>20, <1>21, <1>22 DEF Next, Fuzzer, GiveUp, Hooks, Firmware

\* Only the end of a run gives a verdict.
LEMMA VerdictStep ==
  ASSUME ExchangeInv, StatusInv, [Next]_vars
  PROVE  /\ verdict' = "crash" /\ verdict # "crash" => epoch \in hits
         /\ verdict' = "ok" /\ verdict # "ok" => epoch \notin hits
<1>1. CASE Outcome
  <2>1. fuzzer = "outcome" /\ epoch > 0
    BY <1>1 DEF Outcome, ExchangeInv, FuzzerPlace
  <2>2. timed_out \in BOOLEAN
    BY DEF ExchangeInv, TypeOK
  <2>3. CASE timed_out
    <3>1. verdict' = "timeout"
      BY <1>1, <2>3 DEF Outcome
    <3> QED
      BY <3>1
  <2>4. CASE ~timed_out
    <3>1. verdict' = IF ASSERT_STATUS # None THEN "crash" ELSE "ok"
      BY <1>1, <2>4 DEF Outcome
    <3>2. timed_out = FALSE
      BY <2>2, <2>4
    <3> QED
      BY <2>1, <3>1, <3>2 DEF StatusInv
  <2> QED
    BY <2>2, <2>3, <2>4
<1>2. CASE RunTarget \/ TraceSeed \/ TraceInteresting \/ ReadyTimeout
  BY <1>2 DEF RunTarget, TraceSeed, TraceInteresting, ReadyTimeout, Begin, Goto
<1>3. CASE PublishPointer \/ PublishEpoch \/ WaitDone \/ WaitTimeout \/ ClearInput
  BY <1>3 DEF PublishPointer, PublishEpoch, WaitDone, WaitTimeout, WaitReturns,
              ClearInput
<1>4. CASE Hooks \/ Firmware \/ UNCHANGED vars
  <2>1. UNCHANGED thread
    BY <1>4 DEF Hooks, Firmware, vars, Inject, Complete, SeePublished, LoadInput,
                StartInput, CompleteFatal, RunBlocks, ReadInput, SnapPoint,
                SyncPoint, Assert
  <2> QED
    BY <2>1 DEF thread
<1> QED
  BY <1>1, <1>2, <1>3, <1>4 DEF Next, Fuzzer, GiveUp

-----------------------------------------------------------------------------
(* The theorems.                                                           *)

\* At the start nothing has been published.
LEMMA ExchangeInitially == Init => ExchangeInv /\ StatusInv
<1> SUFFICES ASSUME Init PROVE ExchangeInv /\ StatusInv
  OBVIOUS
<1>1. /\ BACKEND_READY_FOR_INPUT \in BOOLEAN /\ tracing \in BOOLEAN
      /\ timed_out \in BOOLEAN /\ crashed \in BOOLEAN
      /\ fuzz_snap_initialized \in BOOLEAN /\ g_trace_enabled \in BOOLEAN
  BY DEF Init
<1>2. TypeOK
  BY <1>1, EpochAssumption DEF Init, TypeOK, None
<1>3. EpochsClose /\ FuzzerPlace /\ StatusInv
  BY DEF Init, EpochsClose, FuzzerPlace, StatusInv
<1>4. CampaignEnds /\ CpuPlace /\ OwnEffects
  BY DEF Init, CampaignEnds, CpuPlace, OwnEffects
<1> QED
  BY <1>2, <1>3, <1>4 DEF ExchangeInv

\* The two threads stay within one epoch of each other, whatever the firmware
\* does and whichever of the waits runs out.
THEOREM ExchangeAlways == Spec => []ExchangeInv
<1>1. ExchangeInv /\ [Next]_vars => ExchangeInv'
  BY ExchangeTypes, ExchangeStep DEF ExchangeInv
<1> QED
  BY <1>1, ExchangeInitially, PTL DEF Spec

\* Every variable keeps its range (the atomics of lib.rs and of fuzz_libafl.c).
THEOREM ExchangeTypeOK == Spec => []TypeOK
<1>1. ExchangeInv => TypeOK
  BY DEF ExchangeInv
<1> QED
  BY <1>1, ExchangeAlways, PTL

\* run_target judges an input over a coverage map that holds this input alone
\* and that nobody writes to any more.
THEOREM CoverageIsStill == Spec => []JudgesStillCoverage
<1>1. ExchangeInv => JudgesStillCoverage
  BY DEF ExchangeInv, JudgesStillCoverage, TypeOK, EpochsClose, FuzzerPlace,
         CampaignEnds, CpuPlace, OwnEffects
<1> QED
  BY <1>1, ExchangeAlways, PTL

\* fuzz_get_data hands out the bytes of the epoch it is charged to, over the
\* memory of the snapshot.
THEOREM InputMeetsSnapshot == Spec => []InputMeetsItsSnapshot
<1>1. ExchangeInv => InputMeetsItsSnapshot
  BY DEF ExchangeInv, InputMeetsItsSnapshot, OwnEffects
<1> QED
  BY <1>1, ExchangeAlways, PTL

\* Until a wait runs out, the buffer behind CURRENT_INPUT_PTR outlives every
\* read of the firmware.
THEOREM BufferStaysHeld == Spec => []BufferIsHeld
<1>1. ExchangeInv => BufferIsHeld
  BY DEF ExchangeInv, BufferIsHeld, TypeOK, EpochsClose, FuzzerPlace,
         CampaignEnds, CpuPlace, OwnEffects
<1> QED
  BY <1>1, ExchangeAlways, PTL

\* A verdict is about the input it is given for, if the firmware reaches no
\* assert before its first input: that one would be charged to the first.
THEOREM VerdictIsOwn ==
  ASSUME EarlyAsserts = FALSE
  PROVE  Spec => VerdictIsOfItsInput
<1>1. ExchangeInv /\ ExchangeInv' /\ StatusInv /\ [Next]_vars => StatusInv'
  BY StatusStep
<1>2. ExchangeInv /\ StatusInv /\ [Next]_vars =>
        [/\ verdict' = "crash" /\ verdict # "crash" => epoch \in hits
         /\ verdict' = "ok" /\ verdict # "ok" => epoch \notin hits]_vars
  BY VerdictStep
<1> QED
  BY <1>1, <1>2, ExchangeInitially, ExchangeAlways, PTL DEF Spec, VerdictIsOfItsInput
=============================================================================
