------------------------------- MODULE AdcDma -------------------------------
(***************************************************************************)
(* The ADC model of the STM32H753 example (adc_model.c) with the DMA       *)
(* stream it feeds.  Two ADCs share one timer for calibrations and one for *)
(* conversions; every register access and every timer callback first       *)
(* brings both ADCs up to the present (adc_sync_state), and a conversion   *)
(* of ADC1 that ends requests the DMA stream.  Times are the time left, so *)
(* 0 is due.  A due timer may fire late, after a register access that did  *)
(* its work.                                                               *)
(***************************************************************************)
EXTENDS DmaStream, FiniteSetsExt

CONSTANTS Delay,        \* of a calibration or a conversion (1000 ns)
          Configs,      \* values firmware writes to each ADC's CFGR
          Programs,     \* how firmware programs the stream
          PowersDownAnyTime  \* firmware does not stop an ADC it powers down

ASSUME AdcAssumption ==
    /\ Delay \in Nat \ {0}
    /\ Configs \in [{1, 2} -> SUBSET [cont : BOOLEAN, dma : BOOLEAN]]
    /\ Programs \subseteq [mapped : BOOLEAN, circ : BOOLEAN]
    /\ PowersDownAnyTime \in BOOLEAN

VARIABLES adc,        \* adc1 and adc2
          calTimer,   \* time left to the alarm of cal_timer, or Off
          convTimer,  \* the same of conv_timer
          latch,      \* adc2_cr_deeppwd_latch_pending
          stream,     \* the DMA stream
          isr,        \* where firmware's DMA interrupt handler is
          seen        \* the flags it read

vars == <<adc, calTimer, convTimer, latch, stream, isr, seen>>

Off   == -1
Units == {1, 2}
Left  == 0..Delay \cup {Off}

\* The state of an ADC, and the bits of CR that show it.
Unit ==
    [enabled : BOOLEAN,
     cal : Left,       \* calibrating, with cal_done_at_ns
     conv : Left,      \* conversion_active, with conv_done_at_ns
     aden : BOOLEAN, adstart : BOOLEAN, adcal : BOOLEAN, deeppwd : BOOLEAN,
     cfgr : [cont : BOOLEAN, dma : BOOLEAN]]

InitUnit(cfgr) ==
    [enabled |-> FALSE, cal |-> Off, conv |-> Off, aden |-> FALSE,
     adstart |-> FALSE, adcal |-> FALSE, deeppwd |-> FALSE, cfgr |-> cfgr]

Init ==
    /\ adc = [u \in Units |-> InitUnit([cont |-> u = 1, dma |-> u = 1])]
    /\ calTimer = Off /\ convTimer = Off /\ latch = TRUE
    /\ stream = InitStream /\ isr = "no" /\ seen = {}

-----------------------------------------------------------------------------
(* adc_sync_state                                                          *)

\* Mutant: CR goes on showing the calibration.
CalibratedUnseen(a) == IF a.cal = 0 THEN [a EXCEPT !.cal = Off] ELSE a

Calibrated(a) ==
    IF a.cal = 0 THEN [a EXCEPT !.cal = Off, !.adcal = FALSE] ELSE a

\* Whether a continuous ADC starts its next conversion.
Continues(a) == a.cfgr.cont /\ a.enabled /\ a.cal = Off /\ ~a.deeppwd

Converted(a) ==
    IF a.conv # 0 THEN a
    ELSE IF Continues(a) THEN [a EXCEPT !.conv = Delay, !.adstart = TRUE]
    ELSE [a EXCEPT !.conv = Off, !.adstart = FALSE]

SyncUnit(a) == Converted(Calibrated(a))
Synced == [u \in Units |-> SyncUnit(adc[u])]

\* adc_complete_conversion, then api_dma_request for ADC1.
SyncedStream ==
    IF adc[1].conv = 0 /\ adc[1].cfgr.dma THEN Request(stream) ELSE stream

\* Mutant: the timer is set for the later of the two.
RearmedLate(timer, lefts) == IF lefts = {} THEN timer ELSE Max(lefts)

\* The alarm for the earlier of the ADCs at work; an alarm that is no longer
\* needed is left to fire.
Rearmed(timer, lefts) == IF lefts = {} THEN timer ELSE Min(lefts)

Cals(units)  == {units[u].cal : u \in Units} \ {Off}
Convs(units) == {units[u].conv : u \in Units} \ {Off}

SyncTimers(cal, conv) ==
    /\ calTimer' = Rearmed(cal, Cals(Synced))
    /\ convTimer' = Rearmed(conv, Convs(Synced))

-----------------------------------------------------------------------------
(* adc_write of CR: the new state of an ADC for the bits written.          *)

PoweredDown(a, w) ==
    IF "DEEPPWD" \in w
    THEN [a EXCEPT !.enabled = FALSE, !.cal = Off, !.conv = Off] ELSE a

Disabled(a, w) ==
    IF "ADDIS" \in w
    THEN [a EXCEPT !.enabled = FALSE, !.conv = Off, !.aden = FALSE,
                   !.adstart = FALSE]
    ELSE a

Stopped(a, w) ==
    IF "ADSTP" \in w THEN [a EXCEPT !.conv = Off, !.adstart = FALSE] ELSE a

CalStarts(a, w) == "ADCAL" \in w /\ ~a.deeppwd
Calibrating(a, w) ==
    IF CalStarts(a, w) THEN [a EXCEPT !.cal = Delay, !.adcal = TRUE] ELSE a

Enabled(a, w) ==
    IF "ADEN" \in w THEN [a EXCEPT !.enabled = TRUE, !.aden = TRUE] ELSE a

ConvStarts(a, w) ==
    "ADSTART" \in w /\ a.enabled /\ a.cal = Off /\ ~a.deeppwd
Converting(a, w) ==
    IF ConvStarts(a, w) THEN [a EXCEPT !.conv = Delay, !.adstart = TRUE] ELSE a

\* The bits that show the state keep their value unless the state sets them.
Shown(a, w) ==
    [a EXCEPT !.deeppwd = "DEEPPWD" \in w,
              !.aden    = @ \/ a.enabled,
              !.adstart = @ \/ a.conv # Off,
              !.adcal   = @ \/ a.cal # Off]

BeforeCal(a, w)  == Stopped(Disabled(PoweredDown(a, w), w), w)
BeforeConv(a, w) == Enabled(Calibrating(BeforeCal(a, w), w), w)
CrWritten(a, w)  == Shown(Converting(BeforeConv(a, w), w), w)

-----------------------------------------------------------------------------
(* Firmware and the ADC.  A write carries the power bit as firmware wants  *)
(* it and at most one command, as the vendor's driver writes CR.           *)

\* The commands the driver gives in the state CR shows.
Allowed(a, w) ==
    /\ "ADCAL" \in w => ~a.aden /\ ~a.adcal
    /\ "ADEN" \in w => ~a.aden /\ ~a.adcal
    /\ "ADSTART" \in w => a.aden /\ ~a.adstart
    /\ "ADSTP" \in w => a.adstart
    /\ "ADDIS" \in w => a.aden /\ ~a.adstart
    /\ "DEEPPWD" \in w =>
          /\ w = {"DEEPPWD"}
          /\ PowersDownAnyTime \/ (~a.aden /\ ~a.adcal)

CrWrites == {{}} \cup
    {{c} : c \in {"ADCAL", "ADEN", "ADSTART", "ADSTP", "ADDIS", "DEEPPWD"}}

WriteCr(u) ==
    \E w \in CrWrites :
        LET a     == Synced[u]
            units == [Synced EXCEPT ![u] = CrWritten(a, w)]
            cal   == Rearmed(calTimer, Cals(Synced))
            conv  == Rearmed(convTimer, Convs(Synced))
        IN  /\ Allowed(adc[u], w)
            /\ adc' = units
            /\ calTimer' = IF CalStarts(BeforeCal(a, w), w)
                           THEN Rearmed(cal, Cals(units)) ELSE cal
            /\ convTimer' = IF ConvStarts(BeforeConv(a, w), w)
                            THEN Rearmed(conv, Convs(units)) ELSE conv
            /\ stream' = SyncedStream
            /\ UNCHANGED <<latch, isr, seen>>

WriteCfgr(u) ==
    \E cfgr \in Configs[u] :
        /\ adc' = [Synced EXCEPT ![u].cfgr = cfgr]
        /\ SyncTimers(calTimer, convTimer)
        /\ stream' = SyncedStream
        /\ UNCHANGED <<latch, isr, seen>>

ShowsNothing(a) == ~a.aden /\ ~a.adstart /\ ~a.adcal /\ ~a.deeppwd

\* A read of CR; ADC2's first read of an untouched CR powers it down.
ReadCr(u) ==
    LET latches == u = 2 /\ latch /\ ShowsNothing(Synced[2])
    IN  /\ adc' = [Synced EXCEPT ![u].deeppwd = @ \/ latches]
        /\ latch' = (latch /\ ~latches)
        /\ SyncTimers(calTimer, convTimer)
        /\ stream' = SyncedStream
        /\ UNCHANGED <<isr, seen>>

-----------------------------------------------------------------------------
(* Time and the timers' callbacks.                                         *)

Sooner(left) == IF left > 0 THEN left - 1 ELSE left

Tick ==
    /\ adc' = [u \in Units |-> [adc[u] EXCEPT !.cal = Sooner(@),
                                              !.conv = Sooner(@)]]
    /\ calTimer' = Sooner(calTimer) /\ convTimer' = Sooner(convTimer)
    /\ UNCHANGED <<latch, stream, isr, seen>>

CalibrationDone ==
    /\ calTimer = 0
    /\ adc' = Synced /\ stream' = SyncedStream
    /\ SyncTimers(Off, convTimer)
    /\ UNCHANGED <<latch, isr, seen>>

ConversionDone ==
    /\ convTimer = 0
    /\ adc' = Synced /\ stream' = SyncedStream
    /\ SyncTimers(calTimer, Off)
    /\ UNCHANGED <<latch, isr, seen>>

-----------------------------------------------------------------------------
(* Firmware and the stream.                                                *)

adcVars == <<adc, calTimer, convTimer, latch>>

\* Firmware writes the stream's registers and clears its flags while it is
\* disabled, CR last.
StartStream(p) ==
    /\ ~stream.en
    /\ LET cleared == WriteLifcr(WriteNdtr(stream), Flags)
       IN  stream' = WriteStreamCr(WriteM0ar(cleared, p.mapped), TRUE, p.circ)
    /\ UNCHANGED <<adcVars, isr, seen>>

SuspendStream ==
    /\ stream.en
    /\ stream' = WriteStreamCr(stream, FALSE, stream.circ)
    /\ UNCHANGED <<adcVars, isr, seen>>

ResumeStream ==
    /\ ~stream.en /\ stream.ndtr > 0
    /\ stream' = WriteStreamCr(stream, TRUE, stream.circ)
    /\ UNCHANGED <<adcVars, isr, seen>>

\* The interrupt handler: it is entered, reads the flags, and clears what it
\* read.
EnterIsr ==
    /\ stream.irq /\ isr = "no"
    /\ isr' = "entered" /\ stream' = [stream EXCEPT !.irq = FALSE]
    /\ UNCHANGED <<adcVars, seen>>

ReadLisr ==
    /\ isr = "entered"
    /\ isr' = "read" /\ seen' = stream.lisr
    /\ UNCHANGED <<adcVars, stream>>

ClearFlags ==
    /\ isr = "read"
    /\ isr' = "no" /\ seen' = {}
    /\ stream' = WriteLifcr(stream, seen)
    /\ UNCHANGED adcVars

Next ==
    \/ \E u \in Units : WriteCr(u) \/ WriteCfgr(u) \/ ReadCr(u)
    \/ Tick \/ CalibrationDone \/ ConversionDone
    \/ \E p \in Programs : StartStream(p)
    \/ SuspendStream \/ ResumeStream
    \/ EnterIsr \/ ReadLisr \/ ClearFlags

\* QEMU's clock runs and the calibration timer fires; nothing is assumed of
\* firmware.
Spec == Init /\ [][Next]_vars /\ WF_vars(Tick) /\ WF_vars(CalibrationDone)

-----------------------------------------------------------------------------
(* Properties                                                              *)

\* Every variable keeps its shape: the stream never counts below zero nor
\* points past its block.
TypeOK ==
    /\ adc \in [Units -> Unit]
    /\ calTimer \in Left /\ convTimer \in Left
    /\ latch \in BOOLEAN
    /\ stream \in Stream
    /\ isr \in {"no", "entered", "read"} /\ seen \subseteq Flags

\* An ADC at work never waits for a register access: one of the shared timers
\* is set to fire when it is done, or before.
WorkHasTimer ==
    \A u \in Units :
        /\ adc[u].cal # Off => calTimer \in 0..adc[u].cal
        /\ adc[u].conv # Off => convTimer \in 0..adc[u].conv

\* The stream never writes outside the block firmware programmed, through
\* suspensions, failed writes and laps.
StreamInBlock == InBlock(stream)

\* A flag the firmware has to clear has an interrupt that is pending or being
\* handled, however the requests fall between the handler's steps.
FlagHasInterrupt == stream.lisr # {} => stream.irq \/ isr # "no"

\* When a block ends, memory holds as many samples in a row as it is long,
\* through suspensions and laps.
BlockIsConsecutive ==
    [][stream.en /\ stream.ndtr = 1 /\ stream'.ndtr # 1 => Consecutive(stream')]_vars

\* A calibration that has begun ends in CR, where the firmware polls for it,
\* without a further access to the ADC.
CalibrationEnds == \A u \in Units : adc[u].adcal ~> ~adc[u].adcal

=============================================================================
