----------------------------- MODULE TraceRing ------------------------------
(***************************************************************************)
(* The coverage trace.  The emulated CPU logs the program counter of every *)
(* block into a ring; fuzz.c adds a marker at each exception entry and     *)
(* exit; the tracer thread of core.c drains the ring and turns what it     *)
(* reads into edge coverage, skipping what ran inside interrupts.  At the  *)
(* fuzzer's synchronisation point the CPU waits for the ring to drain and  *)
(* lets the backend read the coverage of the input that just ran.          *)
(*                                                                         *)
(* Indices count entries, modulo N; the code has a uint16_t that grows by  *)
(* 4 over 64 KiB, so N = 16384 there.  The inline logger is QEMU's         *)
(* (external): given &tracer_consumed_index, it waits while the ring has   *)
(* no more than Reserve free entries.  The markers do not wait.            *)
(***************************************************************************)
EXTENDS Integers, Sequences, SequencesExt

CONSTANTS
  N,          \* entries of the ring
  Reserve,    \* entries the inline logger leaves free
  Blocks,     \* program counters of basic blocks
  MaxNest,    \* bound: exceptions active at once
  EarlyIrqs   \* exceptions may be taken before the snapshot point

ASSUME RingAssumption   == N \in Nat \ {0} /\ Reserve \in 1 .. N
ASSUME BlocksAssumption == Blocks \subseteq Nat \ {0}
ASSUME NestAssumption   == MaxNest \in Nat /\ EarlyIrqs \in BOOLEAN

Entry   == -3     \* 0xFFFFFFFD
Exit    == -5     \* 0xFFFFFFFB
NoPc    == 0
Entries == Blocks \cup {Entry, Exit}

VARIABLES
  buffer, index,             \* core_cc_list.log_buf
  tracer_consumed_index,     \* what the tracer has published
  tracer_index, value,       \* its local position and entry,
  loaded, tracer,            \*   the depth it loaded, and where it is
  fuzz_irq_depth, fuzz_prev_pc, CVG,
  fuzz_snap_initialized,
  cpu,                       \* "run", "drain", "sync"
  nest, fresh,               \* exceptions active; nothing logged since a marker
  \* history
  unread,                    \* logged and not yet observed, oldest first
  last, expected,            \* last block outside interrupts, edges since a clear
  live                       \* an input has been started

ring    == <<buffer, index>>
thread  == <<tracer_consumed_index, tracer_index, value, loaded, tracer>>
cov     == <<fuzz_irq_depth, fuzz_prev_pc, CVG>>
history == <<unread, last, expected, live>>
vars    == <<ring, thread, cov, fuzz_snap_initialized, cpu, nest, fresh, history>>

Edge(from, to) == IF from = NoPc THEN {} ELSE {<<from, to>>}

-----------------------------------------------------------------------------
(* The emulated CPU.                                                       *)

Advance(i) == (i + 1) % N

HasRoom == (index - tracer_consumed_index) % N < N - Reserve

PushAhead(e) ==                        \* mutant: advance, then store
  /\ buffer' = [buffer EXCEPT ![Advance(index)] = e]
  /\ index' = Advance(index)
  /\ unread' = Append(unread, e)
Push(e) ==
  /\ buffer' = [buffer EXCEPT ![index] = e]
  /\ index' = Advance(index)
  /\ unread' = Append(unread, e)

\* A block starts: the inline logger (external) writes its program counter.
LogPc(b) ==
  /\ cpu = "run"
  /\ HasRoom
  /\ Push(b)
  /\ fresh' = FALSE
  /\ IF nest = 0
       THEN last' = b /\ expected' = expected \cup Edge(last, b)
       ELSE UNCHANGED <<last, expected>>
  /\ UNCHANGED <<thread, cov, fuzz_snap_initialized, cpu, nest, live>>

\* fuzz_irq_entry
IrqEntry ==
  /\ cpu = "run" /\ nest < MaxNest
  /\ EarlyIrqs \/ fuzz_snap_initialized
  /\ Push(Entry)
  /\ nest' = nest + 1 /\ fresh' = TRUE
  /\ UNCHANGED <<thread, cov, fuzz_snap_initialized, cpu, last, expected, live>>

\* fuzz_irq_exit.  Every handler runs at least the block it returns from.
IrqExit ==
  /\ cpu = "run" /\ nest > 0 /\ ~fresh
  /\ Push(Exit)
  /\ nest' = nest - 1 /\ fresh' = TRUE
  /\ UNCHANGED <<thread, cov, fuzz_snap_initialized, cpu, last, expected, live>>

\* fuzz_snap_point, the first time: reset the depth, clear the coverage, and go
\* on as the synchronisation point.
SnapPoint ==
  /\ cpu = "run" /\ nest = 0 /\ ~fuzz_snap_initialized
  /\ fuzz_irq_depth' = 0
  /\ fuzz_prev_pc' = NoPc /\ CVG' = {}
  /\ fuzz_snap_initialized' = TRUE
  /\ cpu' = "drain"
  /\ UNCHANGED <<ring, thread, nest, fresh, history>>

SyncPoint ==
  /\ cpu = "run" /\ fuzz_snap_initialized
  /\ cpu' = "drain"
  /\ UNCHANGED <<ring, thread, cov, fuzz_snap_initialized, nest, fresh, history>>

DrainSkipped == TRUE                   \* mutant: read the coverage at once
Drained == tracer_consumed_index = index

\* core_wait_for_trace_drain returns; the rest of fuzz_sync_coverage.
DrainDone ==
  /\ cpu = "drain" /\ Drained
  /\ fuzz_prev_pc' = NoPc /\ last' = NoPc
  /\ cpu' = "sync"
  /\ UNCHANGED <<ring, thread, fuzz_irq_depth, CVG, fuzz_snap_initialized, nest,
                 fresh, unread, expected, live>>

\* The backend has read the coverage.  The same input goes on, or the snapshot
\* is restored and the next input starts clean.
Continue ==
  /\ cpu = "sync" /\ live
  /\ cpu' = "run"
  /\ UNCHANGED <<ring, thread, cov, fuzz_snap_initialized, nest, fresh, history>>

NextInput ==
  /\ cpu = "sync"
  /\ fuzz_prev_pc' = NoPc /\ CVG' = {}
  /\ expected' = {} /\ live' = TRUE
  /\ cpu' = "run"
  /\ UNCHANGED <<ring, thread, fuzz_irq_depth, fuzz_snap_initialized, nest, fresh,
                 unread, last>>

-----------------------------------------------------------------------------
(* The tracer thread.                                                      *)

\* There is an unread entry: read it, and the depth that goes with it.
TracerRead ==
  /\ tracer = "poll" /\ (index - tracer_index) % N # 0
  /\ value' = buffer[tracer_index]
  /\ loaded' = fuzz_irq_depth
  /\ tracer' = "observe"
  /\ UNCHANGED <<ring, tracer_consumed_index, tracer_index, cov,
                 fuzz_snap_initialized, cpu, nest, fresh, history>>

DepthNeverFalls(d, v) == IF v = Entry THEN d + 1 ELSE d   \* mutant: no exit
DepthAfter(d, v) == CASE v = Entry -> d + 1
                      [] v = Exit  -> d - 1

\* fuzz_add_observed_value.  The depth is a plain int that the CPU writes too:
\* the increment stores what was loaded, plus or minus one.
TracerObserve ==
  /\ tracer = "observe"
  /\ fuzz_irq_depth' = IF value \in Blocks THEN fuzz_irq_depth
                                           ELSE DepthAfter(loaded, value)
  /\ IF value \in Blocks /\ loaded = 0
       THEN /\ CVG' = CVG \cup Edge(fuzz_prev_pc, value)
            /\ fuzz_prev_pc' = value
       ELSE UNCHANGED <<CVG, fuzz_prev_pc>>
  /\ unread' = Tail(unread)
  /\ tracer' = "publish"
  /\ UNCHANGED <<ring, tracer_consumed_index, tracer_index, value, loaded,
                 fuzz_snap_initialized, cpu, nest, fresh, last, expected, live>>

PublishedLate(i) == i                  \* mutant: publish before advancing
Published(i) == Advance(i)

TracerPublish ==
  /\ tracer = "publish"
  /\ tracer_index' = Advance(tracer_index)
  /\ tracer_consumed_index' = Published(tracer_index)
  /\ tracer' = "poll"
  /\ UNCHANGED <<ring, value, loaded, cov, fuzz_snap_initialized, cpu, nest, fresh,
                 history>>

-----------------------------------------------------------------------------
Init ==
  /\ buffer = [i \in 0 .. N - 1 |-> Exit] /\ index = 0
  /\ tracer_consumed_index = 0 /\ tracer_index = 0
  /\ value = Exit /\ loaded = 0 /\ tracer = "poll"
  /\ fuzz_irq_depth = 0 /\ fuzz_prev_pc = NoPc /\ CVG = {}
  /\ fuzz_snap_initialized = FALSE
  /\ cpu = "run" /\ nest = 0 /\ fresh = FALSE
  /\ unread = <<>> /\ last = NoPc /\ expected = {} /\ live = FALSE

Tracer == TracerRead \/ TracerObserve \/ TracerPublish

Next == \/ \E b \in Blocks : LogPc(b)
        \/ IrqEntry \/ IrqExit
        \/ SnapPoint \/ SyncPoint \/ DrainDone \/ Continue \/ NextInput
        \/ Tracer

Spec == Init /\ [][Next]_vars

\* The tracer spins on its own thread; a CPU that waits for it spins as well.
FairSpec == Spec /\ WF_vars(Tracer) /\ WF_vars(DrainDone)

-----------------------------------------------------------------------------
(* Properties.                                                             *)

TypeOK ==
  /\ buffer \in [0 .. N - 1 -> Entries]
  /\ index \in 0 .. N - 1
  /\ tracer_consumed_index \in 0 .. N - 1 /\ tracer_index \in 0 .. N - 1
  /\ value \in Entries /\ loaded \in Int
  /\ tracer \in {"poll", "observe", "publish"}
  /\ fuzz_irq_depth \in Int /\ fuzz_prev_pc \in Blocks \cup {NoPc}
  /\ CVG \subseteq Blocks \X Blocks
  /\ fuzz_snap_initialized \in BOOLEAN
  /\ cpu \in {"run", "drain", "sync"}
  /\ nest \in 0 .. MaxNest /\ fresh \in BOOLEAN
  /\ unread \in Seq(Entries)
  /\ last \in Blocks \cup {NoPc} /\ expected \subseteq Blocks \X Blocks
  /\ live \in BOOLEAN

\* The entry in hand still counts as unread until it is observed, and after
\* that its slot is not given back yet.
InHand == IF tracer = "publish" THEN 1 ELSE 0

\* Everything logged reaches the tracer: the ring between the tracer and the
\* writer holds exactly the unread entries, in order.
NoEventLost ==
  /\ (index - tracer_index) % N = Len(unread) + InHand
  /\ \A i \in 1 .. Len(unread) :
       unread[i] = buffer[(tracer_index + InHand + i - 1) % N]

\* Once the tracer has caught up, its interrupt depth is the CPU's.  A depth
\* that drifted off zero would switch coverage off for good.
DepthMatches == unread = <<>> => fuzz_irq_depth = nest

\* When the backend reads the coverage of an input, it is that of the blocks
\* the input ran outside interrupts: nothing missing, nothing stale.
CoverageExact == cpu = "sync" /\ live => CVG = expected

\* The wait at the synchronisation point ends.
DrainEnds == cpu = "drain" ~> cpu = "sync"
=============================================================================
