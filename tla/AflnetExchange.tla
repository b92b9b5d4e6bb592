--------------------------- MODULE AflnetExchange ---------------------------
(***************************************************************************)
(* The other backend of fuzz.c: AFLNet, a library thread behind a pair of   *)
(* non-blocking datagram sockets (fuzz_aflnet.c), with the hooks of         *)
(* stateful_fuzzers/lwip_ip.c that read frames and send responses, and the  *)
(* callback of protocol_fuzzers/generic.c at the snapshot point.            *)
(*                                                                         *)
(* AFLNet plays sessions: RESTORE, then inputs, each answered by DONE.  It  *)
(* is not part of the repository: the model lets it send whenever it does   *)
(* not wait, and give up waiting.  What is sent to a full socket is lost,   *)
(* since fuzz_aflnet.c ignores the result.  An input is its sequence        *)
(* number; memory and coverage are the sets of inputs that left something   *)
(* in them (0: the start-up).  RESTORE_DONE, and a response sent when no    *)
(* input is active, carry the number 0.                                     *)
(***************************************************************************)
EXTENDS Integers, Sequences, SequencesExt

CONSTANTS
  MaxSeq,        \* bound: inputs AFLNet sends
  MaxRestores,   \* bound: snapshots it asks for
  Capacity,      \* datagrams a socket holds
  MaxResponses,  \* bound: frames the firmware sends between two waits
  GivesUp        \* AFLNet's own timeouts may expire

ASSUME AflnetAssumption ==
  /\ MaxSeq \in Nat \ {0} /\ MaxRestores \in Nat
  /\ Capacity \in Nat \ {0} /\ MaxResponses \in Nat
  /\ GivesUp \in BOOLEAN

Inputs == 1 .. MaxSeq
Msg(type, seq) == [type |-> type, seq |-> seq]

VARIABLES
  \* AFLNet
  aflnet,         \* "idle", or what it waits for: "done", "restored"
  gave_up,        \* it has given up a wait
  sent, restores, \* inputs and restores it has sent
  session,        \* first input of the session an input belongs to
  first,          \* first input of the current session
  \* the two sockets
  toCpu, toAflnet,
  \* fuzz.c and fuzz_aflnet.c
  cpu,            \* "run", "inject" in the snap callback, "next", "poll",
                  \* "spin" after a hard fault, "died" in utils_die
  back,           \* where the CPU goes when it has its next input
  fuzz_snap_initialized, clear_next,
  g_active_seq, g_msg_buf, g_active_msg_state,
  CVG, memory,
  responses,      \* frames sent since the CPU last waited
  \* history
  read,           \* inputs the firmware was given
  refused,        \* inputs a hook took and could not give to the firmware
  answered,       \* inputs whose DONE was sent, or lost
  faulted         \* inputs that ended in a hard fault

peer    == <<aflnet, gave_up, sent, restores, session, first>>
net     == <<toCpu, toAflnet>>
message == <<g_active_seq, g_msg_buf, g_active_msg_state>>
effects == <<CVG, memory>>
history == <<read, refused, answered, faulted>>
vars == <<peer, net, cpu, back, fuzz_snap_initialized, clear_next, message, effects,
          responses, history>>

\* write() to a non-blocking socket
Send(queue, m) == IF Len(queue) < Capacity THEN Append(queue, m) ELSE queue

-----------------------------------------------------------------------------
(* AFLNet.                                                                 *)

SendInput ==
  /\ aflnet = "idle" /\ sent < MaxSeq /\ Len(toCpu) < Capacity
  /\ sent' = sent + 1
  /\ session' = [session EXCEPT ![sent + 1] = first]
  /\ toCpu' = Append(toCpu, Msg("INPUT", sent + 1))
  /\ aflnet' = "done"
  /\ UNCHANGED <<gave_up, restores, first, toAflnet, cpu, back, fuzz_snap_initialized, clear_next,
                 message, effects, responses, history>>

SendRestore ==
  /\ aflnet = "idle" /\ restores < MaxRestores /\ Len(toCpu) < Capacity
  /\ restores' = restores + 1
  /\ first' = sent + 1
  /\ toCpu' = Append(toCpu, Msg("RESTORE", 0))
  /\ aflnet' = "restored"
  /\ UNCHANGED <<gave_up, sent, session, toAflnet, cpu, back, fuzz_snap_initialized, clear_next,
                 message, effects, responses, history>>

IsAnswer(m) == \/ aflnet = "done" /\ m = Msg("DONE", sent)
               \/ aflnet = "restored" /\ m.type = "RESTORE_DONE"

\* It reads until it has its answer; what is not the answer is a response, or
\* belongs to something it gave up on.
Receive ==
  /\ aflnet # "idle" /\ toAflnet # <<>>
  /\ aflnet' = IF IsAnswer(Head(toAflnet)) THEN "idle" ELSE aflnet
  /\ toAflnet' = Tail(toAflnet)
  /\ UNCHANGED <<gave_up, sent, restores, session, first, toCpu, cpu, back, fuzz_snap_initialized,
                 clear_next, message, effects, responses, history>>

GiveUp ==
  /\ GivesUp /\ aflnet # "idle"
  /\ aflnet' = "idle" /\ gave_up' = TRUE
  /\ UNCHANGED <<sent, restores, session, first, net, cpu, back, fuzz_snap_initialized,
                 clear_next, message, effects, responses, history>>

-----------------------------------------------------------------------------
(* The CPU thread.                                                         *)

RunBlocks ==
  /\ cpu = "run"
  /\ CVG' = CVG \cup {g_msg_buf}
  /\ memory' = IF fuzz_snap_initialized THEN memory \cup {g_msg_buf} ELSE memory
  /\ UNCHANGED <<peer, net, cpu, back, fuzz_snap_initialized, clear_next, message,
                 responses, history>>

\* fuzz_get_data hands a READY message out, once.  The hook that took it gives
\* it to the firmware, unless it is empty or memory cannot be written.
TakeMessage ==
  /\ g_active_msg_state = "READY" /\ g_active_msg_state' = "CONSUMED"
  /\ \/ read' = read \cup {g_msg_buf} /\ UNCHANGED refused
     \/ refused' = refused \cup {g_msg_buf} /\ UNCHANGED read
  /\ UNCHANGED <<g_active_seq, g_msg_buf, answered, faulted>>

\* fuzz_eth_in: the message becomes a frame in a pbuf, or r5 stays 0.
EthIn ==
  /\ cpu = "run"
  /\ TakeMessage
  /\ UNCHANGED <<peer, net, cpu, back, fuzz_snap_initialized, clear_next, effects,
                 responses>>

\* fuzz_eth_out: a frame of the firmware goes out under the active number.
EthOut ==
  /\ cpu = "run" /\ responses < MaxResponses
  /\ toAflnet' = Send(toAflnet, Msg("RESPONSE", g_active_seq))
  /\ responses' = responses + 1
  /\ UNCHANGED <<peer, toCpu, cpu, back, fuzz_snap_initialized, clear_next, message,
                 effects, history>>

\* complete_previous_message
CompletedStaysActive ==                  \* mutant: the number is not reset
  /\ toAflnet' = IF g_active_seq # 0 THEN Send(toAflnet, Msg("DONE", g_active_seq))
                                     ELSE toAflnet
  /\ answered' = answered \cup ({g_active_seq} \ {0})
  /\ UNCHANGED g_active_seq
CompletePrevious ==
  /\ IF g_active_seq # 0
       THEN /\ toAflnet' = Send(toAflnet, Msg("DONE", g_active_seq))
            /\ answered' = answered \cup {g_active_seq}
       ELSE UNCHANGED <<toAflnet, answered>>
  /\ g_active_seq' = 0

\* fuzz_snap_point.  The first visit takes the snapshot and is a
\* synchronisation point too; every visit ends in the snap callback.
SnapPoint ==
  /\ cpu = "run"
  /\ IF fuzz_snap_initialized
       THEN /\ cpu' = "inject"
            /\ UNCHANGED <<back, fuzz_snap_initialized, CVG, g_active_msg_state>>
       ELSE /\ fuzz_snap_initialized' = TRUE
            /\ CVG' = {}
            /\ g_active_msg_state' = "INACTIVE"
            /\ cpu' = "next" /\ back' = "inject"
  /\ UNCHANGED <<peer, net, clear_next, g_active_seq, g_msg_buf, memory, responses,
                 history>>

\* generic_callback: a schema with fields takes the message; without a schema,
\* or without memory for a field, the process dies.
Inject ==
  /\ cpu = "inject"
  /\ \/ cpu' \in {"run", "died"} /\ UNCHANGED <<message, history>>
     \/ cpu' = "run" /\ TakeMessage
  /\ UNCHANGED <<peer, net, back, fuzz_snap_initialized, clear_next, effects, responses>>

\* fuzz_sync_point up to fuzz_backend_next.  A message nobody has read stays
\* active, and the firmware goes on.
UnreadIsDropped == FALSE                 \* mutant: an unread message is given up
StillUnread     == g_active_msg_state = "READY"

SyncPoint ==
  /\ cpu = "run" /\ fuzz_snap_initialized
  /\ IF StillUnread
       THEN UNCHANGED <<cpu, back, g_active_msg_state, responses>>
       ELSE /\ cpu' = "next" /\ back' = "run"
            /\ g_active_msg_state' = "INACTIVE" /\ responses' = 0
  /\ UNCHANGED <<peer, net, fuzz_snap_initialized, clear_next, g_active_seq,
                 g_msg_buf, effects, history>>

\* fuzz_backend_next, up to the poll
Next1 ==
  /\ cpu = "next"
  /\ CompletePrevious
  /\ cpu' = "poll"
  /\ UNCHANGED <<peer, toCpu, back, fuzz_snap_initialized, clear_next, g_msg_buf,
                 g_active_msg_state, effects, responses, read, refused, faulted>>

\* A RESTORE: back to the snapshot, tell AFLNet, and wait for the next frame.
\* The coverage is left for AFLNet to look at.
RestoreUnreported == UNCHANGED toAflnet    \* mutant: AFLNet is not told
RestoreComplete   == toAflnet' = Send(toAflnet, Msg("RESTORE_DONE", 0))

Restore ==
  /\ cpu = "poll" /\ toCpu # <<>> /\ Head(toCpu).type = "RESTORE"
  /\ toCpu' = Tail(toCpu)
  /\ memory' = {}
  /\ clear_next' = TRUE
  /\ RestoreComplete
  /\ cpu' = "next"
  /\ UNCHANGED <<peer, back, fuzz_snap_initialized, message, CVG, responses, history>>

NeverClear == UNCHANGED <<CVG, clear_next>>      \* mutant: coverage accumulates
AlwaysClear == CVG' = {} /\ UNCHANGED clear_next \* mutant: of the last input only
ClearNext == /\ CVG' = IF clear_next THEN {} ELSE CVG
             /\ clear_next' = FALSE

\* An INPUT becomes the active message; the firmware goes on.
Input ==
  /\ cpu = "poll" /\ toCpu # <<>> /\ Head(toCpu).type = "INPUT"
  /\ toCpu' = Tail(toCpu)
  /\ g_active_seq' = Head(toCpu).seq
  /\ g_msg_buf' = Head(toCpu).seq
  /\ ClearNext
  /\ g_active_msg_state' = "READY"
  /\ cpu' = back
  /\ UNCHANGED <<peer, toAflnet, back, fuzz_snap_initialized, memory, responses, history>>

\* virt_assert with address 0: a hard fault.  The input is completed like any
\* other, and the CPU never runs again.  Other asserts leave no trace here.
HardFault ==
  /\ cpu = "run" /\ fuzz_snap_initialized
  /\ CompletePrevious
  /\ faulted' = faulted \cup {g_msg_buf}
  /\ cpu' = "spin"
  /\ UNCHANGED <<peer, toCpu, back, fuzz_snap_initialized, clear_next, g_msg_buf,
                 g_active_msg_state, effects, responses, read, refused>>

-----------------------------------------------------------------------------
Init ==
  /\ aflnet = "idle" /\ gave_up = FALSE /\ sent = 0 /\ restores = 0
  /\ session = [s \in Inputs |-> 1] /\ first = 1
  /\ toCpu = <<>> /\ toAflnet = <<>>
  /\ cpu = "run" /\ back = "run"
  /\ fuzz_snap_initialized = FALSE /\ clear_next = FALSE
  /\ g_active_seq = 0 /\ g_msg_buf = 0 /\ g_active_msg_state = "INACTIVE"
  /\ CVG = {} /\ memory = {} /\ responses = 0
  /\ read = {} /\ refused = {} /\ answered = {} /\ faulted = {}

Peer == SendInput \/ SendRestore \/ Receive \/ GiveUp
Hook == Inject \/ Next1 \/ Restore \/ Input
Firmware == RunBlocks \/ EthIn \/ EthOut \/ SnapPoint \/ SyncPoint \/ HardFault

\* utils_die ends the process, and with it AFLNet's thread.
Alive == cpu # "died"

Next == Alive /\ (Peer \/ Hook \/ Firmware)

Spec == Init /\ [][Next]_vars

\* The CPU thread runs; the firmware goes round its loop from the snapshot point
\* to the synchronisation point and reads a frame that waits for it; AFLNet reads
\* its socket while it waits.  Nothing makes AFLNet send or give up.
FairSpec ==
  /\ Spec
  /\ WF_vars(Alive /\ Hook) /\ WF_vars(Alive /\ Receive)
  /\ SF_vars(SnapPoint) /\ SF_vars(EthIn) /\ SF_vars(SyncPoint)

-----------------------------------------------------------------------------
(* Properties.                                                             *)

\* The range of every variable.
TypeOK ==
  /\ aflnet \in {"idle", "done", "restored"} /\ gave_up \in BOOLEAN
  /\ sent \in 0 .. MaxSeq /\ restores \in 0 .. MaxRestores
  /\ session \in [Inputs -> Inputs] /\ first \in 1 .. MaxSeq + 1
  /\ \A i \in 1 .. Len(toCpu) : toCpu[i] \in [type : {"INPUT", "RESTORE"}, seq : 0 .. MaxSeq]
  /\ \A i \in 1 .. Len(toAflnet) :
       toAflnet[i] \in [type : {"DONE", "RESTORE_DONE", "RESPONSE"}, seq : 0 .. MaxSeq]
  /\ Len(toCpu) <= Capacity /\ Len(toAflnet) <= Capacity
  /\ cpu \in {"run", "inject", "next", "poll", "spin", "died"}
  /\ back \in {"run", "inject"}
  /\ fuzz_snap_initialized \in BOOLEAN /\ clear_next \in BOOLEAN
  /\ g_active_seq \in 0 .. MaxSeq /\ g_msg_buf \in 0 .. MaxSeq
  /\ g_active_msg_state \in {"INACTIVE", "READY", "CONSUMED"}
  /\ CVG \subseteq 0 .. MaxSeq /\ memory \subseteq 0 .. MaxSeq
  /\ responses \in 0 .. MaxResponses
  /\ read \subseteq Inputs /\ refused \subseteq Inputs
  /\ answered \subseteq Inputs /\ faulted \subseteq 0 .. MaxSeq

\* An input of a session meets the memory and the coverage of the earlier
\* inputs of the same session and nothing else, even when AFLNet gave up on
\* some of them and on their restores.
RunsInItsSession ==
  cpu \in {"run", "inject"} /\ g_msg_buf # 0 => memory \cup CVG \subseteq session[g_msg_buf] .. g_msg_buf

\* When AFLNet takes the DONE of its input, the coverage is that of all that ran
\* since the snapshot, inputs of its own session only, and no firmware is
\* running that would change it under its eyes.
DoneFreezesCoverage ==
  aflnet = "done" /\ Contains(toAflnet, Msg("DONE", sent)) =>
    cpu \notin {"run", "inject"} /\ CVG = memory /\ CVG \subseteq first .. sent

\* An answer is never late: nothing is sent under the number of an input that
\* was answered, neither a second DONE nor a response.
NothingAfterDone ==
  [][Len(toAflnet') > Len(toAflnet) => Last(toAflnet').seq \notin answered]_vars

\* DONE means that a hook has taken the input, or that the firmware faulted with
\* it.  It does not mean that the firmware was given the input: the DONE of one
\* that was empty, or could not be written to its memory, is like any other.
DoneMeansTaken == answered \subseteq read \cup refused \cup faulted

\* If AFLNet is patient and the firmware's responses leave room in the socket,
\* every input and every restore is answered, unless the CPU has faulted or the
\* process has died.
EveryRequestAnswered ==
  []~gave_up => (aflnet # "idle" ~> aflnet = "idle" \/ cpu \in {"spin", "died"})
=============================================================================
