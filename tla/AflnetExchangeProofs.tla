------------------------ MODULE AflnetExchangeProofs ------------------------
(***************************************************************************)
(* The sessions of AFLNet stay apart, for every number of inputs and        *)
(* restores and every size of the sockets, also when AFLNet gives up.       *)
(***************************************************************************)
EXTENDS AflnetExchange, TLAPS

-----------------------------------------------------------------------------
(* The invariant.                                                          *)

ToCpu    == [type : {"INPUT", "RESTORE"}, seq : 0 .. MaxSeq]
ToAflnet == [type : {"DONE", "RESTORE_DONE", "RESPONSE"}, seq : 0 .. MaxSeq]

Queues == toCpu \in Seq(ToCpu) /\ toAflnet \in Seq(ToAflnet)

InFirmware == cpu \in {"run", "inject"}

\* The active input is the one in the buffer, and not answered yet; a CPU that
\* left the firmware has had its input taken.
Active ==
  /\ g_active_seq # 0 => /\ g_active_seq = g_msg_buf /\ g_active_seq \notin answered
                         /\ InFirmware \/ cpu \in {"next", "died"}
                         /\ g_active_msg_state # "READY" => g_active_seq \in read \cup refused
  /\ cpu \in {"next", "poll"} => g_active_msg_state # "READY"
  /\ InFirmware => /\ clear_next = FALSE
                   /\ g_msg_buf # 0 => g_active_seq # 0
                   /\ fuzz_snap_initialized = TRUE => g_msg_buf # 0
  /\ fuzz_snap_initialized = FALSE => /\ cpu = "run" /\ g_msg_buf = 0 /\ memory = {}
                                      /\ g_active_msg_state # "READY"
  /\ fuzz_snap_initialized = TRUE /\ clear_next = FALSE => CVG = memory
  /\ clear_next = TRUE => memory = {}

Answers ==
  /\ answered \subseteq 1 .. g_msg_buf
  /\ answered \subseteq read \cup refused \cup faulted
  /\ \A k \in 1 .. Len(toAflnet) : toAflnet[k].type = "DONE" => toAflnet[k].seq \in answered

\* No restore between two places of the queue to the CPU.
Together(q, j, k) == \A p \in j .. k : q[p].type = "INPUT"

\* What the next input will be added to, unless a restore comes first.
Present == memory \cup (IF clear_next THEN {} ELSE {g_msg_buf} \ {0})

\* Inputs are queued in the order they were numbered.
InOrder ==
  /\ g_msg_buf <= sent /\ first <= sent + 1
  /\ \A k \in 1 .. Len(toCpu) : toCpu[k].type = "INPUT" =>
       g_msg_buf < toCpu[k].seq /\ toCpu[k].seq <= sent
  /\ \A j, k \in 1 .. Len(toCpu) :
       j < k /\ toCpu[j].type = "INPUT" /\ toCpu[k].type = "INPUT" =>
         toCpu[j].seq < toCpu[k].seq

\* An input queued behind another with no restore between them belongs to a
\* session that had begun by then; the same of the inputs still to be sent.
Sessions ==
  /\ \A j, k \in 1 .. Len(toCpu) :
       j <= k /\ Together(toCpu, j, k) => session[toCpu[k].seq] <= toCpu[j].seq
  /\ \A j \in 1 .. Len(toCpu) : Together(toCpu, j, Len(toCpu)) => first <= toCpu[j].seq
  /\ \A k \in 1 .. Len(toCpu) :
       Together(toCpu, 1, k) => \A x \in Present : session[toCpu[k].seq] <= x
  /\ Together(toCpu, 1, Len(toCpu)) => \A x \in Present : first <= x
  /\ \A x \in Present : 0 < x /\ x <= g_msg_buf
  /\ g_msg_buf # 0 /\ clear_next = FALSE =>
       \A x \in Present : session[g_msg_buf] <= x

\* The input AFLNet waits for is the last of the queue, or the one in the buffer.
Awaited ==
  aflnet = "done" =>
    /\ sent > 0
    /\ \/ toCpu # <<>> /\ toCpu[Len(toCpu)] = Msg("INPUT", sent)
       \/ toCpu = <<>> /\ g_msg_buf = sent /\ clear_next = FALSE

SessionInv == Queues /\ TypeOK /\ Active /\ Answers /\ InOrder /\ Sessions /\ Awaited

-----------------------------------------------------------------------------
(* The sockets.                                                            *)

LEMMA AppendAt ==
  ASSUME NEW S, NEW q \in Seq(S), NEW m \in S
  PROVE  /\ Append(q, m) \in Seq(S) /\ Len(Append(q, m)) = Len(q) + 1
         /\ Append(q, m)[Len(q) + 1] = m
         /\ \A k \in 1 .. Len(q) : Append(q, m)[k] = q[k] /\ q[k] \in S
OBVIOUS

LEMMA TailAt ==
  ASSUME NEW S, NEW q \in Seq(S), q # <<>>
  PROVE  /\ Tail(q) \in Seq(S) /\ Len(Tail(q)) = Len(q) - 1 /\ Len(q) \in Nat
         /\ Head(q) = q[1] /\ 1 \in 1 .. Len(q) /\ Head(q) \in S
         /\ \A k \in 1 .. Len(q) - 1 : Tail(q)[k] = q[k + 1] /\ k + 1 \in 1 .. Len(q)
OBVIOUS

LEMMA Beyond ==
  ASSUME NEW g \in Nat, NEW h, g < h
  PROVE  h \notin 1 .. g /\ h # 0
OBVIOUS

\* A full socket drops what is written to it.
LEMMA SendAt ==
  ASSUME Queues, TypeOK, NEW m \in ToAflnet
  PROVE  /\ Send(toAflnet, m) \in Seq(ToAflnet) /\ Len(Send(toAflnet, m)) <= Capacity
         /\ \A k \in 1 .. Len(Send(toAflnet, m)) :
              Send(toAflnet, m)[k] = m \/ (k \in 1 .. Len(toAflnet) /\ Send(toAflnet, m)[k] = toAflnet[k])
         /\ Len(Send(toAflnet, m)) > Len(toAflnet) => Last(Send(toAflnet, m)) = m
<1>1. toAflnet \in Seq(ToAflnet) /\ Len(toAflnet) \in Nat /\ Len(toAflnet) <= Capacity
      /\ Capacity \in Nat
  BY AflnetAssumption DEF Queues, TypeOK
<1>2. CASE Len(toAflnet) < Capacity
  BY <1>1, <1>2, AppendAt DEF Send, Last
<1>3. CASE ~(Len(toAflnet) < Capacity)
  BY <1>1, <1>3 DEF Send
<1> QED
  BY <1>2, <1>3

\* The numbers a message can carry.
LEMMA Messages ==
  ASSUME TypeOK
  PROVE  /\ \A n \in 0 .. MaxSeq : /\ Msg("DONE", n) \in ToAflnet
                                   /\ Msg("RESPONSE", n) \in ToAflnet
                                   /\ Msg("INPUT", n) \in ToCpu
         /\ Msg("RESTORE_DONE", 0) \in ToAflnet /\ Msg("RESTORE", 0) \in ToCpu
         /\ MaxSeq \in Nat /\ Capacity \in Nat /\ 0 \in 0 .. MaxSeq
         /\ g_active_seq \in 0 .. MaxSeq
         /\ Len(toCpu) <= Capacity
BY AflnetAssumption DEF TypeOK, Msg, ToCpu, ToAflnet

\* What the CPU writes to AFLNet, action by action: nothing, a message under
\* the active number, or a message under none.
LEMMA Written ==
  ASSUME SessionInv, [Next]_vars
  PROVE  \/ UNCHANGED toAflnet
         \/ toAflnet # <<>> /\ toAflnet' = Tail(toAflnet) /\ UNCHANGED answered
         \/ \E m \in ToAflnet :
              /\ toAflnet' = Send(toAflnet, m)
              /\ m.seq = g_active_seq \/ m.seq = 0
              /\ m.type = "DONE" => m.seq \in answered'
              /\ answered \subseteq answered'
<1> USE DEF SessionInv
<1>1. CASE Next1 \/ HardFault
  <2>1. CASE g_active_seq # 0
    <3>1. /\ toAflnet' = Send(toAflnet, Msg("DONE", g_active_seq))
          /\ answered' = answered \cup {g_active_seq}
      BY <1>1, <2>1 DEF Next1, HardFault, CompletePrevious
    <3> QED
      BY <3>1, Messages DEF Msg
  <2>2. CASE g_active_seq = 0
    BY <1>1, <2>2 DEF Next1, HardFault, CompletePrevious
  <2> QED
    BY <2>1, <2>2
<1>2. CASE EthOut
  BY <1>2, Messages DEF EthOut, Msg, history
<1>3. CASE Restore
  BY <1>3, Messages DEF Restore, RestoreComplete, Msg, history
<1>4. CASE Receive
  BY <1>4 DEF Receive, history
<1>5. CASE \/ SendInput \/ SendRestore \/ GiveUp \/ Input \/ Inject
           \/ RunBlocks \/ EthIn \/ SnapPoint \/ SyncPoint \/ UNCHANGED vars
  BY <1>5 DEF SendInput, SendRestore, GiveUp, Input, RunBlocks, EthIn, SnapPoint,
              SyncPoint, Inject, vars, net
<1> QED
  BY <1>1, <1>2, <1>3, <1>4, <1>5 DEF Next, Peer, Hook, Firmware

-----------------------------------------------------------------------------
(* The steps of the invariant.                                             *)

\* What a step does to the queue to the CPU.
LEMMA Queued ==
  ASSUME SessionInv, [Next]_vars
  PROVE  \/ UNCHANGED toCpu
         \/ (Restore \/ Input) /\ toCpu # <<>> /\ toCpu' = Tail(toCpu)
         \/ SendInput /\ toCpu' = Append(toCpu, Msg("INPUT", sent + 1))
         \/ SendRestore /\ toCpu' = Append(toCpu, Msg("RESTORE", 0))
<1>1. CASE SendInput \/ SendRestore \/ Restore \/ Input
  BY <1>1 DEF SendInput, SendRestore, Restore, Input
<1>2. CASE \/ Receive \/ GiveUp \/ Next1 \/ Inject \/ RunBlocks \/ EthIn \/ EthOut
           \/ SnapPoint \/ SyncPoint \/ HardFault \/ UNCHANGED vars
  BY <1>2 DEF Receive, GiveUp, Next1, Inject, RunBlocks, EthIn, EthOut, SnapPoint,
              SyncPoint, HardFault, vars, net
<1> QED
  BY <1>1, <1>2 DEF Next, Peer, Hook, Firmware

\* The sockets hold messages, and no more than they can.
LEMMA QueuesStep ==
  ASSUME SessionInv, [Next]_vars
  PROVE  /\ Queues' /\ Len(toCpu') <= Capacity /\ Len(toAflnet') <= Capacity
<1> USE DEF SessionInv
<1>1. toAflnet' \in Seq(ToAflnet) /\ Len(toAflnet') <= Capacity
  <2>1. toAflnet \in Seq(ToAflnet) /\ Len(toAflnet) \in Nat /\ Len(toAflnet) <= Capacity
        /\ Capacity \in Nat
    BY AflnetAssumption DEF Queues, TypeOK
  <2>2. CASE toAflnet # <<>> /\ toAflnet' = Tail(toAflnet)
    <3>1. Tail(toAflnet) \in Seq(ToAflnet) /\ Len(Tail(toAflnet)) = Len(toAflnet) - 1
      BY <2>1, <2>2, TailAt
    <3> QED
      BY <2>1, <2>2, <3>1
  <2>3. ASSUME NEW m \in ToAflnet, toAflnet' = Send(toAflnet, m)
        PROVE  toAflnet' \in Seq(ToAflnet) /\ Len(toAflnet') <= Capacity
    BY <2>3, SendAt
  <2> QED
    BY <2>1, <2>2, <2>3, Written
<1>2. toCpu \in Seq(ToCpu) /\ Len(toCpu) \in Nat /\ Len(toCpu) <= Capacity
  BY Messages DEF Queues
<1>3. CASE SendInput \/ SendRestore
  <2>1. Len(toCpu) < Capacity
    BY <1>3 DEF SendInput, SendRestore
  <2>2. SendInput => sent + 1 \in 0 .. MaxSeq
    BY AflnetAssumption DEF SendInput, TypeOK
  <2>3. \E m \in ToCpu : toCpu' = Append(toCpu, m)
    BY <1>3, <2>2, Messages DEF SendInput, SendRestore
  <2> QED
    BY <1>1, <1>2, <2>1, <2>3, AppendAt, Messages DEF Queues
<1>4. CASE UNCHANGED toCpu \/ (toCpu # <<>> /\ toCpu' = Tail(toCpu))
  <2>1. CASE toCpu # <<>> /\ toCpu' = Tail(toCpu)
    <3>1. Tail(toCpu) \in Seq(ToCpu) /\ Len(Tail(toCpu)) = Len(toCpu) - 1
      BY <1>2, <2>1, TailAt
    <3> QED
      BY <1>1, <1>2, <2>1, <3>1, Messages DEF Queues
  <2> QED
    BY <1>1, <1>2, <1>4, <2>1 DEF Queues
<1> QED
  BY <1>3, <1>4, Queued

LEMMA QueuesHold ==
  ASSUME SessionInv, [Next]_vars
  PROVE  /\ \A k \in 1 .. Len(toCpu') :
              toCpu'[k] \in [type : {"INPUT", "RESTORE"}, seq : 0 .. MaxSeq]
         /\ \A k \in 1 .. Len(toAflnet') :
              toAflnet'[k] \in [type : {"DONE", "RESTORE_DONE", "RESPONSE"}, seq : 0 .. MaxSeq]
<1>1. toCpu' \in Seq(ToCpu) /\ toAflnet' \in Seq(ToAflnet)
  BY QueuesStep DEF Queues
<1>2. \A k \in 1 .. Len(toCpu') : toCpu'[k] \in ToCpu
  BY <1>1
<1>3. \A k \in 1 .. Len(toAflnet') : toAflnet'[k] \in ToAflnet
  BY <1>1
<1> QED
  BY <1>2, <1>3 DEF ToCpu, ToAflnet

\* Every variable keeps its range.
LEMMA TypesStep ==
  ASSUME SessionInv, [Next]_vars
  PROVE  TypeOK'
<1> USE AflnetAssumption DEF SessionInv, TypeOK, peer, net, message, effects, history
<1>1. /\ \A k \in 1 .. Len(toCpu') :
           toCpu'[k] \in [type : {"INPUT", "RESTORE"}, seq : 0 .. MaxSeq]
      /\ \A k \in 1 .. Len(toAflnet') :
           toAflnet'[k] \in [type : {"DONE", "RESTORE_DONE", "RESPONSE"}, seq : 0 .. MaxSeq]
      /\ Len(toCpu') <= Capacity /\ Len(toAflnet') <= Capacity
  BY QueuesHold, QueuesStep
<1>2. CASE SendInput
  <2>1. first \in Inputs /\ sent + 1 \in Inputs /\ sent' \in 0 .. MaxSeq
    <3>1. sent < MaxSeq /\ sent' = sent + 1 /\ sent \in 0 .. MaxSeq /\ MaxSeq \in Nat
      BY <1>2 DEF SendInput
    <3>2. first <= sent + 1 /\ first \in 1 .. MaxSeq + 1
      BY DEF InOrder
    <3> QED
      BY <3>1, <3>2 DEF Inputs
  <2>2. session' \in [Inputs -> Inputs]
    BY <1>2, <2>1 DEF SendInput
  <2> QED
    BY <1>1, <1>2, <2>1, <2>2 DEF SendInput
<1>3. CASE SendRestore
  BY <1>1, <1>3 DEF SendRestore
<1>4. CASE Receive
  BY <1>1, <1>4 DEF Receive
<1>5. CASE GiveUp
  <2>1. gave_up' \in BOOLEAN
    BY <1>5 DEF GiveUp
  <2> QED
    BY <1>1, <1>5, <2>1 DEF GiveUp
<1>6. CASE RunBlocks
  BY <1>1, <1>6 DEF RunBlocks
<1>7. ASSUME TakeMessage, InFirmware
      PROVE  /\ g_active_msg_state' = "CONSUMED" /\ g_active_seq' = g_active_seq
             /\ g_msg_buf' = g_msg_buf /\ read' \subseteq Inputs /\ refused' \subseteq Inputs
             /\ answered' = answered /\ faulted' = faulted
  <2>1. g_msg_buf \in Inputs
    BY <1>7 DEF TakeMessage, Active, InFirmware, Inputs
  <2> QED
    BY <1>7, <2>1 DEF TakeMessage
<1>15. CASE EthIn
  BY <1>1, <1>7, <1>15 DEF EthIn, InFirmware
<1>16. CASE Inject
  <2>1. CASE UNCHANGED <<message, history>>
    BY <1>1, <1>16, <2>1 DEF Inject
  <2>2. CASE cpu' = "run" /\ TakeMessage
    BY <1>1, <1>7, <1>16, <2>2 DEF Inject, InFirmware
  <2> QED
    BY <1>16, <2>1, <2>2 DEF Inject
<1>8. CASE EthOut
  BY <1>1, <1>8 DEF EthOut
<1>9. CASE SnapPoint
  <2>1. fuzz_snap_initialized' \in BOOLEAN
    BY <1>9 DEF SnapPoint
  <2> QED
    BY <1>1, <1>9, <2>1 DEF SnapPoint
<1>10. CASE SyncPoint
  BY <1>1, <1>10 DEF SyncPoint
<1>11. CASE Next1 \/ HardFault
  <2>1. g_active_seq' = 0 /\ answered' \subseteq Inputs
    BY <1>11 DEF Next1, HardFault, CompletePrevious, Inputs
  <2>2. CASE Next1
    <3>1. cpu' = "poll" /\ g_active_seq' = 0 /\ 0 \in 0 .. MaxSeq
      BY <2>1, <2>2 DEF Next1
    <3>2. UNCHANGED <<aflnet, gave_up, sent, restores, session, first, fuzz_snap_initialized,
                      clear_next, g_msg_buf, g_active_msg_state, CVG, memory, responses, read,
                      refused, faulted, back>>
      BY <2>2 DEF Next1
    <3> QED
      BY <1>1, <2>1, <3>1, <3>2
  <2>3. CASE HardFault
    <3>1. faulted' \subseteq 0 .. MaxSeq
      BY <2>3 DEF HardFault
    <3>2. 0 \in 0 .. MaxSeq
      OBVIOUS
    <3>3. cpu' = "spin" /\ g_active_seq' = 0
      BY <2>1, <2>3 DEF HardFault
    <3>4. UNCHANGED <<aflnet, gave_up, sent, restores, session, first, fuzz_snap_initialized,
                      clear_next, g_msg_buf, g_active_msg_state, CVG, memory, responses, read,
                      refused, back>>
      BY <2>3 DEF HardFault
    <3> QED
      BY <1>1, <2>1, <3>1, <3>2, <3>3, <3>4
  <2> QED
    BY <1>11, <2>2, <2>3
<1>12. CASE Restore
  <2>1. clear_next' \in BOOLEAN
    BY <1>12 DEF Restore
  <2> QED
    BY <1>1, <1>12, <2>1 DEF Restore
<1>13. CASE Input
  <2>1. clear_next' \in BOOLEAN /\ CVG' \subseteq 0 .. MaxSeq
    BY <1>13 DEF Input, ClearNext
  <2>2. Head(toCpu).seq \in 0 .. MaxSeq
    BY <1>13, TailAt DEF Input, Queues, ToCpu
  <2> QED
    BY <1>1, <1>13, <2>1, <2>2 DEF Input
<1>14. CASE UNCHANGED vars
  BY <1>14 DEF vars
<1> QED
  BY <1>2, <1>3, <1>4, <1>5, <1>6, <1>7, <1>8, <1>9, <1>10, <1>11, <1>12, <1>13,
     <1>14, <1>15, <1>16 DEF Next, Peer, Hook, Firmware

\* An input stays active from its frame to its answer.
LEMMA ActiveStep ==
  ASSUME SessionInv, TypeOK', [Next]_vars
  PROVE  Active'
<1> USE DEF SessionInv, TypeOK, Active, InFirmware, peer, net, message, effects, history
<1>1. CASE SendInput
  BY <1>1 DEF SendInput
<1>2. CASE SendRestore
  BY <1>2 DEF SendRestore
<1>3. CASE Receive
  BY <1>3 DEF Receive
<1>4. CASE GiveUp
  BY <1>4 DEF GiveUp
<1>5. CASE RunBlocks
  BY <1>5 DEF RunBlocks
<1>6. CASE EthIn
  BY <1>6 DEF EthIn, TakeMessage
<1>14. CASE Inject
  BY <1>14 DEF Inject, TakeMessage
<1>7. CASE EthOut
  BY <1>7 DEF EthOut
<1>8. CASE SnapPoint
  BY <1>8 DEF SnapPoint
<1>9. CASE SyncPoint
  <2>1. CASE StillUnread
    BY <1>9, <2>1 DEF SyncPoint
  <2>2. CASE ~StillUnread
    BY <1>9, <2>2 DEF SyncPoint, StillUnread
  <2> QED
    BY <2>1, <2>2
<1>10. CASE Next1 \/ HardFault
  <2>1. g_active_seq' = 0
    BY <1>10 DEF Next1, HardFault, CompletePrevious
  <2> QED
    BY <1>10, <2>1 DEF Next1, HardFault
<1>11. CASE Restore
  BY <1>11 DEF Restore
<1>12. CASE Input
  <2>1. /\ g_active_seq' = Head(toCpu).seq /\ g_msg_buf' = Head(toCpu).seq
        /\ cpu' \in {"run", "inject"} /\ g_active_msg_state' = "READY" /\ memory' = memory
        /\ answered' = answered /\ clear_next' = FALSE
        /\ fuzz_snap_initialized' = fuzz_snap_initialized /\ fuzz_snap_initialized = TRUE
        /\ CVG' = IF clear_next THEN {} ELSE CVG
    BY <1>12 DEF Input, ClearNext
  <2>2. g_msg_buf < Head(toCpu).seq
    BY <1>12, TailAt DEF Input, Queues, InOrder
  <2>3. g_active_seq' \notin answered' /\ g_active_seq' # 0
    <3>1. answered \subseteq 1 .. g_msg_buf /\ g_msg_buf \in 0 .. MaxSeq
      BY DEF Answers
    <3> DEFINE h == Head(toCpu).seq
    <3>2. g_msg_buf < h
      BY <2>2
    <3> HIDE DEF h
    <3>3. h \notin 1 .. g_msg_buf /\ h # 0
      <4>1. g_msg_buf \in Nat
        BY <3>1, AflnetAssumption
      <4> QED
        BY <3>2, <4>1, Beyond
    <3> QED
      BY <2>1, <3>1, <3>3 DEF h
  <2>4. CVG' = memory'
    BY <2>1
  <2> QED
    BY <2>1, <2>3, <2>4
<1>13. CASE UNCHANGED vars
  BY <1>13 DEF vars
<1> QED
  BY <1>1, <1>2, <1>3, <1>4, <1>5, <1>6, <1>7, <1>8, <1>9, <1>10, <1>11, <1>12,
     <1>13, <1>14 DEF Next, Peer, Hook, Firmware

\* A message under the active number is sent before the number is answered.
LEMMA AnswersStep ==
  ASSUME SessionInv, TypeOK', Active', [Next]_vars
  PROVE  Answers'
<1> USE DEF SessionInv
<1>1. answered \subseteq answered'
  <2>1. CASE Next1 \/ HardFault
    BY <2>1 DEF Next1, HardFault, CompletePrevious
  <2>2. CASE ~(Next1 \/ HardFault)
    BY <2>2 DEF Next, Peer, Hook, Firmware, SendInput, SendRestore, Receive, GiveUp,
                RunBlocks, EthIn, EthOut, SnapPoint, SyncPoint, Restore, Input, Inject,
                TakeMessage, vars, history
  <2> QED
    BY <2>1, <2>2
<1>2. \A k \in 1 .. Len(toAflnet') : toAflnet'[k].type = "DONE" => toAflnet'[k].seq \in answered'
  <2>1. toAflnet \in Seq(ToAflnet) /\ Len(toAflnet) \in Nat
    BY DEF Queues
  <2>2. CASE UNCHANGED toAflnet
    BY <1>1, <2>2 DEF Answers
  <2>3. CASE toAflnet # <<>> /\ toAflnet' = Tail(toAflnet)
    <3>1. /\ Len(toAflnet') = Len(toAflnet) - 1
          /\ \A k \in 1 .. Len(toAflnet) - 1 :
               toAflnet'[k] = toAflnet[k + 1] /\ k + 1 \in 1 .. Len(toAflnet)
      BY <2>1, <2>3, TailAt
    <3> QED
      BY <1>1, <3>1 DEF Answers
  <2>4. ASSUME NEW m \in ToAflnet, toAflnet' = Send(toAflnet, m),
               m.type = "DONE" => m.seq \in answered'
        PROVE  \A k \in 1 .. Len(toAflnet') :
                 toAflnet'[k].type = "DONE" => toAflnet'[k].seq \in answered'
    BY <1>1, <2>4, SendAt DEF Answers
  <2> QED
    BY <2>2, <2>3, <2>4, Written
<1>3. /\ answered' \subseteq 1 .. g_msg_buf'
      /\ answered' \subseteq read' \cup refused' \cup faulted'
  <2>1. g_msg_buf \in Nat
    BY AflnetAssumption DEF TypeOK
  <2>2. CASE Next1 \/ HardFault
    <3>1. answered' \subseteq answered \cup ({g_active_seq} \ {0}) /\ g_msg_buf' = g_msg_buf
      BY <2>2 DEF Next1, HardFault, CompletePrevious, message
    <3>2. g_active_seq # 0 => g_active_seq = g_msg_buf /\ g_active_seq \in 1 .. g_msg_buf
      BY <2>1 DEF Active
    <3>3. CASE Next1
      <4>1. g_active_seq # 0 => g_active_seq \in read \cup refused
        BY <3>3 DEF Next1, Active
      <4>2. UNCHANGED <<read, refused, faulted>>
        BY <3>3 DEF Next1
      <4> QED
        BY <3>1, <3>2, <4>1, <4>2 DEF Answers
    <3>4. CASE HardFault
      <4>1. UNCHANGED <<read, refused>> /\ faulted' = faulted \cup {g_msg_buf}
        BY <3>4 DEF HardFault
      <4> QED
        BY <3>1, <3>2, <4>1 DEF Answers
    <3> QED
      BY <2>2, <3>3, <3>4
  <2>3. CASE Input
    <3>1. g_msg_buf' = Head(toCpu).seq /\ toCpu # <<>> /\ UNCHANGED history
      BY <2>3 DEF Input
    <3>. Head(toCpu) \in ToCpu
      BY <3>1, TailAt DEF Queues
    <3>. Head(toCpu).seq \in Nat
      BY AflnetAssumption DEF ToCpu
    <3>2. g_msg_buf < g_msg_buf'
      BY <2>3, <3>1, TailAt DEF Input, Queues, InOrder
    <3> QED
      BY <2>1, <3>1, <3>2 DEF Answers, history
  <2>4. CASE TakeMessage
    BY <2>4 DEF TakeMessage, Answers
  <2>5. CASE \/ SendInput \/ SendRestore \/ Receive \/ GiveUp \/ Restore
             \/ (Inject /\ ~TakeMessage) \/ RunBlocks \/ EthOut \/ SnapPoint \/ SyncPoint \/ UNCHANGED vars
    <3>1. UNCHANGED <<g_msg_buf, history>>
      BY <2>5 DEF SendInput, SendRestore, Receive, GiveUp, Restore, RunBlocks, EthOut,
                  SnapPoint, SyncPoint, Inject, vars, message, history
    <3> QED
      BY <3>1 DEF Answers, history
  <2> QED
    BY <2>2, <2>3, <2>4, <2>5 DEF Next, Peer, Hook, Firmware, EthIn
<1> QED
  BY <1>2, <1>3 DEF Answers

-----------------------------------------------------------------------------
(* The queue to the CPU.                                                   *)

QueueInv == InOrder /\ Sessions /\ Awaited

LEMMA QueueTypes ==
  ASSUME SessionInv
  PROVE  /\ toCpu \in Seq(ToCpu) /\ Len(toCpu) \in Nat /\ MaxSeq \in Nat
         /\ sent \in Nat /\ first \in Nat /\ g_msg_buf \in Nat
         /\ session \in [Inputs -> Inputs] /\ clear_next \in BOOLEAN
         /\ \A k \in 1 .. Len(toCpu) : toCpu[k] \in ToCpu /\ toCpu[k].seq \in Nat
         /\ \A k \in 1 .. Len(toCpu) :
              toCpu[k].type = "INPUT" => toCpu[k].seq \in Inputs /\ session[toCpu[k].seq] \in Nat
         /\ \A x \in Present : x \in Nat
<1> USE AflnetAssumption DEF SessionInv
<1>1. /\ toCpu \in Seq(ToCpu) /\ Len(toCpu) \in Nat /\ MaxSeq \in Nat
      /\ sent \in Nat /\ first \in Nat /\ g_msg_buf \in Nat
      /\ session \in [Inputs -> Inputs] /\ clear_next \in BOOLEAN
  BY DEF Queues, TypeOK
<1>2. \A k \in 1 .. Len(toCpu) : toCpu[k] \in ToCpu /\ toCpu[k].seq \in 0 .. MaxSeq
  <2>1. \A k \in 1 .. Len(toCpu) : toCpu[k] \in ToCpu
    BY <1>1
  <2> QED
    BY <2>1 DEF ToCpu
<1>3. \A k \in 1 .. Len(toCpu) :
        toCpu[k].type = "INPUT" => toCpu[k].seq \in Inputs /\ session[toCpu[k].seq] \in Nat
  <2>1. \A k \in 1 .. Len(toCpu) : toCpu[k].type = "INPUT" => g_msg_buf < toCpu[k].seq
    BY DEF InOrder
  <2>2. ASSUME NEW k \in 1 .. Len(toCpu), toCpu[k].type = "INPUT"
        PROVE  toCpu[k].seq \in Inputs
    <3> DEFINE q == toCpu[k].seq
    <3>1. g_msg_buf < q /\ q \in 0 .. MaxSeq
      BY <1>2, <2>1, <2>2
    <3> HIDE DEF q
    <3>2. q \in 1 .. MaxSeq
      BY <1>1, <3>1, Beyond
    <3> QED
      BY <3>2 DEF Inputs, q
  <2>3. \A i \in Inputs : session[i] \in Nat
    BY <1>1 DEF Inputs
  <2> QED
    BY <2>2, <2>3
<1>4. \A x \in Present : x \in Nat
  BY DEF Present, TypeOK
<1>5. \A k \in 1 .. Len(toCpu) : toCpu[k] \in ToCpu /\ toCpu[k].seq \in Nat
  BY <1>1, <1>2
<1> QED
  BY <1>1, <1>3, <1>4, <1>5

\* Steps that leave the queue alone leave the sessions alone.
LEMMA QueueKept ==
  ASSUME SessionInv,
         \/ Receive \/ GiveUp \/ Next1 \/ Inject \/ RunBlocks \/ EthIn \/ EthOut
         \/ SnapPoint \/ SyncPoint \/ HardFault \/ UNCHANGED vars
  PROVE  QueueInv'
<1>1. /\ UNCHANGED <<toCpu, sent, first, session, g_msg_buf, clear_next>>
      /\ aflnet' = aflnet \/ aflnet' = "idle"
  BY DEF Receive, GiveUp, Next1, Inject, RunBlocks, EthIn, EthOut, SnapPoint,
         SyncPoint, TakeMessage, HardFault, vars, net, peer, message
<1>2. memory' = memory \/ (clear_next = FALSE /\ memory' = memory \cup {g_msg_buf} /\ g_msg_buf # 0)
  <2>1. CASE RunBlocks
    BY <2>1 DEF RunBlocks, SessionInv, Active, InFirmware, TypeOK
  <2>2. CASE ~RunBlocks
    BY <2>2 DEF Receive, GiveUp, Next1, Inject, EthIn, EthOut, SnapPoint, SyncPoint,
                HardFault, vars, effects
  <2> QED
    BY <2>1, <2>2
<1>3. Present' = Present
  BY <1>1, <1>2 DEF Present
<1>4. InOrder'
  BY <1>1 DEF SessionInv, InOrder
<1>5. Sessions'
  BY <1>1, <1>3 DEF SessionInv, Sessions, Together
<1>6. Awaited'
  BY <1>1 DEF SessionInv, Awaited
<1> QED
  BY <1>4, <1>5, <1>6 DEF QueueInv

\* A new input belongs to the session AFLNet is in.
LEMMA QueueInput ==
  ASSUME SessionInv, SendInput
  PROVE  QueueInv'
<1> DEFINE L == Len(toCpu)
<1>1. /\ toCpu' = Append(toCpu, Msg("INPUT", sent + 1)) /\ sent' = sent + 1
      /\ session' = [session EXCEPT ![sent + 1] = first]
      /\ UNCHANGED <<first, g_msg_buf, clear_next, memory>> /\ sent + 1 \in Inputs
      /\ L \in Nat
  BY QueueTypes DEF SendInput, message, effects, Inputs
<1>2. /\ Len(toCpu') = L + 1 /\ toCpu'[L + 1] = Msg("INPUT", sent + 1)
      /\ \A k \in 1 .. L : toCpu'[k] = toCpu[k]
      /\ toCpu' # <<>>
  BY <1>1, QueueTypes, AppendAt, Messages DEF Inputs, SessionInv
<1>3. /\ toCpu'[L + 1].type = "INPUT" /\ toCpu'[L + 1].seq = sent + 1
      /\ session'[sent + 1] = first
      /\ \A k \in 1 .. L : toCpu[k].type = "INPUT" =>
           session'[toCpu[k].seq] = session[toCpu[k].seq] /\ toCpu[k].seq <= sent
      /\ g_msg_buf # 0 => session'[g_msg_buf] = session[g_msg_buf]
  BY <1>1, <1>2, QueueTypes DEF Msg, SessionInv, InOrder, Inputs
<1>4. Present' = Present
  BY <1>1 DEF Present
<1>5. InOrder'
  <2>1. g_msg_buf' <= sent' /\ first' <= sent' + 1
    BY <1>1, QueueTypes DEF SessionInv, InOrder
  <2>2. \A k \in 1 .. L : toCpu[k].type = "INPUT" =>
          g_msg_buf < toCpu[k].seq /\ toCpu[k].seq <= sent /\ toCpu[k].seq \in Nat
    BY QueueTypes DEF SessionInv, InOrder
  <2>3. \A k \in 1 .. L + 1 : toCpu'[k].type = "INPUT" =>
          g_msg_buf < toCpu'[k].seq /\ toCpu'[k].seq <= sent + 1
    <3>1. g_msg_buf < sent + 1 /\ sent \in Nat
      BY QueueTypes DEF SessionInv, InOrder
    <3>2. \A k \in 1 .. L + 1 : k \in 1 .. L \/ k = L + 1
      BY <1>1
    <3> QED
      BY <1>2, <1>3, <2>2, <3>1, <3>2
  <2>4. ASSUME NEW j \in 1 .. L + 1, NEW k \in 1 .. L + 1, j < k,
               toCpu'[j].type = "INPUT", toCpu'[k].type = "INPUT"
        PROVE  toCpu'[j].seq < toCpu'[k].seq
    <3>1. j \in 1 .. L
      BY <1>1, <2>4
    <3>2. CASE k = L + 1
      BY <1>2, <1>3, <2>2, <2>4, <3>1, <3>2, QueueTypes
    <3>3. CASE k # L + 1
      <4>1. k \in 1 .. L
        BY <1>1, <3>3
      <4> QED
        BY <1>2, <2>4, <3>1, <4>1 DEF SessionInv, InOrder
    <3> QED
      BY <3>2, <3>3
  <2> QED
    BY <1>1, <1>2, <2>1, <2>3, <2>4 DEF InOrder
<1>6. \A j, k \in 1 .. L : Together(toCpu', j, k) => Together(toCpu, j, k)
  BY <1>1, <1>2 DEF Together
<1>7. \A j \in 1 .. L : Together(toCpu', j, L + 1) => Together(toCpu, j, L)
  BY <1>1, <1>2 DEF Together
<1>8. \A j \in 1 .. L : Together(toCpu', j, L + 1) => first <= toCpu[j].seq
  BY <1>7 DEF SessionInv, Sessions
<1>9. Together(toCpu', 1, L + 1) => \A x \in Present : first <= x
  <2>1. Together(toCpu', 1, L + 1) => Together(toCpu, 1, L)
    BY <1>1, <1>2 DEF Together
  <2> QED
    BY <2>1 DEF SessionInv, Sessions
<1>10. \A j, k \in 1 .. L + 1 :
         j <= k /\ Together(toCpu', j, k) => session'[toCpu'[k].seq] <= toCpu'[j].seq
  <2> SUFFICES ASSUME NEW j \in 1 .. L + 1, NEW k \in 1 .. L + 1, j <= k, Together(toCpu', j, k)
               PROVE  session'[toCpu'[k].seq] <= toCpu'[j].seq
    OBVIOUS
  <2>1. CASE k \in 1 .. L
    <3>1. j \in 1 .. L /\ Together(toCpu, j, k) /\ toCpu[k].type = "INPUT"
      BY <1>1, <1>6, <2>1 DEF Together
    <3>2. session[toCpu[k].seq] <= toCpu[j].seq
      BY <2>1, <3>1 DEF SessionInv, Sessions
    <3> QED
      BY <1>2, <1>3, <2>1, <3>1, <3>2
  <2>2. CASE k = L + 1 /\ j \in 1 .. L
    BY <1>2, <1>3, <1>8, <2>2
  <2>3. CASE k = L + 1 /\ j = L + 1
    BY <1>3, <2>3 DEF SessionInv, InOrder
  <2> QED
    BY <1>1, <2>1, <2>2, <2>3
<1>11. \A j \in 1 .. L + 1 : Together(toCpu', j, L + 1) => first' <= toCpu'[j].seq
  BY <1>1, <1>2, <1>3, <1>8 DEF SessionInv, InOrder
<1>12. \A k \in 1 .. L + 1 :
         Together(toCpu', 1, k) => \A x \in Present : session'[toCpu'[k].seq] <= x
  <2> SUFFICES ASSUME NEW k \in 1 .. L + 1, Together(toCpu', 1, k), NEW x \in Present
               PROVE  session'[toCpu'[k].seq] <= x
    OBVIOUS
  <2>1. CASE k \in 1 .. L
    <3>1. Together(toCpu, 1, k) /\ toCpu[k].type = "INPUT"
      BY <1>1, <1>2, <2>1 DEF Together
    <3> QED
      BY <1>2, <1>3, <2>1, <3>1 DEF SessionInv, Sessions
  <2>2. CASE k = L + 1
    BY <1>3, <1>9, <2>2
  <2> QED
    BY <1>1, <2>1, <2>2
<1>13. Sessions'
  BY <1>1, <1>2, <1>3, <1>4, <1>9, <1>10, <1>11, <1>12 DEF SessionInv, Sessions
<1>14. Awaited'
  BY <1>1, <1>2, QueueTypes DEF Awaited
<1> QED
  BY <1>5, <1>13, <1>14 DEF QueueInv

\* A restore keeps what follows it apart from what is queued before it.
LEMMA QueueRestore ==
  ASSUME SessionInv, SendRestore
  PROVE  QueueInv'
<1> DEFINE L == Len(toCpu)
<1>1. /\ toCpu' = Append(toCpu, Msg("RESTORE", 0)) /\ first' = sent + 1
      /\ UNCHANGED <<sent, session, g_msg_buf, clear_next, memory>>
      /\ aflnet' = "restored" /\ L \in Nat
  BY QueueTypes DEF SendRestore, message, effects
<1>2. /\ Len(toCpu') = L + 1 /\ toCpu'[L + 1].type = "RESTORE"
      /\ \A k \in 1 .. L : toCpu'[k] = toCpu[k]
  BY <1>1, QueueTypes, AppendAt, Messages DEF SessionInv, Msg
<1>3. Present' = Present
  BY <1>1 DEF Present
<1>4. InOrder'
  BY <1>1, <1>2, QueueTypes DEF SessionInv, InOrder
<1>5. \A j \in 1 .. L + 1 : ~Together(toCpu', j, L + 1)
  BY <1>1, <1>2 DEF Together
<1>6. \A j, k \in 1 .. L : Together(toCpu', j, k) => Together(toCpu, j, k)
  BY <1>1, <1>2 DEF Together
<1>7. \A j, k \in 1 .. L + 1 : j <= k /\ Together(toCpu', j, k) =>
        j \in 1 .. L /\ k \in 1 .. L /\ Together(toCpu, j, k)
  BY <1>1, <1>5, <1>6
<1>8. \A j, k \in 1 .. L + 1 :
        j <= k /\ Together(toCpu', j, k) => session'[toCpu'[k].seq] <= toCpu'[j].seq
  BY <1>1, <1>2, <1>7 DEF SessionInv, Sessions
<1>9. \A k \in 1 .. L + 1 :
        Together(toCpu', 1, k) => \A x \in Present : session'[toCpu'[k].seq] <= x
  BY <1>1, <1>2, <1>7 DEF SessionInv, Sessions
<1>10. Sessions'
  BY <1>1, <1>2, <1>3, <1>5, <1>8, <1>9 DEF SessionInv, Sessions
<1>11. Awaited'
  BY <1>1 DEF Awaited
<1> QED
  BY <1>4, <1>10, <1>11 DEF QueueInv

\* What taking the head of the queue does to the places behind it.
LEMMA Shifted ==
  ASSUME SessionInv, toCpu # <<>>, toCpu' = Tail(toCpu)
  PROVE  /\ Len(toCpu') = Len(toCpu) - 1 /\ Len(toCpu) \in Nat \ {0}
         /\ Head(toCpu) = toCpu[1]
         /\ \A k \in 1 .. Len(toCpu) - 1 :
              toCpu'[k] = toCpu[k + 1] /\ k + 1 \in 1 .. Len(toCpu)
         /\ \A j, k \in 1 .. Len(toCpu) - 1 : Together(toCpu', j, k) => Together(toCpu, j + 1, k + 1)
<1>1. /\ Len(toCpu') = Len(toCpu) - 1 /\ Len(toCpu) \in Nat \ {0}
      /\ Head(toCpu) = toCpu[1]
      /\ \A k \in 1 .. Len(toCpu) - 1 :
           toCpu'[k] = toCpu[k + 1] /\ k + 1 \in 1 .. Len(toCpu)
  BY QueueTypes, TailAt
<1>2. ASSUME NEW j \in 1 .. Len(toCpu) - 1, NEW k \in 1 .. Len(toCpu) - 1,
             Together(toCpu', j, k), NEW p \in j + 1 .. k + 1
      PROVE  toCpu[p].type = "INPUT"
  <2>1. p - 1 \in j .. k /\ p - 1 \in 1 .. Len(toCpu) - 1
    BY <1>1
  <2>2. toCpu'[p - 1].type = "INPUT" /\ toCpu'[p - 1] = toCpu[(p - 1) + 1]
    BY <1>1, <1>2, <2>1 DEF Together
  <2> QED
    BY <2>1, <2>2
<1> QED
  BY <1>1, <1>2 DEF Together

\* After a restore the next input meets nothing.
LEMMA QueueRestored ==
  ASSUME SessionInv, Restore
  PROVE  QueueInv'
<1> DEFINE L == Len(toCpu)
<1>1. /\ toCpu # <<>> /\ toCpu' = Tail(toCpu) /\ memory' = {} /\ clear_next' = TRUE
      /\ UNCHANGED <<sent, first, session, g_msg_buf, aflnet>>
      /\ Head(toCpu).type = "RESTORE"
  BY DEF Restore, message, peer
<1>2. /\ Len(toCpu') = L - 1 /\ L \in Nat \ {0} /\ toCpu[1].type = "RESTORE"
      /\ \A k \in 1 .. L - 1 : toCpu'[k] = toCpu[k + 1] /\ k + 1 \in 1 .. L
      /\ \A j, k \in 1 .. L - 1 :
           Together(toCpu', j, k) => Together(toCpu, j + 1, k + 1)
  BY <1>1, Shifted
<1>3. Present' = {}
  BY <1>1 DEF Present
<1>4. InOrder'
  <2> DEFINE n == L - 1
  <2>1. n \in Nat /\ Len(toCpu') = n
    BY <1>2
  <2>2. ASSUME NEW k \in 1 .. n, toCpu'[k].type = "INPUT"
        PROVE  g_msg_buf < toCpu'[k].seq /\ toCpu'[k].seq <= sent
    <3>1. k + 1 \in 1 .. L /\ toCpu'[k] = toCpu[k + 1]
      BY <1>2
    <3> QED
      BY <2>2, <3>1 DEF SessionInv, InOrder
  <2>3. ASSUME NEW j \in 1 .. n, NEW k \in 1 .. n, j < k,
               toCpu'[j].type = "INPUT", toCpu'[k].type = "INPUT"
        PROVE  toCpu'[j].seq < toCpu'[k].seq
    <3>1. /\ j + 1 \in 1 .. L /\ toCpu'[j] = toCpu[j + 1]
          /\ k + 1 \in 1 .. L /\ toCpu'[k] = toCpu[k + 1]
      BY <1>2
    <3>2. j + 1 < k + 1
      BY <2>3
    <3> QED
      BY <2>3, <3>1, <3>2 DEF SessionInv, InOrder
  <2>4. g_msg_buf <= sent /\ first <= sent + 1
    BY DEF SessionInv, InOrder
  <2> HIDE DEF n
  <2> QED
    BY <1>1, <2>1, <2>2, <2>3, <2>4 DEF InOrder
<1>5. \A j, k \in 1 .. L - 1 : j <= k /\ Together(toCpu', j, k) =>
        session'[toCpu'[k].seq] <= toCpu'[j].seq
  <2> SUFFICES ASSUME NEW j \in 1 .. L - 1, NEW k \in 1 .. L - 1, j <= k,
                      Together(toCpu', j, k)
               PROVE  session[toCpu[k + 1].seq] <= toCpu[j + 1].seq
    BY <1>1, <1>2
  <2>1. Together(toCpu, j + 1, k + 1) /\ j + 1 <= k + 1
        /\ j + 1 \in 1 .. L /\ k + 1 \in 1 .. L
    BY <1>2
  <2> QED
    BY <2>1 DEF SessionInv, Sessions
<1>6. \A j \in 1 .. L - 1 : Together(toCpu', j, L - 1) => first' <= toCpu'[j].seq
  <2> SUFFICES ASSUME NEW j \in 1 .. L - 1, Together(toCpu', j, L - 1)
               PROVE  first <= toCpu[j + 1].seq
    BY <1>1, <1>2
  <2>1. L - 1 \in 1 .. L - 1 /\ (L - 1) + 1 = L
    BY <1>2
  <2>2. Together(toCpu, j + 1, L)
    BY <1>2, <2>1
  <2> QED
    BY <1>2, <2>2 DEF SessionInv, Sessions
<1>7. Sessions'
  BY <1>1, <1>2, <1>3, <1>5, <1>6 DEF Sessions
<1>8. Awaited'
  <2> SUFFICES ASSUME aflnet = "done"
               PROVE  sent > 0 /\ toCpu' # <<>> /\ toCpu'[Len(toCpu')] = Msg("INPUT", sent)
    BY <1>1 DEF Awaited
  <2>1. sent > 0 /\ toCpu[L] = Msg("INPUT", sent)
    BY <1>1 DEF SessionInv, Awaited
  <2>2. L # 1
    BY <1>2, <2>1 DEF Msg
  <2>3. L - 1 \in 1 .. L - 1 /\ (L - 1) + 1 = L
    BY <1>2, <2>2
  <2>4. toCpu'[L - 1] = toCpu[L] /\ Len(toCpu') # 0
    BY <1>2, <2>3
  <2> QED
    BY <1>2, <2>1, <2>4
<1> QED
  BY <1>4, <1>7, <1>8 DEF QueueInv

\* An input joins the inputs of its session in memory.
LEMMA QueueTaken ==
  ASSUME SessionInv, Input
  PROVE  QueueInv'
<1> DEFINE L == Len(toCpu)
           s == toCpu[1].seq
<1>1. /\ toCpu # <<>> /\ toCpu' = Tail(toCpu) /\ memory' = memory /\ clear_next' = FALSE
      /\ UNCHANGED <<sent, first, session, aflnet>>
      /\ Head(toCpu).type = "INPUT" /\ g_msg_buf' = Head(toCpu).seq
  BY DEF Input, ClearNext, peer
<1>2. /\ Len(toCpu') = L - 1 /\ L \in Nat \ {0} /\ toCpu[1].type = "INPUT"
      /\ \A k \in 1 .. L - 1 : toCpu'[k] = toCpu[k + 1] /\ k + 1 \in 1 .. L
      /\ \A j, k \in 1 .. L - 1 :
           Together(toCpu', j, k) => Together(toCpu, j + 1, k + 1)
      /\ g_msg_buf' = s /\ 1 \in 1 .. L
  BY <1>1, Shifted
<1>3. /\ s \in Inputs /\ s \in Nat /\ g_msg_buf < s /\ g_msg_buf \in Nat
      /\ session[s] \in Nat /\ s <= sent
  BY <1>2, QueueTypes DEF SessionInv, InOrder
<1>4. /\ \A x \in Present' : x = s \/ x \in Present
      /\ \A x \in Present : x \in Nat
  BY <1>1, <1>2, QueueTypes DEF Present
<1>5. InOrder'
  <2> DEFINE n == L - 1
  <2>1. n \in Nat /\ Len(toCpu') = n
    BY <1>2
  <2>2. s <= sent /\ first <= sent + 1
    BY <1>3 DEF SessionInv, InOrder
  <2>3. ASSUME NEW k \in 1 .. n, toCpu'[k].type = "INPUT"
        PROVE  s < toCpu'[k].seq /\ toCpu'[k].seq <= sent
    <3>1. k + 1 \in 1 .. L /\ 1 < k + 1 /\ toCpu'[k] = toCpu[k + 1]
      BY <1>2, <2>1
    <3> QED
      BY <1>2, <2>3, <3>1 DEF SessionInv, InOrder
  <2>4. ASSUME NEW j \in 1 .. n, NEW k \in 1 .. n, j < k,
               toCpu'[j].type = "INPUT", toCpu'[k].type = "INPUT"
        PROVE  toCpu'[j].seq < toCpu'[k].seq
    <3>1. /\ j + 1 \in 1 .. L /\ toCpu'[j] = toCpu[j + 1]
          /\ k + 1 \in 1 .. L /\ toCpu'[k] = toCpu[k + 1]
      BY <1>2
    <3>2. j + 1 < k + 1
      BY <2>4
    <3> QED
      BY <2>4, <3>1, <3>2 DEF SessionInv, InOrder
  <2> HIDE DEF n
  <2> QED
    BY <1>1, <1>2, <2>1, <2>2, <2>3, <2>4 DEF InOrder
<1>6. \A j, k \in 1 .. L - 1 : j <= k /\ Together(toCpu', j, k) =>
        session'[toCpu'[k].seq] <= toCpu'[j].seq
  <2> SUFFICES ASSUME NEW j \in 1 .. L - 1, NEW k \in 1 .. L - 1, j <= k,
                      Together(toCpu', j, k)
               PROVE  session[toCpu[k + 1].seq] <= toCpu[j + 1].seq
    BY <1>1, <1>2
  <2>1. Together(toCpu, j + 1, k + 1) /\ j + 1 <= k + 1
        /\ j + 1 \in 1 .. L /\ k + 1 \in 1 .. L
    BY <1>2
  <2> QED
    BY <2>1 DEF SessionInv, Sessions
<1>7. \A k \in 0 .. L - 1 : Together(toCpu', 1, k) => Together(toCpu, 1, k + 1)
  <2> SUFFICES ASSUME NEW k \in 0 .. L - 1, Together(toCpu', 1, k),
                      NEW p \in 1 .. k + 1, p # 1
               PROVE  toCpu[p].type = "INPUT"
    BY <1>2 DEF Together
  <2>1. p - 1 \in 1 .. k /\ p - 1 \in 1 .. L - 1 /\ (p - 1) + 1 = p
    BY <1>2
  <2>2. toCpu'[p - 1].type = "INPUT" /\ toCpu'[p - 1] = toCpu[(p - 1) + 1]
    BY <1>2, <2>1 DEF Together
  <2> QED
    BY <2>1, <2>2
<1>8. \A j \in 1 .. L - 1 : Together(toCpu', j, L - 1) => first' <= toCpu'[j].seq
  <2> SUFFICES ASSUME NEW j \in 1 .. L - 1, Together(toCpu', j, L - 1)
               PROVE  first <= toCpu[j + 1].seq
    BY <1>1, <1>2
  <2>1. L - 1 \in 1 .. L - 1 /\ (L - 1) + 1 = L
    BY <1>2
  <2>2. Together(toCpu, j + 1, L)
    BY <1>2, <2>1
  <2> QED
    BY <1>2, <2>2 DEF SessionInv, Sessions
<1>9. \A k \in 1 .. L - 1 : Together(toCpu', 1, k) =>
        \A x \in Present' : session'[toCpu'[k].seq] <= x
  <2> SUFFICES ASSUME NEW k \in 1 .. L - 1, Together(toCpu', 1, k), NEW x \in Present'
               PROVE  session[toCpu[k + 1].seq] <= x
    BY <1>1, <1>2
  <2>1. k + 1 \in 1 .. L /\ 1 <= k + 1 /\ Together(toCpu, 1, k + 1)
    BY <1>2, <1>7
  <2>2. session[toCpu[k + 1].seq] <= s
    BY <1>2, <2>1 DEF SessionInv, Sessions
  <2>3. x \in Present => session[toCpu[k + 1].seq] <= x
    BY <2>1 DEF SessionInv, Sessions
  <2> QED
    BY <1>4, <2>2, <2>3
<1>10. Together(toCpu', 1, L - 1) => \A x \in Present' : first' <= x
  <2> SUFFICES ASSUME Together(toCpu', 1, L - 1), NEW x \in Present'
               PROVE  first <= x
    BY <1>1
  <2>1. Together(toCpu, 1, L)
    <3>1. L - 1 \in 0 .. L - 1 /\ (L - 1) + 1 = L
      BY <1>2
    <3>2. Together(toCpu, 1, (L - 1) + 1)
      BY <1>7, <3>1
    <3> QED
      BY <3>1, <3>2
  <2>2. first <= s /\ (x \in Present => first <= x)
    BY <1>2, <2>1 DEF SessionInv, Sessions
  <2> QED
    BY <1>4, <2>2
<1>11. \A x \in Present' : session'[s] <= x
  <2>1. Together(toCpu, 1, 1)
    BY <1>2 DEF Together
  <2>2. session[s] <= s /\ \A x \in Present : session[s] <= x
    BY <1>2, <2>1 DEF SessionInv, Sessions
  <2> QED
    BY <1>1, <1>4, <2>2
<1>12. \A x \in Present' : 0 < x /\ x <= s
  BY <1>3, <1>4 DEF SessionInv, Sessions, Inputs
<1>13. Sessions'
  BY <1>1, <1>2, <1>6, <1>8, <1>9, <1>10, <1>11, <1>12 DEF Sessions
<1>14. Awaited'
  <2> SUFFICES ASSUME aflnet = "done"
               PROVE  /\ sent > 0
                      /\ \/ toCpu' # <<>> /\ toCpu'[Len(toCpu')] = Msg("INPUT", sent)
                         \/ toCpu' = <<>> /\ s = sent
    BY <1>1, <1>2 DEF Awaited
  <2>1. sent > 0 /\ toCpu[L] = Msg("INPUT", sent)
    BY <1>1 DEF SessionInv, Awaited
  <2>2. CASE L = 1
    <3>1. s = sent
      BY <2>1, <2>2 DEF Msg
    <3>2. toCpu' = <<>>
      BY <1>1, <1>2, <2>2, QueueTypes
    <3> QED
      BY <2>1, <3>1, <3>2
  <2>3. CASE L # 1
    <3>1. L - 1 \in 1 .. L - 1 /\ (L - 1) + 1 = L
      BY <1>2, <2>3
    <3>2. toCpu'[L - 1] = toCpu[L] /\ Len(toCpu') # 0
      BY <1>2, <3>1
    <3> QED
      BY <1>2, <2>1, <3>2
  <2> QED
    BY <2>2, <2>3
<1> QED
  BY <1>5, <1>13, <1>14 DEF QueueInv

-----------------------------------------------------------------------------
(* The theorems.                                                           *)

LEMMA SessionInitially == Init => SessionInv
<1> SUFFICES ASSUME Init PROVE SessionInv
  OBVIOUS
<1>1. Queues /\ Len(toCpu) = 0 /\ Len(toAflnet) = 0
  BY DEF Init, Queues
<1>2. gave_up \in BOOLEAN /\ fuzz_snap_initialized \in BOOLEAN /\ clear_next \in BOOLEAN
  BY DEF Init
<1>3. TypeOK
  BY <1>1, <1>2, AflnetAssumption DEF Init, TypeOK, Inputs
<1>4. Active /\ Answers
  BY <1>1 DEF Init, Active, Answers
<1>5. Present = {}
  BY DEF Init, Present
<1>6. InOrder /\ Sessions /\ Awaited
  BY <1>1, <1>5 DEF Init, InOrder, Sessions, Awaited
<1> QED
  BY <1>1, <1>3, <1>4, <1>6 DEF SessionInv

\* The sessions stay apart in the queue, in memory and in the coverage.
THEOREM SessionAlways == Spec => []SessionInv
<1>1. SessionInv /\ [Next]_vars => SessionInv'
  <2> SUFFICES ASSUME SessionInv, [Next]_vars PROVE SessionInv'
    OBVIOUS
  <2>1. Queues' /\ TypeOK'
    BY QueuesStep, TypesStep
  <2>2. Active'
    BY <2>1, ActiveStep
  <2>3. Answers'
    BY <2>1, <2>2, AnswersStep
  <2>4. QueueInv'
    BY QueueKept, QueueInput, QueueRestore, QueueRestored, QueueTaken
       DEF Next, Peer, Hook, Firmware
  <2> QED
    BY <2>1, <2>2, <2>3, <2>4 DEF SessionInv, QueueInv
<1> QED
  BY <1>1, SessionInitially, PTL DEF Spec

\* Every variable keeps its range (fuzz.c, fuzz_aflnet.c and its two sockets).
THEOREM AflnetTypeOK == Spec => []TypeOK
<1>1. SessionInv => TypeOK
  BY DEF SessionInv
<1> QED
  BY <1>1, SessionAlways, PTL

\* The firmware runs an input over the memory and the coverage of earlier inputs
\* of its session only: fuzz_sync_point restores before anything else is taken.
THEOREM OwnSession == Spec => []RunsInItsSession
<1>1. SessionInv => RunsInItsSession
  <2> SUFFICES ASSUME SessionInv, InFirmware, g_msg_buf # 0, NEW x \in memory \cup CVG
               PROVE  x \in session[g_msg_buf] .. g_msg_buf
    BY DEF RunsInItsSession, InFirmware
  <2>1. clear_next = FALSE /\ CVG = memory
    BY DEF SessionInv, Active, TypeOK
  <2>2. x \in Present /\ x \in Nat /\ g_msg_buf \in Nat
    BY <2>1, QueueTypes DEF Present
  <2>3. g_msg_buf \in Inputs
    BY AflnetAssumption DEF SessionInv, TypeOK, Inputs
  <2>4. session[g_msg_buf] \in Nat
    <3>1. session[g_msg_buf] \in Inputs
      BY <2>3, QueueTypes
    <3> QED
      BY <3>1 DEF Inputs
  <2> QED
    BY <2>1, <2>2, <2>3, <2>4 DEF SessionInv, Sessions
<1> QED
  BY <1>1, SessionAlways, PTL

\* When AFLNet takes the DONE of its input the coverage is complete and still.
THEOREM DoneFreezes == Spec => []DoneFreezesCoverage
<1>1. SessionInv => DoneFreezesCoverage
  <2> SUFFICES ASSUME SessionInv, aflnet = "done", Contains(toAflnet, Msg("DONE", sent))
               PROVE  ~InFirmware /\ CVG = memory /\ CVG \subseteq first .. sent
    BY DEF DoneFreezesCoverage, InFirmware
  <2>1. sent \in answered
    BY DEF Contains, Msg, SessionInv, Answers
  <2>2. sent \in Nat /\ g_msg_buf \in Nat /\ sent <= g_msg_buf /\ g_msg_buf <= sent
    BY <2>1, QueueTypes DEF SessionInv, Answers, InOrder
  <2>3. g_msg_buf = sent /\ sent # 0
    BY <2>2 DEF SessionInv, Awaited
  <2>4. ~InFirmware
    BY <2>1, <2>3 DEF SessionInv, Active
  <2>5. toCpu = <<>> /\ clear_next = FALSE
    <3>1. ~(toCpu # <<>> /\ toCpu[Len(toCpu)] = Msg("INPUT", sent))
      <4> SUFFICES ASSUME toCpu # <<>>, toCpu[Len(toCpu)] = Msg("INPUT", sent) PROVE FALSE
        OBVIOUS
      <4>1. Len(toCpu) \in 1 .. Len(toCpu)
        BY QueueTypes
      <4>2. toCpu[Len(toCpu)].type = "INPUT" /\ toCpu[Len(toCpu)].seq = sent
        BY DEF Msg
      <4> QED
        BY <2>2, <2>3, <4>1, <4>2 DEF SessionInv, InOrder
    <3> QED
      BY <3>1 DEF SessionInv, Awaited
  <2>6. fuzz_snap_initialized = TRUE /\ CVG = memory
    BY <2>3, <2>5 DEF SessionInv, Active, TypeOK
  <2>7. Together(toCpu, 1, Len(toCpu))
    BY <2>5 DEF Together
  <2>8. \A x \in CVG : x \in Nat /\ first <= x /\ x <= sent
    BY <2>3, <2>6, <2>7, QueueTypes DEF SessionInv, Sessions, Present
  <2> QED
    BY <2>2, <2>4, <2>6, <2>8, QueueTypes
<1> QED
  BY <1>1, SessionAlways, PTL

\* complete_previous_message reports an input that a hook has taken, or that
\* faulted.
THEOREM DoneIsTaken == Spec => []DoneMeansTaken
<1>1. SessionInv => DoneMeansTaken
  BY DEF SessionInv, Answers, DoneMeansTaken
<1> QED
  BY <1>1, SessionAlways, PTL

\* Nothing is written under the number of an input that was answered.
THEOREM NothingIsLate == Spec => NothingAfterDone
<1>1. ASSUME SessionInv, [Next]_vars, Len(toAflnet') > Len(toAflnet)
      PROVE  Last(toAflnet').seq \notin answered
  <2>1. toAflnet \in Seq(ToAflnet) /\ Len(toAflnet) \in Nat
    BY <1>1 DEF SessionInv, Queues
  <2>2. ~(toAflnet # <<>> /\ toAflnet' = Tail(toAflnet)) /\ toAflnet' # toAflnet
    BY <1>1, <2>1, TailAt
  <2>3. PICK m \in ToAflnet : toAflnet' = Send(toAflnet, m)
                              /\ (m.seq = g_active_seq \/ m.seq = 0)
    BY <1>1, <2>2, Written
  <2>4. Last(toAflnet') = m
    BY <1>1, <2>3, SendAt DEF SessionInv
  <2>5. 0 \notin answered /\ g_active_seq \notin answered
    BY <1>1, QueueTypes DEF SessionInv, Answers, Active
  <2> QED
    BY <2>3, <2>4, <2>5
<1>2. SessionInv /\ [Next]_vars =>
        [Len(toAflnet') > Len(toAflnet) => Last(toAflnet').seq \notin answered]_vars
  BY <1>1
<1> QED
  BY <1>2, SessionAlways, PTL DEF Spec, NothingAfterDone
=============================================================================
