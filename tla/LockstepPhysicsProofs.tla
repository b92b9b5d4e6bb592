----------------------- MODULE LockstepPhysicsProofs ------------------------
(***************************************************************************)
(* The shared clock, for every tick, tolerance and buffer size and any      *)
(* number of datagrams lost and answers late.                               *)
(***************************************************************************)
EXTENDS LockstepPhysics, TLAPS

-----------------------------------------------------------------------------
(* The invariant.                                                          *)

\* The times of a queue ascend, strictly or not.
Ascends(q) == \A j, k \in 1 .. Len(q) : j < k => q[j] < q[k]
Rises(q)   == \A j, k \in 1 .. Len(q) : j <= k => q[j] <= q[k]

Waiting == stepper \in {"sent", "receive"}
Holding == stepper \in {"store", "time"}

Shape ==
  /\ backend \in {"fmu", "gazebo"}
  /\ now \in 0 .. MaxTime /\ runUntil \in 0 .. MaxTime
  /\ lastSeen \in 0 .. MaxTime \cup {None} /\ asked \in 0 .. MaxTime \cup {None}
  /\ requests \in Seq(0 .. MaxTime) /\ handlers \subseteq 0 .. MaxTime
  /\ latest \in Nat /\ simTime \in Nat /\ response \in Nat /\ lastResponse \in Nat
  /\ stepper \in {"check", "sent", "receive", "store", "time", "sample"}
  /\ initial \in BOOLEAN
  /\ buffer \in Seq(Nat) /\ Len(buffer) <= Capacity
  /\ batch = <<>> \/ batch \in [1 .. Batch -> Nat]
  /\ frames \in Nat /\ answers \in Seq(Nat)
  /\ lost \in 0 .. MaxLost /\ late \in 0 .. MaxLate /\ timeouts \in Nat

\* The requests under way are ascending, and none is older than the target.
Requests ==
  /\ runUntil <= now
  /\ \A k \in 1 .. Len(requests) : runUntil <= requests[k] /\ requests[k] <= now
  /\ Rises(requests)
  /\ \A t \in handlers : t <= runUntil

\* The answers are newer than what the service has, in the order of time.
Answers ==
  /\ latest <= simTime /\ response <= simTime /\ lastResponse <= simTime
  /\ \A k \in 1 .. Len(answers) : latest < answers[k] /\ answers[k] <= simTime
  /\ Ascends(answers)
  /\ Holding => latest < response
                /\ \A k \in 1 .. Len(answers) : response < answers[k]
  /\ stepper = "sample" => response = latest

\* Every cycle of the stepper sends one frame and takes one answer, or counts a
\* timeout: what is under way and what was lost are the timeouts.
Traffic ==
  /\ frames + Len(answers) + lost = IF Waiting THEN timeouts + 1 ELSE timeouts
  /\ frames + Len(answers) <= IF Waiting THEN late + 1 ELSE late

\* The engine is ahead of what the service knows by the timeouts and the frame
\* the stepper waits for.
Ahead ==
  /\ initial = TRUE => latest = 0 /\ timeouts = 0
  /\ backend = "fmu" => /\ simTime <= now /\ frames = 0 /\ stepper = "check"
                        /\ latest = 0 /\ requests = <<>>
  /\ backend = "gazebo" =>
       /\ Waiting => simTime + frames <= latest + timeouts + 1
       /\ Holding => simTime + frames <= response + timeouts
       /\ ~Waiting /\ ~Holding => simTime + frames <= latest + timeouts
       /\ \/ simTime + frames <= 1 + timeouts
          \/ simTime + frames <= runUntil + timeouts

ClockInv == Shape /\ Requests /\ Answers /\ Traffic /\ Ahead

\* The samples are ascending, and none is older than the firmware's last batch.
Samples ==
  /\ \A k \in 1 .. Len(buffer) : buffer[k] <= latest
  /\ Rises(buffer)
  /\ batch # <<>> => /\ buffer # <<>>
                     /\ \A k \in 1 .. Batch :
                          batch[k] <= buffer[IF k <= Len(buffer) THEN k ELSE Len(buffer)]

-----------------------------------------------------------------------------
(* The queues.                                                             *)

LEMMA AppendAt ==
  ASSUME NEW S, NEW q \in Seq(S), NEW m \in S
  PROVE  /\ Append(q, m) \in Seq(S) /\ Len(Append(q, m)) = Len(q) + 1 /\ Len(q) \in Nat
         /\ Append(q, m)[Len(q) + 1] = m
         /\ \A k \in 1 .. Len(q) : Append(q, m)[k] = q[k] /\ q[k] \in S
OBVIOUS

LEMMA TailAt ==
  ASSUME NEW S, NEW q \in Seq(S), q # <<>>
  PROVE  /\ Tail(q) \in Seq(S) /\ Len(Tail(q)) = Len(q) - 1 /\ Len(q) \in Nat
         /\ Len(q) > 0 /\ Head(q) = q[1] /\ 1 \in 1 .. Len(q) /\ Head(q) \in S
         /\ \A k \in 1 .. Len(q) - 1 :
              Tail(q)[k] = q[k + 1] /\ k + 1 \in 1 .. Len(q) /\ q[k + 1] \in S
OBVIOUS

LEMMA FrontAt ==
  ASSUME NEW S, NEW q \in Seq(S), q # <<>>
  PROVE  /\ Front(q) \in Seq(S) /\ Len(Front(q)) = Len(q) - 1 /\ Len(q) \in Nat /\ Len(q) > 0
         /\ \A k \in 1 .. Len(q) - 1 : Front(q)[k] = q[k] /\ k \in 1 .. Len(q)
<1>1. Len(q) \in Nat /\ Len(q) > 0
  OBVIOUS
<1>2. Len(q) - 1 \in Nat
  BY <1>1
<1>3. \A k \in 1 .. Len(q) - 1 : k \in 1 .. Len(q) /\ q[k] \in S
  BY <1>1
<1>4. \A n \in Nat : n <= Len(q) =>
        /\ Len(SubSeq(q, 1, n)) = n /\ SubSeq(q, 1, n) \in Seq(S)
        /\ \A k \in 1 .. n : SubSeq(q, 1, n)[k] = q[k]
  OBVIOUS
<1> DEFINE n == Len(q) - 1
<1>5. n \in Nat /\ n <= Len(q) /\ Front(q) = SubSeq(q, 1, n)
  BY <1>1, <1>2 DEF Front
<1> HIDE DEF n
<1>6. Len(Front(q)) = n /\ Front(q) \in Seq(S) /\ \A k \in 1 .. n : Front(q)[k] = q[k]
  BY <1>4, <1>5
<1> QED
  BY <1>1, <1>3, <1>6 DEF n

\* An ascending queue stays ascending, strictly or not, at either end.
LEMMA AppendAscends ==
  ASSUME NEW q \in Seq(Nat), NEW m \in Nat
  PROVE  /\ Ascends(q) /\ (\A k \in 1 .. Len(q) : q[k] < m) => Ascends(Append(q, m))
         /\ Rises(q) /\ (\A k \in 1 .. Len(q) : q[k] <= m) => Rises(Append(q, m))
<1>1. /\ Append(q, m) \in Seq(Nat) /\ Len(Append(q, m)) = Len(q) + 1 /\ Len(q) \in Nat
      /\ Append(q, m)[Len(q) + 1] = m
      /\ \A k \in 1 .. Len(q) : Append(q, m)[k] = q[k] /\ q[k] \in Nat
  BY AppendAt
<1>2. \A k \in 1 .. Len(q) + 1 : k \in 1 .. Len(q) \/ k = Len(q) + 1
  BY <1>1
<1> DEFINE a == Append(q, m)
<1> HIDE DEF a
<1> QED
  BY <1>1, <1>2 DEF Ascends, Rises

LEMMA TailAscends ==
  ASSUME NEW q \in Seq(Nat), q # <<>>
  PROVE  /\ Ascends(q) => Ascends(Tail(q)) /\ \A k \in 1 .. Len(Tail(q)) : q[1] < Tail(q)[k]
         /\ Rises(q) => Rises(Tail(q)) /\ \A k \in 1 .. Len(Tail(q)) : q[1] <= Tail(q)[k]
<1>1. /\ Len(Tail(q)) = Len(q) - 1 /\ Len(q) \in Nat /\ 1 \in 1 .. Len(q)
      /\ \A k \in 1 .. Len(q) - 1 :
           Tail(q)[k] = q[k + 1] /\ k + 1 \in 1 .. Len(q) /\ q[k + 1] \in Nat
  BY TailAt
<1> DEFINE t == Tail(q)
<1>2. \A j, k \in 1 .. Len(t) : (j < k => j + 1 < k + 1) /\ (j <= k => j + 1 <= k + 1)
                                /\ 1 < k + 1
  BY <1>1
<1> HIDE DEF t
<1> QED
  BY <1>1, <1>2 DEF Ascends, Rises, t

LEMMA FrontRises ==
  ASSUME NEW q \in Seq(Nat), q # <<>>, Rises(q)
  PROVE  Rises(Front(q))
BY FrontAt DEF Rises

\* The queues hold times, and the rest are numbers.
LEMMA Queued ==
  ASSUME Shape
  PROVE  /\ requests \in Seq(Nat) /\ answers \in Seq(Nat) /\ buffer \in Seq(Nat)
         /\ \A k \in 1 .. Len(requests) : requests[k] \in Nat
         /\ \A k \in 1 .. Len(answers) : answers[k] \in Nat
         /\ \A k \in 1 .. Len(buffer) : buffer[k] \in Nat
         /\ Len(requests) \in Nat /\ Len(answers) \in Nat /\ Len(buffer) \in Nat
<1>1. requests \in Seq(0 .. MaxTime) /\ MaxTime \in Nat
  BY ClockAssumption DEF Shape
<1>2. requests \in Seq(Nat)
  BY <1>1
<1>3. answers \in Seq(Nat) /\ buffer \in Seq(Nat)
  BY DEF Shape
<1>4. \A q \in Seq(Nat) : Len(q) \in Nat /\ \A k \in 1 .. Len(q) : q[k] \in Nat
  OBVIOUS
<1> QED
  BY <1>2, <1>3, <1>4

LEMMA Constants ==
  /\ Period \in Nat /\ Period > 0 /\ Capacity \in Nat /\ Capacity > 0
  /\ Batch \in Nat /\ Batch > 0 /\ MaxTime \in Nat /\ MaxTime > 0
  /\ Tolerance \in Nat /\ MaxLost \in Nat /\ MaxLate \in Nat
BY ClockAssumption

LEMMA Numbers ==
  ASSUME Shape
  PROVE  /\ now \in Nat /\ runUntil \in Nat /\ latest \in Nat /\ simTime \in Nat
         /\ response \in Nat /\ lastResponse \in Nat /\ frames \in Nat
         /\ lost \in Nat /\ late \in Nat /\ timeouts \in Nat
         /\ lost \in 0 .. MaxLost /\ late \in 0 .. MaxLate /\ now \in 0 .. MaxTime
BY Constants DEF Shape

-----------------------------------------------------------------------------
(* The steps of the invariant.                                             *)

\* The oldest samples make room; the buffer never exceeds its capacity.
LEMMA PushedAt ==
  ASSUME Shape, NEW m \in Nat
  PROVE  /\ Pushed(m) \in Seq(Nat) /\ Len(Pushed(m)) <= Capacity /\ Len(Pushed(m)) > 0
         /\ Pushed(m)[Len(Pushed(m))] = m
         /\ \/ /\ Len(buffer) = Capacity /\ Len(Pushed(m)) = Len(buffer)
               /\ \A k \in 1 .. Len(buffer) - 1 :
                    k + 1 \in 1 .. Len(buffer) /\ Pushed(m)[k] = buffer[k + 1]
            \/ /\ Len(Pushed(m)) = Len(buffer) + 1
               /\ \A k \in 1 .. Len(buffer) : Pushed(m)[k] = buffer[k]
         /\ Rises(buffer) /\ (\A k \in 1 .. Len(buffer) : buffer[k] <= m) => Rises(Pushed(m))
<1>1. /\ buffer \in Seq(Nat) /\ Len(buffer) \in Nat /\ Len(buffer) <= Capacity
      /\ Capacity \in Nat /\ Capacity > 0
  BY Queued, Constants DEF Shape
<1>2. CASE Len(buffer) = Capacity
  <2>1. buffer # <<>>
    BY <1>1, <1>2
  <2>2. /\ Tail(buffer) \in Seq(Nat) /\ Len(Tail(buffer)) = Len(buffer) - 1
        /\ \A k \in 1 .. Len(buffer) - 1 :
             /\ Tail(buffer)[k] = buffer[k + 1] /\ k + 1 \in 1 .. Len(buffer)
             /\ buffer[k + 1] \in Nat
    BY <1>1, <2>1, TailAt
  <2> DEFINE t == Tail(buffer)
  <2>3. t \in Seq(Nat) /\ Len(t) = Len(buffer) - 1
    BY <2>2
  <2>4. /\ Append(t, m) \in Seq(Nat) /\ Len(Append(t, m)) = Len(t) + 1
        /\ Append(t, m)[Len(t) + 1] = m
        /\ \A k \in 1 .. Len(t) : Append(t, m)[k] = t[k]
    BY <2>3, AppendAt
  <2>5. Pushed(m) = Append(t, m) /\ Len(Pushed(m)) = Len(buffer)
    BY <1>1, <1>2, <2>2, <2>3, <2>4 DEF Pushed
  <2>6. Rises(buffer) => Rises(t)
    BY <1>1, <2>1, TailAscends
  <2>7. (\A k \in 1 .. Len(buffer) : buffer[k] <= m) => \A k \in 1 .. Len(t) : t[k] <= m
    BY <2>2, <2>3
  <2>8. Rises(t) /\ (\A k \in 1 .. Len(t) : t[k] <= m) => Rises(Append(t, m))
    BY <2>3, AppendAscends
  <2>9. /\ \A k \in 1 .. Len(buffer) - 1 :
             k + 1 \in 1 .. Len(buffer) /\ Pushed(m)[k] = buffer[k + 1]
        /\ Pushed(m)[Len(Pushed(m))] = m
    <3>1. Len(t) + 1 = Len(buffer)
      BY <1>1, <2>3
    <3> QED
      BY <2>2, <2>3, <2>4, <2>5, <3>1
  <2> HIDE DEF t
  <2> QED
    BY <1>1, <1>2, <2>4, <2>5, <2>6, <2>7, <2>8, <2>9
<1>3. CASE Len(buffer) # Capacity
  <2>1. /\ Append(buffer, m) \in Seq(Nat) /\ Len(Append(buffer, m)) = Len(buffer) + 1
        /\ Append(buffer, m)[Len(buffer) + 1] = m
        /\ \A k \in 1 .. Len(buffer) : Append(buffer, m)[k] = buffer[k]
    BY <1>1, AppendAt
  <2>2. Rises(buffer) /\ (\A k \in 1 .. Len(buffer) : buffer[k] <= m)
          => Rises(Append(buffer, m))
    BY <1>1, AppendAscends
  <2>3. Pushed(m) = Append(buffer, m)
    BY <1>3 DEF Pushed
  <2> QED
    BY <1>1, <1>3, <2>1, <2>2, <2>3
<1> QED
  BY <1>2, <1>3

\* What the firmware takes of the buffer.
LEMMA BatchIs ==
  ASSUME Shape, buffer # <<>>
  PROVE  /\ FirmwareBatch \in [1 .. Batch -> Nat]
         /\ \A k \in 1 .. Batch :
              FirmwareBatch[k] = buffer[IF k <= Len(buffer) THEN k ELSE Len(buffer)]
<1>1. /\ Len(buffer) \in Nat /\ Len(buffer) > 0 /\ Batch \in Nat
      /\ \A k \in 1 .. Len(buffer) : buffer[k] \in Nat
  BY Queued, Constants
<1>2. ASSUME NEW a \in Nat, NEW b \in Nat
      PROVE  Min({a, b}) = IF a <= b THEN a ELSE b
  <2> DEFINE P(x) == x \in {a, b} /\ \A y \in {a, b} : x =< y
  <2>1. P(IF a <= b THEN a ELSE b)
    OBVIOUS
  <2>2. P(CHOOSE x : P(x))
    BY <2>1
  <2>3. Min({a, b}) = CHOOSE x : P(x)
    BY DEF Min
  <2>4. P(Min({a, b}))
    BY <2>2, <2>3
  <2> DEFINE m == Min({a, b})
  <2>5. m \in {a, b} /\ m <= a /\ m <= b
    BY <2>4
  <2> HIDE DEF m
  <2>6. m = IF a <= b THEN a ELSE b
    BY <2>5
  <2> QED
    BY <2>6 DEF m
<1>3. \A k \in 1 .. Batch : /\ Min({k, Len(buffer)}) = IF k <= Len(buffer) THEN k ELSE Len(buffer)
                            /\ Min({k, Len(buffer)}) \in 1 .. Len(buffer)
  <2> TAKE k \in 1 .. Batch
  <2>1. k \in Nat /\ k > 0
    BY <1>1
  <2>2. Min({k, Len(buffer)}) = IF k <= Len(buffer) THEN k ELSE Len(buffer)
    BY <1>1, <1>2, <2>1
  <2> QED
    BY <1>1, <2>1, <2>2
<1> QED
  BY <1>1, <1>3 DEF FirmwareBatch

\* What a step does to the requests, and to the answers.
LEMMA RequestsMove ==
  ASSUME ClockInv, [Next]_vars
  PROVE  \/ UNCHANGED requests
         \/ Ask /\ requests' = Append(requests, now)
         \/ AskTimesOut /\ requests # <<>> /\ requests' = Front(requests)
         \/ HandleRequest /\ requests # <<>> /\ requests' = Tail(requests)
<1>1. CASE Ask \/ AskTimesOut \/ HandleRequest
  BY <1>1 DEF Ask, AskTimesOut, HandleRequest, Undelivered
<1>2. CASE KickIrq \/ ReadImu \/ SimStep \/ Lose \/ UNCHANGED vars
  BY <1>2 DEF KickIrq, ReadImu, SimStep, Lose, vars, calls
<1>3. CASE Stepper
  BY <1>3 DEF Stepper, SendServos, StartReceive, Receive, ReceiveTimesOut, StoreResponse,
              PublishTime, PushSample, calls
<1>4. ASSUME NEW t \in handlers, AnswerRequest(t)
      PROVE  UNCHANGED requests
  BY <1>4 DEF AnswerRequest
<1> QED
  BY <1>1, <1>2, <1>3, <1>4 DEF Next

LEMMA AnswersMove ==
  ASSUME ClockInv, [Next]_vars
  PROVE  \/ UNCHANGED answers
         \/ SimStep /\ answers' = Append(answers, simTime + 1)
         \/ (Receive \/ Lose) /\ answers # <<>> /\ answers' = Tail(answers)
<1>1. CASE SimStep \/ Receive \/ Lose
  BY <1>1 DEF SimStep, Receive, Lose
<1>2. CASE KickIrq \/ Ask \/ AskTimesOut \/ HandleRequest \/ ReadImu \/ UNCHANGED vars
  BY <1>2 DEF KickIrq, Ask, AskTimesOut, HandleRequest, ReadImu, vars, net
<1>3. CASE SendServos \/ StartReceive \/ ReceiveTimesOut \/ StoreResponse \/ PublishTime
           \/ PushSample
  BY <1>3 DEF SendServos, StartReceive, ReceiveTimesOut, StoreResponse, PublishTime,
              PushSample, net
<1>4. ASSUME NEW t \in handlers, AnswerRequest(t)
      PROVE  UNCHANGED answers
  BY <1>4 DEF AnswerRequest, net
<1> QED
  BY <1>1, <1>2, <1>3, <1>4 DEF Next, Stepper

\* Every variable keeps its range.
LEMMA ShapeStep ==
  ASSUME ClockInv, [Next]_vars
  PROVE  Shape'
<1>0. Shape /\ Requests /\ Answers /\ Traffic /\ Ahead
  BY DEF ClockInv
<1> USE <1>0
<1>1. requests' \in Seq(0 .. MaxTime)
  <2>1. requests \in Seq(0 .. MaxTime) /\ now \in 0 .. MaxTime
    BY DEF Shape
  <2>2. Append(requests, now) \in Seq(0 .. MaxTime)
    BY <2>1, AppendAt
  <2>3. requests # <<>> => /\ Tail(requests) \in Seq(0 .. MaxTime)
                           /\ Front(requests) \in Seq(0 .. MaxTime)
    BY <2>1, TailAt, FrontAt
  <2> QED
    BY <2>1, <2>2, <2>3, RequestsMove
<1>2. answers' \in Seq(Nat)
  <2>1. answers \in Seq(Nat) /\ simTime + 1 \in Nat
    <3>1. answers \in Seq(Nat)
      BY Queued
    <3>2. simTime \in Nat
      BY Numbers
    <3> QED
      BY <3>1, <3>2
  <2>2. Append(answers, simTime + 1) \in Seq(Nat)
    BY <2>1, AppendAt
  <2>3. answers # <<>> => Tail(answers) \in Seq(Nat)
    BY <2>1, TailAt
  <2> QED
    BY <2>1, <2>2, <2>3, AnswersMove
<1>3. CASE KickIrq
  <2>1. now' \in 0 .. MaxTime
    BY <1>3, Numbers, Constants DEF KickIrq
  <2>2. simTime' \in Nat
    BY <1>3, <2>1, Numbers, Constants DEF KickIrq, FmuReaches
  <2> QED
    BY <1>1, <1>2, <1>3, <2>1, <2>2 DEF Shape, KickIrq, catch, calls, thread, net, counts
<1>4. CASE Ask
  BY <1>1, <1>2, <1>4 DEF Shape, Ask, board, thread, net, counts
<1>5. CASE AskTimesOut
  BY <1>1, <1>2, <1>5 DEF Shape, AskTimesOut, board, thread, net, counts
<1>6. CASE HandleRequest
  <2>1. Head(requests) \in 0 .. MaxTime
    <3>1. requests \in Seq(0 .. MaxTime) /\ requests # <<>>
      BY <1>6 DEF HandleRequest, Shape
    <3> QED
      BY <3>1, TailAt
  <2> QED
    BY <1>1, <1>2, <1>6, <2>1 DEF Shape, HandleRequest, board, catch, thread, net, counts
<1>7. ASSUME NEW t \in handlers, AnswerRequest(t)
      PROVE  Shape'
  BY <1>1, <1>2, <1>7 DEF Shape, AnswerRequest, board, catch, thread, net, counts
<1>8. CASE SendServos
  BY <1>1, <1>2, <1>8 DEF Shape, SendServos, board, catch, calls, counts
<1>9. CASE StartReceive
  BY <1>1, <1>2, <1>9 DEF Shape, StartReceive, board, catch, calls, net, counts
<1>10. CASE Receive
  <2>1. Head(answers) \in Nat
    BY <1>10, TailAt, Numbers, Queued, Constants DEF Receive
  <2> QED
    BY <1>1, <1>2, <1>10, <2>1 DEF Shape, Receive, board, catch, calls, counts
<1>11. CASE ReceiveTimesOut
  <2>1. late' \in 0 .. MaxLate
    <3>1. late \in 0 .. MaxLate /\ MaxLate \in Nat
      BY Numbers, Queued, Constants DEF Shape
    <3> QED
      BY <1>11, <3>1 DEF ReceiveTimesOut
  <2>2. timeouts' \in Nat
    BY <1>11, Numbers DEF ReceiveTimesOut
  <2> QED
    BY <1>1, <1>2, <1>11, <2>1, <2>2 DEF Shape, ReceiveTimesOut, board, catch, calls, net
<1>12. CASE StoreResponse
  BY <1>1, <1>2, <1>12 DEF Shape, StoreResponse, board, catch, calls, net, counts
<1>13. CASE PublishTime
  <2>1. initial' \in BOOLEAN /\ stepper' \in {"check", "sample"}
    BY <1>13 DEF PublishTime
  <2> QED
    BY <1>1, <1>2, <1>13, <2>1 DEF Shape, PublishTime, board, catch, calls, net, counts
<1>14. CASE PushSample
  <2>1. Pushed(response) \in Seq(Nat) /\ Len(Pushed(response)) <= Capacity
    BY PushedAt, Numbers, Queued, Constants
  <2> QED
    BY <1>1, <1>2, <1>14, <2>1
       DEF Shape, PushSample, NoResponse, board, catch, calls, net, counts
<1>15. CASE ReadImu
  <2>1. batch' \in [1 .. Batch -> Nat]
    BY <1>15, BatchIs DEF ReadImu
  <2> QED
    BY <1>1, <1>2, <1>15, <2>1 DEF Shape, ReadImu, board, catch, calls, thread, net, counts
<1>16. CASE SimStep
  BY <1>1, <1>2, <1>16 DEF Shape, SimStep, board, catch, calls, thread, counts
<1>17. CASE Lose
  <2>1. lost' \in 0 .. MaxLost
    <3>1. lost \in Nat /\ MaxLost \in Nat
      BY Numbers, Constants
    <3>2. lost < MaxLost /\ lost' = lost + 1
      BY <1>17 DEF Lose
    <3> QED
      BY <3>1, <3>2
  <2>2. frames' \in Nat
    <3>1. frames \in Nat
      BY Numbers
    <3>2. \/ frames > 0 /\ frames' = frames - 1
          \/ frames' = frames
      BY <1>17 DEF Lose
    <3> QED
      BY <3>1, <3>2
  <2> QED
    BY <1>1, <1>2, <1>17, <2>1, <2>2 DEF Shape, Lose, board, catch, calls, thread, counts
<1>18. CASE UNCHANGED vars
  BY <1>18 DEF Shape, vars, board, catch, calls, thread, net, counts
<1> QED
  BY <1>3, <1>4, <1>5, <1>6, <1>7, <1>8, <1>9, <1>10, <1>11, <1>12, <1>13, <1>14, <1>15,
     <1>16, <1>17, <1>18 DEF Next, Stepper

\* The board only asks for the time it has reached, so the target only grows.
LEMMA RequestsStep ==
  ASSUME ClockInv, [Next]_vars
  PROVE  Requests' /\ runUntil <= runUntil' /\ now <= now'
<1>0. Shape /\ Requests /\ Answers /\ Traffic /\ Ahead
  BY DEF ClockInv
<1> USE <1>0
<1>1. /\ runUntil <= now /\ Rises(requests)
      /\ \A k \in 1 .. Len(requests) : runUntil <= requests[k] /\ requests[k] <= now
      /\ \A t \in handlers : t <= runUntil
      /\ \A t \in handlers : t \in Nat
      /\ requests \in Seq(Nat) /\ Len(requests) \in Nat
      /\ \A k \in 1 .. Len(requests) : requests[k] \in Nat
      /\ now \in Nat /\ runUntil \in Nat /\ Period \in Nat
  BY Numbers, Queued, Constants DEF Requests, Shape
<1>2. CASE KickIrq
  BY <1>1, <1>2 DEF Requests, KickIrq, calls
<1>3. CASE Ask
  <2>1. requests' = Append(requests, now) /\ UNCHANGED <<handlers, runUntil, now>>
    BY <1>3 DEF Ask, board
  <2>2. /\ Len(requests') = Len(requests) + 1 /\ requests'[Len(requests) + 1] = now
        /\ \A k \in 1 .. Len(requests) : requests'[k] = requests[k]
    BY <1>1, <2>1, AppendAt
  <2>3. Rises(requests')
    BY <1>1, <2>1, AppendAscends
  <2>4. \A k \in 1 .. Len(requests') : k \in 1 .. Len(requests) \/ k = Len(requests) + 1
    BY <1>1, <2>2
  <2>5. \A k \in 1 .. Len(requests') : runUntil <= requests'[k] /\ requests'[k] <= now
    BY <1>1, <2>2, <2>4
  <2> QED
    BY <1>1, <2>1, <2>3, <2>5 DEF Requests
<1>4. CASE AskTimesOut
  <2>1. UNCHANGED <<handlers, runUntil, now>>
    BY <1>4 DEF AskTimesOut, board
  <2>2. CASE requests # <<>> /\ requests' = Front(requests)
    <3>1. /\ Len(requests') = Len(requests) - 1
          /\ \A k \in 1 .. Len(requests) - 1 : requests'[k] = requests[k] /\ k \in 1 .. Len(requests)
      BY <1>1, <2>2, FrontAt
    <3>2. Rises(requests')
      BY <1>1, <2>2, FrontRises
    <3>3. \A k \in 1 .. Len(requests') : runUntil <= requests'[k] /\ requests'[k] <= now
      BY <1>1, <3>1
    <3> QED
      BY <1>1, <2>1, <3>2, <3>3 DEF Requests
  <2>3. CASE UNCHANGED requests
    BY <1>1, <2>1, <2>3 DEF Requests
  <2> QED
    BY <1>4, <2>2, <2>3 DEF AskTimesOut, Undelivered
<1>5. CASE HandleRequest
  <2>1. /\ requests # <<>> /\ requests' = Tail(requests) /\ runUntil' = requests[1]
        /\ handlers' = handlers \cup {requests[1]} /\ UNCHANGED now
    BY <1>1, <1>5, TailAt DEF HandleRequest, board
  <2>2. /\ Len(requests') = Len(requests) - 1 /\ 1 \in 1 .. Len(requests)
        /\ \A k \in 1 .. Len(requests) - 1 :
             requests'[k] = requests[k + 1] /\ k + 1 \in 1 .. Len(requests)
    BY <1>1, <2>1, TailAt
  <2>3. Rises(requests') /\ \A k \in 1 .. Len(requests') : requests[1] <= requests'[k]
    BY <1>1, <2>1, TailAscends
  <2>4. runUntil <= requests[1] /\ requests[1] <= now /\ requests[1] \in Nat
    BY <1>1, <2>2
  <2>5. \A k \in 1 .. Len(requests') : runUntil' <= requests'[k] /\ requests'[k] <= now
    BY <1>1, <2>1, <2>2, <2>3
  <2>6. \A t \in handlers' : t <= runUntil'
    BY <1>1, <2>1, <2>4
  <2> QED
    BY <1>1, <2>1, <2>3, <2>4, <2>5, <2>6 DEF Requests
<1>6. ASSUME NEW t \in handlers, AnswerRequest(t)
      PROVE  Requests' /\ runUntil <= runUntil' /\ now <= now'
  BY <1>1, <1>6 DEF Requests, AnswerRequest, board
<1>7. CASE ReadImu \/ SimStep \/ Lose \/ UNCHANGED vars
  BY <1>1, <1>7 DEF Requests, ReadImu, SimStep, Lose, vars, calls, board
<1>8. CASE Stepper
  BY <1>1, <1>8 DEF Requests, Stepper, SendServos, StartReceive, Receive, ReceiveTimesOut,
                    StoreResponse, PublishTime, PushSample, calls, board
<1> QED
  BY <1>2, <1>3, <1>4, <1>5, <1>6, <1>7, <1>8 DEF Next

\* Every cycle of the stepper is accounted for.
LEMMA TrafficStep ==
  ASSUME ClockInv, [Next]_vars
  PROVE  Traffic'
<1>0. Shape /\ Requests /\ Answers /\ Traffic /\ Ahead
  BY DEF ClockInv
<1> USE <1>0
<1>1. /\ frames \in Nat /\ Len(answers) \in Nat /\ lost \in Nat /\ late \in Nat
      /\ timeouts \in Nat /\ simTime \in Nat /\ answers \in Seq(Nat) /\ simTime + 1 \in Nat
  <2>1. /\ frames \in Nat /\ lost \in Nat /\ late \in Nat /\ timeouts \in Nat
        /\ simTime \in Nat
    BY Numbers
  <2>2. answers \in Seq(Nat) /\ Len(answers) \in Nat
    BY Queued
  <2> QED
    BY <2>1, <2>2
<1>2. /\ Len(Append(answers, simTime + 1)) = Len(answers) + 1
      /\ answers # <<>> => Len(Tail(answers)) = Len(answers) - 1 /\ Len(answers) > 0
  BY <1>1, AppendAt, TailAt
<1>3. CASE SendServos
  <2>1. ~Waiting /\ Waiting'
    BY <1>3 DEF SendServos, Waiting
  <2>2. frames' = frames + 1 /\ UNCHANGED <<answers, lost, late, timeouts>>
    BY <1>3 DEF SendServos, counts
  <2> QED
    BY <1>1, <2>1, <2>2 DEF Traffic
<1>4. CASE Receive
  <2>1. Waiting /\ ~Waiting'
    BY <1>4 DEF Receive, Waiting
  <2>2. /\ Len(answers') = Len(answers) - 1 /\ UNCHANGED <<frames, lost, late, timeouts>>
        /\ Len(answers) > 0
    BY <1>2, <1>4 DEF Receive, counts
  <2> QED
    BY <1>1, <2>1, <2>2 DEF Traffic
<1>5. CASE ReceiveTimesOut
  <2>1. Waiting /\ ~Waiting'
    BY <1>5 DEF ReceiveTimesOut, Waiting
  <2>2. /\ Len(answers) = 0 /\ timeouts' = timeouts + 1 /\ UNCHANGED <<frames, lost, answers>>
    BY <1>5 DEF ReceiveTimesOut, net
  <2>3. (frames = 0 /\ late' = late) \/ (frames # 0 /\ late' = late + 1)
    BY <1>5 DEF ReceiveTimesOut
  <2> QED
    BY <1>1, <2>1, <2>2, <2>3 DEF Traffic
<1>6. CASE SimStep
  <2>1. /\ UNCHANGED <<stepper, lost, late, timeouts>> /\ frames' = frames - 1
        /\ Len(answers') = Len(answers) + 1
    BY <1>2, <1>6 DEF SimStep, thread, counts
  <2> QED
    BY <1>1, <2>1 DEF Traffic, Waiting
<1>7. CASE Lose
  <2>1. UNCHANGED <<stepper, late, timeouts>> /\ lost' = lost + 1 /\ Waiting' = Waiting
    BY <1>7 DEF Lose, thread, counts, Waiting
  <2>2. CASE frames' = frames - 1 /\ UNCHANGED answers
    <3>1. frames' + Len(answers') + lost' = frames + Len(answers) + lost
          /\ frames' + Len(answers') <= frames + Len(answers)
      BY <1>1, <2>1, <2>2
    <3> QED
      BY <1>1, <2>1, <2>2, <3>1 DEF Traffic
  <2>3. CASE answers # <<>> /\ answers' = Tail(answers) /\ UNCHANGED frames
    <3>1. Len(answers') = Len(answers) - 1
      BY <1>2, <2>3
    <3>2. frames' + Len(answers') + lost' = frames + Len(answers) + lost
          /\ frames' + Len(answers') <= frames + Len(answers)
      BY <1>1, <2>1, <2>3, <3>1
    <3> QED
      BY <1>1, <2>1, <3>2, <2>3 DEF Traffic
  <2> QED
    BY <1>7, <2>2, <2>3 DEF Lose
<1>8. CASE StartReceive \/ StoreResponse \/ PublishTime \/ PushSample
  <2>1. Waiting' = Waiting /\ UNCHANGED <<frames, answers, lost, late, timeouts>>
    BY <1>8 DEF StartReceive, StoreResponse, PublishTime, PushSample, Waiting, net, counts
  <2> QED
    BY <2>1 DEF Traffic
<1>9. CASE KickIrq \/ Ask \/ AskTimesOut \/ HandleRequest \/ ReadImu \/ UNCHANGED vars
  BY <1>9 DEF Traffic, Waiting, KickIrq, Ask, AskTimesOut, HandleRequest, ReadImu, vars,
              thread, net, counts
<1>10. ASSUME NEW t \in handlers, AnswerRequest(t)
       PROVE  Traffic'
  BY <1>10 DEF Traffic, Waiting, AnswerRequest, thread, net, counts
<1> QED
  BY <1>3, <1>4, <1>5, <1>6, <1>7, <1>8, <1>9, <1>10 DEF Next, Stepper

\* The states on their way are newer than what the service has, in order.
LEMMA AnswersStep ==
  ASSUME ClockInv, [Next]_vars
  PROVE  Answers' /\ latest <= latest'
<1>0. Shape /\ Requests /\ Answers /\ Traffic /\ Ahead
  BY DEF ClockInv
<1>1. /\ latest \in Nat /\ simTime \in Nat /\ response \in Nat /\ lastResponse \in Nat
      /\ Len(answers) \in Nat /\ answers \in Seq(Nat) /\ simTime + 1 \in Nat
      /\ \A k \in 1 .. Len(answers) : answers[k] \in Nat
  BY <1>0, Numbers, Queued
<1>2. /\ latest <= simTime /\ response <= simTime /\ lastResponse <= simTime
      /\ \A k \in 1 .. Len(answers) : latest < answers[k] /\ answers[k] <= simTime
      /\ Ascends(answers)
      /\ Holding => latest < response
                    /\ \A k \in 1 .. Len(answers) : response < answers[k]
      /\ stepper = "sample" => response = latest
  BY <1>0 DEF Answers
<1>3. CASE SimStep
  <2>1. /\ answers' = Append(answers, simTime + 1) /\ simTime' = simTime + 1
        /\ UNCHANGED <<latest, response, lastResponse, stepper>>
    BY <1>3 DEF SimStep, thread
  <2>2. /\ Len(answers') = Len(answers) + 1 /\ answers'[Len(answers) + 1] = simTime + 1
        /\ \A k \in 1 .. Len(answers) : answers'[k] = answers[k]
    BY <1>1, <2>1, AppendAt
  <2>3. \A k \in 1 .. Len(answers') : k \in 1 .. Len(answers) \/ k = Len(answers) + 1
    BY <1>1, <2>2
  <2>4. Ascends(answers')
    <3>1. \A k \in 1 .. Len(answers) : answers[k] < simTime + 1
      BY <1>1, <1>2
    <3> QED
      BY <1>1, <1>2, <2>1, <3>1, AppendAscends
  <2>5. \A k \in 1 .. Len(answers') : latest < answers'[k] /\ answers'[k] <= simTime'
    BY <1>1, <1>2, <2>1, <2>2, <2>3
  <2>6. Holding => \A k \in 1 .. Len(answers') : response < answers'[k]
    BY <1>1, <1>2, <2>1, <2>2, <2>3
  <2> QED
    BY <1>1, <1>2, <2>1, <2>4, <2>5, <2>6 DEF Answers, Holding
<1>4. ASSUME answers # <<>>, answers' = Tail(answers)
      PROVE  /\ Ascends(answers') /\ answers[1] = Head(answers)
             /\ \A k \in 1 .. Len(answers') :
                  /\ answers[1] < answers'[k] /\ answers'[k] <= simTime
                  /\ latest < answers'[k]
                  /\ Holding => response < answers'[k]
             /\ latest < answers[1] /\ answers[1] <= simTime /\ answers[1] \in Nat
  <2>1. /\ Len(answers') = Len(answers) - 1 /\ 1 \in 1 .. Len(answers)
        /\ Head(answers) = answers[1]
        /\ \A k \in 1 .. Len(answers) - 1 :
             answers'[k] = answers[k + 1] /\ k + 1 \in 1 .. Len(answers)
    BY <1>1, <1>4, TailAt
  <2>2. Ascends(answers') /\ \A k \in 1 .. Len(answers') : answers[1] < answers'[k]
    BY <1>1, <1>2, <1>4, TailAscends
  <2>3. \A k \in 1 .. Len(answers') : \E i \in 1 .. Len(answers) : answers'[k] = answers[i]
    BY <2>1
  <2> QED
    BY <1>1, <1>2, <2>1, <2>2, <2>3
<1>5. CASE Lose
  <2>1. UNCHANGED <<latest, response, lastResponse, stepper, simTime>>
    BY <1>5 DEF Lose, thread
  <2>2. CASE UNCHANGED answers
    BY <1>1, <1>2, <2>1, <2>2 DEF Answers, Holding
  <2>3. CASE answers # <<>> /\ answers' = Tail(answers)
    BY <1>1, <1>2, <1>4, <2>1, <2>3 DEF Answers, Holding
  <2> QED
    BY <1>5, <2>2, <2>3 DEF Lose
<1>6. CASE Receive
  <2>1. /\ UNCHANGED <<latest, lastResponse, simTime>> /\ stepper' = "store"
        /\ response' = Head(answers) /\ answers # <<>> /\ answers' = Tail(answers)
    BY <1>6 DEF Receive
  <2> QED
    BY <1>1, <1>2, <1>4, <2>1 DEF Answers, Holding
<1>7. CASE StoreResponse
  <2>1. /\ UNCHANGED <<latest, response, simTime, answers>> /\ stepper' = "time"
        /\ lastResponse' = response /\ Holding
    BY <1>7 DEF StoreResponse, net, Holding
  <2> QED
    BY <1>1, <1>2, <2>1 DEF Answers, Holding
<1>8. CASE PublishTime
  <2>1. /\ UNCHANGED <<lastResponse, response, simTime, answers>> /\ latest' = response
        /\ stepper' \in {"check", "sample"} /\ Holding
    BY <1>8 DEF PublishTime, net, Holding
  <2> QED
    BY <1>1, <1>2, <2>1 DEF Answers, Holding
<1>9. CASE PushSample
  <2>1. /\ UNCHANGED <<lastResponse, latest, simTime, answers>> /\ response' = 0
        /\ stepper' = "check"
    BY <1>9 DEF PushSample, net, NoResponse
  <2> QED
    BY <1>1, <1>2, <2>1 DEF Answers, Holding
<1>10. CASE KickIrq
  <2>1. UNCHANGED <<latest, lastResponse, response, stepper, answers>> /\ simTime <= simTime'
        /\ simTime' \in Nat
    <3>1. simTime' \in Nat /\ now' \in Nat
      BY <1>0, ShapeStep, Constants DEF Shape
    <3>2. simTime <= simTime'
      BY <1>1, <1>10, <3>1 DEF KickIrq, FmuReaches
    <3> QED
      BY <1>10, <3>1, <3>2 DEF KickIrq, thread, net
  <2> QED
    BY <1>1, <1>2, <2>1 DEF Answers, Holding
<1>11. CASE SendServos \/ StartReceive \/ ReceiveTimesOut
  <2>1. /\ UNCHANGED <<lastResponse, response, latest, simTime, answers>>
        /\ stepper' \in {"sent", "receive", "check"}
    BY <1>11 DEF SendServos, StartReceive, ReceiveTimesOut, net
  <2> QED
    BY <1>1, <1>2, <2>1 DEF Answers, Holding
<1>12. CASE Ask \/ AskTimesOut \/ HandleRequest \/ ReadImu \/ UNCHANGED vars
  <2>1. UNCHANGED <<lastResponse, response, latest, stepper, simTime, answers>>
    BY <1>12 DEF Ask, AskTimesOut, HandleRequest, ReadImu, vars, thread, net
  <2> QED
    BY <1>1, <1>2, <2>1 DEF Answers, Holding
<1>13. ASSUME NEW t \in handlers, AnswerRequest(t)
       PROVE  Answers' /\ latest <= latest'
  <2>1. UNCHANGED <<lastResponse, response, latest, stepper, simTime, answers>>
    BY <1>13 DEF AnswerRequest, thread, net
  <2> QED
    BY <1>1, <1>2, <2>1 DEF Answers, Holding
<1> QED
  BY <1>3, <1>5, <1>6, <1>7, <1>8, <1>9, <1>10, <1>11, <1>12, <1>13 DEF Next, Stepper

LEMMA Sums ==
  \A a, b, c \in Nat : a + b \in Nat /\ (b <= c => a + b <= a + c /\ b + a <= c + a)
OBVIOUS

\* The engine stays close to what the service has asked of it.
LEMMA AheadStep ==
  ASSUME ClockInv, [Next]_vars
  PROVE  Ahead'
<1>0. Shape /\ Requests /\ Answers /\ Traffic /\ Ahead
  BY DEF ClockInv
<1>1. /\ latest \in Nat /\ simTime \in Nat /\ response \in Nat /\ now \in Nat
      /\ frames \in Nat /\ timeouts \in Nat /\ runUntil \in Nat
      /\ Period \in Nat /\ Period > 0 /\ initial \in BOOLEAN
  BY <1>0, Numbers, Constants DEF Shape
<1>2. /\ initial = TRUE => latest = 0 /\ timeouts = 0
      /\ backend = "fmu" => /\ simTime <= now /\ frames = 0 /\ stepper = "check"
                            /\ latest = 0 /\ requests = <<>>
      /\ backend = "gazebo" =>
           /\ Waiting => simTime + frames <= latest + timeouts + 1
           /\ Holding => simTime + frames <= response + timeouts
           /\ ~Waiting /\ ~Holding => simTime + frames <= latest + timeouts
           /\ \/ simTime + frames <= 1 + timeouts
              \/ simTime + frames <= runUntil + timeouts
  BY <1>0 DEF Ahead
<1>3. runUntil' \in Nat /\ runUntil <= runUntil' /\ backend \in {"fmu", "gazebo"}
  BY <1>0, ShapeStep, RequestsStep, Constants DEF Shape
<1>4. CASE KickIrq
  <2>1. /\ UNCHANGED <<backend, initial, latest, timeouts, frames, stepper, requests, response,
                       runUntil>>
        /\ now' = now + Period
    BY <1>4 DEF KickIrq, calls, thread, net, counts
  <2>2. CASE backend = "fmu"
    <3>1. simTime' \in FmuReaches(now')
      BY <1>4, <2>2 DEF KickIrq
    <3>2. simTime' <= now'
      BY <1>1, <1>2, <2>1, <2>2, <3>1 DEF FmuReaches
    <3> QED
      BY <1>2, <2>1, <2>2, <3>2 DEF Ahead
  <2>3. CASE backend = "gazebo"
    <3>1. UNCHANGED simTime
      BY <1>4, <2>3 DEF KickIrq
    <3> QED
      BY <1>2, <2>1, <2>3, <3>1 DEF Ahead, Waiting, Holding
  <2> QED
    BY <1>3, <2>2, <2>3
<1>5. CASE SendServos
  <2>1. /\ UNCHANGED <<backend, initial, latest, timeouts, simTime, runUntil>>
        /\ backend = "gazebo" /\ stepper = "check" /\ stepper' = "sent"
        /\ frames' = frames + 1 /\ (initial = TRUE \/ latest < runUntil)
    BY <1>1, <1>5 DEF SendServos, Behind, board, calls, counts
  <2>2. simTime + frames <= latest + timeouts
    BY <1>2, <2>1 DEF Waiting, Holding
  <2>3. /\ simTime' + frames' <= latest + timeouts + 1
        /\ \/ simTime' + frames' <= 1 + timeouts
           \/ simTime' + frames' <= runUntil + timeouts
    BY <1>1, <1>2, <2>1, <2>2
  <2> QED
    BY <1>1, <1>2, <2>1, <2>3 DEF Ahead, Waiting, Holding
<1>6. CASE StartReceive
  <2>1. /\ UNCHANGED <<backend, initial, latest, timeouts, frames, simTime, runUntil>>
        /\ stepper = "sent" /\ stepper' = "receive"
    BY <1>6 DEF StartReceive, board, calls, net, counts
  <2> QED
    BY <1>2, <1>3, <2>1 DEF Ahead, Waiting, Holding
<1>7. CASE Receive
  <2>1. /\ UNCHANGED <<backend, initial, latest, timeouts, frames, simTime, runUntil>>
        /\ stepper = "receive" /\ stepper' = "store" /\ backend = "gazebo"
        /\ response' = Head(answers) /\ answers # <<>>
    BY <1>2, <1>3, <1>7 DEF Receive, board, calls, counts
  <2>2. Head(answers) = answers[1] /\ 1 \in 1 .. Len(answers) /\ answers[1] \in Nat
    BY <1>0, <2>1, TailAt, Queued
  <2>3. latest < response' /\ response' \in Nat
    BY <1>0, <2>1, <2>2 DEF Answers
  <2>4. simTime' + frames' <= response' + timeouts'
    BY <1>1, <1>2, <2>1, <2>3 DEF Waiting
  <2> QED
    BY <1>1, <1>2, <2>1, <2>4 DEF Ahead, Waiting, Holding
<1>8. CASE ReceiveTimesOut
  <2>1. /\ UNCHANGED <<backend, latest, frames, simTime, runUntil>>
        /\ stepper = "receive" /\ stepper' = "check" /\ backend = "gazebo"
        /\ initial' = FALSE /\ timeouts' = timeouts + 1
    BY <1>2, <1>3, <1>8 DEF ReceiveTimesOut, board, calls, net
  <2>2. /\ simTime' + frames' <= latest' + timeouts'
        /\ \/ simTime' + frames' <= 1 + timeouts'
           \/ simTime' + frames' <= runUntil' + timeouts'
    BY <1>1, <1>2, <2>1 DEF Waiting
  <2> QED
    BY <2>1, <2>2 DEF Ahead, Waiting, Holding
<1>9. CASE StoreResponse
  <2>1. /\ UNCHANGED <<backend, initial, latest, frames, simTime, runUntil, timeouts, response>>
        /\ stepper = "store" /\ stepper' = "time"
    BY <1>9 DEF StoreResponse, board, calls, net, counts
  <2> QED
    BY <1>2, <1>3, <2>1 DEF Ahead, Waiting, Holding
<1>10. CASE PublishTime
  <2>1. /\ UNCHANGED <<backend, frames, simTime, runUntil, timeouts>> /\ backend = "gazebo"
        /\ stepper = "time" /\ stepper' \in {"check", "sample"} /\ latest' = response
        /\ initial' = FALSE
    BY <1>2, <1>3, <1>10 DEF PublishTime, board, calls, net, counts
  <2> QED
    BY <1>2, <1>3, <2>1 DEF Ahead, Waiting, Holding
<1>11. CASE PushSample
  <2>1. /\ UNCHANGED <<backend, initial, latest, frames, simTime, runUntil, timeouts>>
        /\ stepper = "sample" /\ stepper' = "check" /\ backend = "gazebo"
    BY <1>2, <1>3, <1>11 DEF PushSample, board, calls, net, counts
  <2> QED
    BY <1>2, <1>3, <2>1 DEF Ahead, Waiting, Holding
<1>12. CASE SimStep
  <2>1. /\ UNCHANGED <<backend, initial, latest, runUntil, timeouts, stepper, response>>
        /\ simTime' = simTime + 1 /\ frames' = frames - 1 /\ backend = "gazebo"
    BY <1>1, <1>2, <1>3, <1>12 DEF SimStep, board, calls, thread, counts
  <2>2. simTime' + frames' = simTime + frames
    BY <1>1, <2>1
  <2> QED
    BY <1>2, <2>1, <2>2 DEF Ahead, Waiting, Holding
<1>13. CASE Lose
  <2>1. /\ UNCHANGED <<backend, now, initial, latest, runUntil, timeouts, stepper, response,
                       simTime, requests>>
        /\ frames' = frames \/ (frames > 0 /\ frames' = frames - 1)
    BY <1>13 DEF Lose, board, calls, thread, counts
  <2>2. frames' \in Nat /\ frames' <= frames /\ (frames = 0 => frames' = 0)
    BY <1>1, <2>1
  <2>3. CASE backend = "fmu"
    BY <1>2, <2>1, <2>2, <2>3 DEF Ahead
  <2>4. CASE backend = "gazebo"
    <3>1. \A x \in Nat : simTime + frames <= x => simTime + frames' <= x
      <4>1. /\ simTime + frames' \in Nat /\ simTime + frames \in Nat
            /\ simTime + frames' <= simTime + frames
        BY <1>1, <2>2, Sums
      <4> QED
        BY <4>1
    <3>2. /\ latest + timeouts + 1 \in Nat /\ response + timeouts \in Nat
          /\ latest + timeouts \in Nat /\ 1 + timeouts \in Nat /\ runUntil + timeouts \in Nat
      BY <1>1
    <3>3. /\ Waiting => simTime + frames' <= latest + timeouts + 1
          /\ Holding => simTime + frames' <= response + timeouts
          /\ ~Waiting /\ ~Holding => simTime + frames' <= latest + timeouts
          /\ \/ simTime + frames' <= 1 + timeouts
             \/ simTime + frames' <= runUntil + timeouts
      BY <1>2, <2>4, <3>1, <3>2
    <3> QED
      BY <1>2, <2>1, <2>4, <3>3 DEF Ahead, Waiting, Holding
  <2> QED
    BY <1>3, <2>3, <2>4
<1>14. CASE HandleRequest
  <2>1. /\ UNCHANGED <<backend, initial, latest, timeouts, stepper, response, simTime, frames>>
        /\ backend = "gazebo"
    BY <1>2, <1>3, <1>14 DEF HandleRequest, board, thread, net, counts
  <2>2. simTime + frames <= runUntil + timeouts => simTime + frames <= runUntil' + timeouts
    <3>1. /\ simTime + frames \in Nat /\ runUntil + timeouts \in Nat
          /\ runUntil' + timeouts \in Nat /\ runUntil + timeouts <= runUntil' + timeouts
      BY <1>1, <1>3, Sums
    <3> QED
      BY <3>1
  <2> QED
    BY <1>2, <2>1, <2>2 DEF Ahead, Waiting, Holding
<1>15. CASE Ask \/ AskTimesOut
  <2>1. /\ UNCHANGED <<backend, now, initial, latest, runUntil, timeouts, stepper, response,
                       simTime, frames>>
        /\ backend = "fmu" => UNCHANGED requests
    BY <1>2, <1>15 DEF Ask, AskTimesOut, Undelivered, board, thread, net, counts
  <2> QED
    BY <1>2, <2>1 DEF Ahead, Waiting, Holding
<1>16. CASE ReadImu \/ UNCHANGED vars
  <2>1. UNCHANGED <<backend, now, initial, latest, runUntil, timeouts, stepper, response,
                    simTime, frames, requests>>
    BY <1>16 DEF ReadImu, vars, board, calls, thread, net, counts
  <2> QED
    BY <1>2, <2>1 DEF Ahead, Waiting, Holding
<1>17. ASSUME NEW t \in handlers, AnswerRequest(t)
       PROVE  Ahead'
  <2>1. UNCHANGED <<backend, now, initial, latest, runUntil, timeouts, stepper, response,
                    simTime, frames, requests>>
    BY <1>17 DEF AnswerRequest, board, thread, net, counts
  <2> QED
    BY <1>2, <2>1 DEF Ahead, Waiting, Holding
<1> QED
  BY <1>4, <1>5, <1>6, <1>7, <1>8, <1>9, <1>10, <1>11, <1>12, <1>13, <1>14, <1>15, <1>16,
     <1>17 DEF Next, Stepper

\* Only the stepper changes the buffer, and only a read the batch.
LEMMA SamplesKept ==
  ASSUME ClockInv, [Next]_vars
  PROVE  \/ UNCHANGED <<buffer, batch>>
         \/ PushSample /\ UNCHANGED batch
         \/ ReadImu /\ UNCHANGED <<buffer, latest>>
<1>1. CASE PushSample \/ ReadImu
  BY <1>1 DEF PushSample, ReadImu, thread
<1>2. CASE KickIrq \/ Ask \/ AskTimesOut \/ HandleRequest \/ SimStep \/ Lose \/ UNCHANGED vars
  BY <1>2 DEF KickIrq, Ask, AskTimesOut, HandleRequest, SimStep, Lose, vars, thread
<1>3. CASE SendServos \/ StartReceive \/ Receive \/ ReceiveTimesOut \/ StoreResponse
           \/ PublishTime
  BY <1>3 DEF SendServos, StartReceive, Receive, ReceiveTimesOut, StoreResponse, PublishTime
<1>4. ASSUME NEW t \in handlers, AnswerRequest(t)
      PROVE  UNCHANGED <<buffer, batch>>
  BY <1>4 DEF AnswerRequest, thread
<1> QED
  BY <1>1, <1>2, <1>3, <1>4 DEF Next, Stepper

\* The sample the firmware finds at a place of its batch.
Drawn(q, k) == q[IF k <= Len(q) THEN k ELSE Len(q)]

\* The samples ascend and a batch is never newer than what the next would hold;
\* so a new batch is sorted, and nowhere older than the last.
LEMMA SamplesStep ==
  ASSUME ClockInv, Samples, [Next]_vars
  PROVE  /\ Samples'
         /\ batch' # batch =>
              /\ batch # <<>> => \A i \in 1 .. Batch : batch'[i] >= batch[i]
              /\ \A i \in 1 .. (Batch - 1) : batch'[i] <= batch'[i + 1]
<1>0. Shape /\ Answers
  BY DEF ClockInv
<1>1. /\ buffer \in Seq(Nat) /\ Len(buffer) \in Nat /\ Batch \in Nat /\ Batch > 0
      /\ \A k \in 1 .. Len(buffer) : buffer[k] \in Nat
      /\ latest \in Nat /\ response \in Nat /\ latest' \in Nat /\ latest <= latest'
      /\ batch = <<>> \/ batch \in [1 .. Batch -> Nat]
  BY <1>0, Queued, Numbers, Constants, ShapeStep, AnswersStep DEF Shape
<1>2. /\ \A k \in 1 .. Len(buffer) : buffer[k] <= latest
      /\ Rises(buffer)
      /\ batch # <<>> => buffer # <<>> /\ \A k \in 1 .. Batch : batch[k] <= Drawn(buffer, k)
  BY DEF Samples, Drawn
<1>3. CASE UNCHANGED <<buffer, batch>>
  BY <1>1, <1>2, <1>3 DEF Samples, Drawn
<1>4. CASE PushSample /\ UNCHANGED batch
  <2>1. /\ buffer' = Pushed(response) /\ response = latest /\ latest' = latest
        /\ UNCHANGED batch
    BY <1>0, <1>4 DEF PushSample, Answers
  <2> DEFINE p == Pushed(response)
             L == Len(buffer)
             M == Len(p)
  <2>2. /\ p \in Seq(Nat) /\ M \in Nat /\ M > 0 /\ p[M] = latest /\ L \in Nat
        /\ \/ M = L /\ \A k \in 1 .. L - 1 : k + 1 \in 1 .. L /\ p[k] = buffer[k + 1]
           \/ M = L + 1 /\ \A k \in 1 .. L : p[k] = buffer[k]
        /\ Rises(p)
    <3>1. \A k \in 1 .. L : buffer[k] <= response
      BY <1>2, <2>1
    <3>2. response \in Nat /\ Shape
      BY <1>0, <1>1
    <3>3. /\ p \in Seq(Nat) /\ M > 0 /\ p[M] = response
          /\ \/ M = L /\ \A k \in 1 .. L - 1 : k + 1 \in 1 .. L /\ p[k] = buffer[k + 1]
             \/ M = L + 1 /\ \A k \in 1 .. L : p[k] = buffer[k]
          /\ Rises(p)
      BY <1>2, <3>1, <3>2, PushedAt
    <3>4. M \in Nat
      BY <3>3
    <3> QED
      BY <1>1, <2>1, <3>3, <3>4
  <2> HIDE DEF p
  <2>3. \A k \in 1 .. M : p[k] <= latest /\ p[k] \in Nat
    <3>1. M \in 1 .. M /\ \A k \in 1 .. M : k <= M /\ p[k] \in Nat
      BY <2>2
    <3> QED
      BY <2>2, <3>1 DEF Rises
  <2>4. \A k \in 1 .. L : k \in 1 .. M /\ buffer[k] <= p[k]
    <3>1. CASE M = L /\ \A k \in 1 .. L - 1 : k + 1 \in 1 .. L /\ p[k] = buffer[k + 1]
      <4>1. \A k \in 1 .. L - 1 : k \in 1 .. L /\ k <= k + 1 /\ buffer[k] <= buffer[k + 1]
        BY <1>2, <2>2, <3>1 DEF Rises
      <4>2. \A k \in 1 .. L : k \in 1 .. L - 1 \/ k = M
        BY <2>2, <3>1
      <4> QED
        BY <1>1, <1>2, <2>2, <3>1, <4>1, <4>2
    <3>2. CASE M = L + 1 /\ \A k \in 1 .. L : p[k] = buffer[k]
      BY <1>1, <2>2, <3>2
    <3> QED
      BY <2>2, <3>1, <3>2
  <2>5. ASSUME NEW k \in 1 .. Batch, L > 0
        PROVE  Drawn(buffer, k) <= Drawn(p, k)
    <3>1. CASE k <= L
      <4>1. k \in 1 .. L /\ k <= M
        BY <1>1, <2>2, <3>1
      <4> QED
        BY <2>4, <3>1, <4>1 DEF Drawn
    <3>2. CASE ~(k <= L)
      <4>1. L \in 1 .. L /\ Drawn(buffer, k) = buffer[L] /\ buffer[L] <= latest
        BY <1>1, <1>2, <2>2, <2>5, <3>2 DEF Drawn
      <4>2. Drawn(p, k) = p[M]
        <5>1. k \in Nat /\ k >= L + 1
          BY <1>1, <2>2, <3>2
        <5>2. (IF k <= M THEN k ELSE M) = M
          <6>1. M \in Nat /\ L \in Nat /\ M <= L + 1
            BY <2>2
          <6> QED
            BY <5>1, <6>1
        <5> QED
          BY <5>2 DEF Drawn
      <4> QED
        BY <2>2, <4>1, <4>2
    <3> QED
      BY <3>1, <3>2
  <2>6. batch # <<>> => L > 0 /\ \A k \in 1 .. Batch : batch[k] <= Drawn(p, k)
    <3>1. SUFFICES ASSUME batch # <<>>
                   PROVE  L > 0 /\ \A k \in 1 .. Batch : batch[k] <= Drawn(p, k)
      OBVIOUS
    <3>2. L > 0
      BY <1>1, <1>2, <3>1
    <3>3. \A k \in 1 .. Batch : /\ (IF k <= L THEN k ELSE L) \in 1 .. L
                                /\ (IF k <= M THEN k ELSE M) \in 1 .. M
      BY <1>1, <2>2, <3>2
    <3>4. \A k \in 1 .. Batch : Drawn(buffer, k) \in Nat /\ Drawn(p, k) \in Nat
      BY <1>1, <2>3, <3>3 DEF Drawn
    <3>5. \A k \in 1 .. Batch : batch[k] \in Nat
      BY <1>1, <3>1
    <3> QED
      BY <1>2, <2>5, <3>1, <3>2, <3>4, <3>5
  <2>7. p # <<>>
    BY <2>2
  <2> QED
    BY <2>1, <2>2, <2>3, <2>6, <2>7 DEF Samples, Drawn, p
<1>5. CASE ReadImu /\ UNCHANGED <<buffer, latest>>
  <2> DEFINE L == Len(buffer)
  <2>1. buffer # <<>> /\ L > 0 /\ L \in Nat
    BY <1>1, <1>5 DEF ReadImu
  <2>2. batch' \in [1 .. Batch -> Nat] /\ \A k \in 1 .. Batch : batch'[k] = Drawn(buffer, k)
    BY <1>0, <1>5, <2>1, BatchIs DEF ReadImu, Drawn
  <2>3. \A k \in 1 .. Batch : (IF k <= L THEN k ELSE L) \in 1 .. L
    BY <1>1, <2>1
  <2>4. \A k \in 1 .. Batch : Drawn(buffer, k) \in Nat
    BY <1>1, <2>3 DEF Drawn
  <2>5. \A k \in 1 .. Batch : batch'[k] <= Drawn(buffer, k)
    BY <2>2, <2>4
  <2>6. \A i \in 1 .. (Batch - 1) : /\ i \in 1 .. Batch /\ i + 1 \in 1 .. Batch
                                    /\ (IF i <= L THEN i ELSE L)
                                         <= (IF i + 1 <= L THEN i + 1 ELSE L)
    BY <1>1, <2>1
  <2>7. \A i \in 1 .. (Batch - 1) : Drawn(buffer, i) <= Drawn(buffer, i + 1)
    BY <1>2, <2>3, <2>6 DEF Rises, Drawn
  <2>8. \A i \in 1 .. (Batch - 1) : batch'[i] <= batch'[i + 1]
    BY <2>2, <2>6, <2>7
  <2>9. batch # <<>> => \A i \in 1 .. Batch : batch'[i] >= batch[i]
    BY <1>1, <1>2, <2>2, <2>4
  <2> QED
    BY <1>1, <1>2, <1>5, <2>1, <2>5, <2>8, <2>9 DEF Samples, Drawn
<1> QED
  BY <1>3, <1>4, <1>5, SamplesKept

LEMMA ClockInitially == Init => ClockInv /\ Samples
<1> SUFFICES ASSUME Init
             PROVE  ClockInv /\ Samples
  OBVIOUS
<1>1. Shape
  BY Constants DEF Init, Shape, None, NoResponse
<1>2. Requests /\ Answers /\ Samples
  BY DEF Init, Requests, Answers, Samples, Holding, Rises, Ascends, NoResponse
<1>3. Traffic /\ Ahead
  BY DEF Init, Traffic, Ahead, Waiting, Holding, NoResponse
<1> QED
  BY <1>1, <1>2, <1>3 DEF ClockInv

-----------------------------------------------------------------------------
(* The theorems.                                                           *)

\* The inductive invariant: the board, the service and the engine agree on how
\* far the time has come, but for what is under way.
THEOREM ClockAlways == Spec => [](ClockInv /\ Samples)
<1>1. Init => ClockInv /\ Samples
  BY ClockInitially
<1>2. ClockInv /\ Samples /\ [Next]_vars => (ClockInv /\ Samples)'
  BY ShapeStep, RequestsStep, AnswersStep, TrafficStep, AheadStep, SamplesStep DEF ClockInv
<1> QED
  BY <1>1, <1>2, PTL DEF Spec

LEMMA MaxOfTwo ==
  ASSUME NEW a \in Nat, NEW b \in Nat
  PROVE  Max({a, b}) \in Nat /\ a <= Max({a, b}) /\ b <= Max({a, b})
<1> DEFINE P(x) == x \in {a, b} /\ \A y \in {a, b} : x >= y
<1>1. P(IF a <= b THEN b ELSE a)
  OBVIOUS
<1>2. P(CHOOSE x : P(x))
  BY <1>1
<1>3. Max({a, b}) = CHOOSE x : P(x)
  BY DEF Max
<1> QED
  BY <1>2, <1>3

\* The engine never runs further past the board's request than the frames that
\* were sent again account for; the plant never past the board's own time.
THEOREM EngineMeetsRequest == Spec => []NotPastTheRequest
<1>1. ClockInv => NotPastTheRequest
  <2>1. SUFFICES ASSUME ClockInv
                 PROVE  NotPastTheRequest
    OBVIOUS
  <2>2. Shape /\ Ahead
    BY <2>1 DEF ClockInv
  <2>3. /\ simTime \in Nat /\ frames \in Nat /\ timeouts \in Nat /\ runUntil \in Nat
        /\ backend \in {"fmu", "gazebo"}
    BY <2>2, Numbers DEF Shape
  <2> DEFINE m == Max({1, runUntil})
  <2>4. m \in Nat /\ 1 <= m /\ runUntil <= m
    BY <2>3, MaxOfTwo
  <2> HIDE DEF m
  <2>5. /\ simTime + frames <= 1 + timeouts => simTime + frames <= m + timeouts
        /\ simTime + frames <= runUntil + timeouts => simTime + frames <= m + timeouts
    BY <2>3, <2>4
  <2>6. CASE backend = "fmu"
    BY <2>2, <2>6 DEF Ahead, NotPastTheRequest
  <2>7. CASE backend = "gazebo"
    <3>1. simTime + frames <= m + timeouts
      BY <2>2, <2>5, <2>7 DEF Ahead
    <3> QED
      BY <2>7, <3>1 DEF NotPastTheRequest, m
  <2> QED
    BY <2>3, <2>6, <2>7
<1> QED
  BY <1>1, ClockAlways, PTL

\* A request answered TRUE was reached by the engine, to within the tolerance.
THEOREM TrueMeansReached == Spec => SuccessMeansReached
<1>1. ClockInv /\ [Next]_vars =>
        [\A t \in handlers : t \notin handlers' => simTime >= t - Tolerance]_vars
  <2>1. SUFFICES ASSUME ClockInv, Next, NEW s \in handlers, s \notin handlers'
                 PROVE  simTime >= s - Tolerance
    OBVIOUS
  <2>2. Shape /\ Requests /\ Answers
    BY <2>1 DEF ClockInv
  <2>3. ASSUME NEW t \in handlers, AnswerRequest(t)
        PROVE  simTime >= s - Tolerance
    <3>1. s = t
      BY <2>1, <2>3 DEF AnswerRequest
    <3>2. runUntil - latest <= Tolerance
      BY <2>3 DEF AnswerRequest, CaughtUp
    <3>3. s <= runUntil /\ latest <= simTime
      BY <2>1, <2>2 DEF Requests, Answers
    <3>4. /\ s \in Nat /\ runUntil \in Nat /\ latest \in Nat /\ simTime \in Nat
          /\ Tolerance \in Nat
      BY <2>1, <2>2, Numbers, Constants DEF Shape
    <3> QED
      BY <3>2, <3>3, <3>4
  <2>4. CASE HandleRequest
    BY <2>1, <2>4 DEF HandleRequest
  <2>5. CASE KickIrq \/ Ask \/ AskTimesOut \/ ReadImu \/ SimStep \/ Lose
    BY <2>1, <2>5 DEF KickIrq, Ask, AskTimesOut, ReadImu, SimStep, Lose, calls
  <2>6. CASE Stepper
    BY <2>1, <2>6 DEF Stepper, SendServos, StartReceive, Receive, ReceiveTimesOut,
                      StoreResponse, PublishTime, PushSample, calls
  <2> QED
    BY <2>1, <2>3, <2>4, <2>5, <2>6 DEF Next
<1> QED
  BY <1>1, ClockAlways, PTL DEF Spec, SuccessMeansReached

\* A batch is in the order of time, and place by place not older than the one
\* before: the window on the samples moves forward, though batches may overlap.
THEOREM BatchesAscend == Spec => BatchesMoveForward
<1>1. ClockInv /\ Samples /\ [Next]_vars =>
        [batch' # batch /\ batch # <<>> =>
           /\ \A i \in 1 .. Batch : batch'[i] >= batch[i]
           /\ \A i \in 1 .. (Batch - 1) : batch'[i] <= batch'[i + 1]]_vars
  BY SamplesStep
<1> QED
  BY <1>1, ClockAlways, PTL DEF Spec, BatchesMoveForward

\* Times stay in the range the bounds give, and the buffer within its capacity.
THEOREM ClockTypeOK == Spec => []TypeOK
<1>1. ClockInv /\ Samples => TypeOK
  <2>1. SUFFICES ASSUME ClockInv, Samples
                 PROVE  TypeOK
    OBVIOUS
  <2>2. Shape /\ Requests /\ Answers /\ Traffic /\ Ahead
    BY <2>1 DEF ClockInv
  <2>3. /\ simTime \in Nat /\ frames \in Nat /\ timeouts \in Nat /\ runUntil \in Nat
        /\ latest \in Nat /\ response \in Nat /\ lastResponse \in Nat /\ now \in Nat
        /\ lost \in Nat /\ late \in Nat /\ lost <= MaxLost /\ late <= MaxLate
        /\ runUntil <= MaxTime /\ now <= MaxTime /\ MaxTime > 0 /\ Len(answers) \in Nat
        /\ MaxTime \in Nat /\ MaxLost \in Nat /\ MaxLate \in Nat /\ Batch \in Nat
    BY <2>2, Numbers, Constants, Queued DEF Shape
  <2>4. timeouts <= MaxLost + MaxLate
    <3>1. timeouts <= late + lost
      BY <2>2, <2>3 DEF Traffic
    <3> QED
      BY <2>3, <3>1
  <2>5. simTime + frames <= MaxTime + MaxLost + MaxLate
    <3>1. CASE backend = "fmu"
      BY <2>2, <2>3, <3>1 DEF Ahead
    <3>2. CASE backend = "gazebo"
      <4>1. simTime + frames <= 1 + timeouts \/ simTime + frames <= runUntil + timeouts
        BY <2>2, <3>2 DEF Ahead
      <4> QED
        BY <2>3, <2>4, <4>1
    <3> QED
      BY <2>2, <3>1, <3>2 DEF Shape
  <2> DEFINE Far == MaxTime + MaxLost + MaxLate + 1
  <2>6. Far \in Nat /\ simTime <= Far /\ frames <= Far /\ Times = 0 .. Far
    BY <2>3, <2>5 DEF Times
  <2> HIDE DEF Far
  <2>7. /\ {latest, simTime, response, lastResponse} \subseteq Times /\ frames \in Times
        /\ \A n \in Nat : n <= simTime => n \in Times
    <3>1. latest <= simTime /\ response <= simTime /\ lastResponse <= simTime
      BY <2>2 DEF Answers
    <3> QED
      BY <2>3, <2>6, <3>1
  <2>8. answers \in Seq(Times)
    <3>1. \A k \in 1 .. Len(answers) : answers[k] \in Times
      BY <2>2, <2>7, Queued DEF Answers
    <3>2. \A q \in Seq(Nat) : (\A k \in 1 .. Len(q) : q[k] \in Times) => q \in Seq(Times)
      OBVIOUS
    <3> QED
      BY <2>2, <3>1, <3>2 DEF Shape
  <2>9. /\ \A k \in 1 .. Len(buffer) : buffer[k] \in Times
        /\ Len(buffer) \in 0 .. Capacity
    <3>1. \A k \in 1 .. Len(buffer) : buffer[k] <= latest /\ buffer[k] \in Nat
      BY <2>1, <2>2, Queued DEF Samples
    <3>2. latest <= simTime
      BY <2>2 DEF Answers
    <3>3. \A k \in 1 .. Len(buffer) : buffer[k] <= simTime
      BY <2>3, <3>1, <3>2
    <3>4. Len(buffer) \in 0 .. Capacity
      BY <2>2, Queued, Constants DEF Shape
    <3> QED
      BY <2>7, <3>1, <3>3, <3>4
  <2>10. buffer \in BoundedSeq(Times, Capacity)
    <3>1. buffer \in [1 .. Len(buffer) -> Times]
      BY <2>2, <2>9 DEF Shape
    <3> QED
      BY <2>9, <3>1 DEF BoundedSeq, SeqOf
  <2>11. batch = <<>> \/ batch \in [1 .. Batch -> Times]
    <3>1. SUFFICES ASSUME batch # <<>>, NEW k \in 1 .. Batch
                   PROVE  batch[k] \in Times
      BY <2>2 DEF Shape
    <3>2. Len(buffer) \in Nat /\ Len(buffer) > 0
      BY <2>1, <2>2, <3>1, Queued DEF Samples
    <3>3. (IF k <= Len(buffer) THEN k ELSE Len(buffer)) \in 1 .. Len(buffer)
      BY <2>3, <3>2
    <3>4. batch[k] <= Drawn(buffer, k) /\ Drawn(buffer, k) <= latest
          /\ Drawn(buffer, k) \in Nat /\ batch[k] \in Nat
      BY <2>1, <2>2, <3>1, <3>3, Queued DEF Samples, Drawn, Shape
    <3> QED
      BY <2>2, <2>3, <2>7, <3>4 DEF Answers
  <2>12. timeouts \in 0 .. (MaxLost + MaxLate)
    BY <2>3, <2>4
  <2> QED
    BY <2>2, <2>7, <2>8, <2>10, <2>11, <2>12 DEF TypeOK, Shape
<1> QED
  BY <1>1, ClockAlways, PTL
=============================================================================
