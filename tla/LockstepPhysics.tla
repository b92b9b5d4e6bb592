-------------------------- MODULE LockstepPhysics --------------------------
(***************************************************************************)
(* The clock the firmware and the physics engine share.                    *)
(*                                                                         *)
(* The board's timer tick (kick_irq) publishes the simulated time.  With   *)
(* the FMU backend the tick steps the plant itself; with the Gazebo        *)
(* backend a thread of the plugin (catch_up) sees the new time and asks a  *)
(* separate process, ServoService, to run the simulation until then.       *)
(* ServoService has a thread (the stepper here) that sends one servo frame *)
(* per simulation step over UDP and reads one state back, and request      *)
(* handlers that wait for that thread.  Time is counted in simulation      *)
(* steps.  The gz-transport library delivers requests in order; their      *)
(* handlers may overlap.                                                   *)
(***************************************************************************)
EXTENDS Integers, Sequences, SequencesExt, FiniteSetsExt

CONSTANTS Period,     \* simulation steps per board tick
          Tolerance,  \* how far behind (0.1 s) a request is answered
          Capacity,   \* samples in imu_buffer_ (17)
          Batch,      \* samples the firmware takes of a batch (8)
          MaxTime,    \* bound: the last board time
          MaxLost,    \* bound: datagrams lost
          MaxLate     \* bound: answers that come after the receive timeout

ASSUME ClockAssumption ==
    /\ {Period, Capacity, Batch, MaxTime} \subseteq Nat \ {0}
    /\ {Tolerance, MaxLost, MaxLate} \subseteq Nat

VARIABLES
    backend,    \* active_backend: "fmu" or "gazebo"
    now,        \* last_sim_time_ns
    lastSeen,   \* catch_up: the time it last asked for
    asked,      \* catch_up: the time it waits for, or None
    requests,   \* requests under way to ServoService
    handlers,   \* the times of the requests whose handler waits
    runUntil,   \* run_until_time_s_
    latest,     \* latest_time_s_
    stepper,    \* advanceSimThread: where it is
    initial,    \* advanceSimThread: it is still in sendInitialPacket
    response,   \* advanceSimThread: the answer in hand, or NoResponse
    lastResponse, \* last_response_
    buffer,     \* imu_buffer_, the times of its samples
    batch,      \* the samples the firmware read last
    simTime,    \* the physics engine's own time
    frames,     \* servo frames under way to the engine
    answers,    \* states under way to, or in, the service's socket
    lost, late, timeouts  \* datagrams lost, answers late, receive timeouts

board  == <<backend, now>>
catch  == <<lastSeen, asked>>
calls  == <<requests, handlers, runUntil>>
thread == <<stepper, initial, response, lastResponse, latest, buffer>>
net    == <<frames, answers, lost>>
counts == <<late, timeouts>>
vars   == <<board, catch, calls, thread, batch, simTime, net, counts>>

None       == -1
NoResponse == 0
Times      == 0..(MaxTime + MaxLost + MaxLate + 1)

Init ==
    /\ backend \in {"fmu", "gazebo"}
    /\ now = 0 /\ lastSeen = None /\ asked = None
    /\ requests = <<>> /\ handlers = {} /\ runUntil = 0 /\ latest = 0
    /\ stepper = "check" /\ initial = TRUE
    /\ response = NoResponse /\ lastResponse = NoResponse
    /\ buffer = <<>> /\ batch = <<>>
    /\ simTime = 0 /\ frames = 0 /\ answers = <<>>
    /\ lost = 0 /\ late = 0 /\ timeouts = 0

-----------------------------------------------------------------------------
(* The board's tick and the plugin.                                        *)

\* Where fmu_advance_simulation may leave the plant: at the target, or
\* short of it when a step fails, or ends the loop early with an event.
FmuReaches(target) ==
    IF target <= simTime THEN {simTime} ELSE simTime..target

\* kick_irq: the FMU is stepped first; the time is published whatever came
\* of it, and the interrupt is raised.
KickIrq ==
    /\ now + Period <= MaxTime
    /\ now' = now + Period
    /\ IF backend = "fmu" THEN simTime' \in FmuReaches(now')
                          ELSE UNCHANGED simTime
    /\ UNCHANGED <<backend, catch, calls, thread, batch, net, counts>>

\* catch_up sees a time it has not asked for, and asks for it.
Ask ==
    /\ backend = "gazebo" /\ asked = None /\ now # lastSeen
    /\ asked' = now
    /\ requests' = Append(requests, now)
    /\ UNCHANGED <<board, lastSeen, handlers, runUntil, thread, batch,
                   simTime, net, counts>>

\* The request's 5 s pass: the thread logs it and takes the time for seen.  A
\* request that was not delivered by then, the last one, may never be.
Undelivered == requests # <<>> /\ Last(requests) = asked

AskTimesOut ==
    /\ asked # None
    /\ lastSeen' = asked /\ asked' = None
    /\ \/ UNCHANGED requests
       \/ Undelivered /\ requests' = Front(requests)
    /\ UNCHANGED <<board, handlers, runUntil, thread, batch, simTime, net,
                   counts>>

-----------------------------------------------------------------------------
(* ServoService's request handlers.  ReceiveResponse holds the mutex while *)
(* it waits for a datagram; every other section under it is one step.      *)

MutexFree == stepper # "receive"

\* OnServiceRequest takes the request's time as the new target.
HandleRequest ==
    /\ requests # <<>> /\ MutexFree
    /\ runUntil' = Head(requests)
    /\ handlers' = handlers \cup {Head(requests)}
    /\ requests' = Tail(requests)
    /\ UNCHANGED <<board, catch, thread, batch, simTime, net, counts>>

\* Mutant: a step the stepper is about to make counts as made.
CaughtUpSoon == runUntil - latest <= Tolerance + 1

\* The handler's wait is over: it compares without the mutex, and with the
\* target as it is now.
CaughtUp == runUntil - latest <= Tolerance

\* OnServiceRequest returns TRUE; catch_up has its answer if it still waits.
AnswerRequest(t) ==
    /\ t \in handlers /\ CaughtUp
    /\ handlers' = handlers \ {t}
    /\ IF asked = t THEN lastSeen' = t /\ asked' = None
                    ELSE UNCHANGED catch
    /\ UNCHANGED <<board, requests, runUntil, thread, batch, simTime, net,
                   counts>>

-----------------------------------------------------------------------------
(* ServoService's stepper thread.                                          *)

\* Mutant: the target is taken for not yet reached when it is just reached.
BehindOrAt == latest <= runUntil
\* Mutant: the stepper stops where the handlers are content.
BehindTolerance == runUntil - latest > Tolerance
Behind == latest < runUntil

\* SendServos: one frame, for the initial packet or while the engine is
\* behind the target.
SendServos ==
    /\ backend = "gazebo" /\ stepper = "check"
    /\ initial \/ Behind
    /\ stepper' = "sent" /\ frames' = frames + 1
    /\ UNCHANGED <<board, catch, calls, initial, response, lastResponse,
                   latest, buffer, batch, simTime, answers, lost, counts>>

\* ReceiveResponse takes the mutex and waits for a datagram.
StartReceive ==
    /\ stepper = "sent"
    /\ stepper' = "receive"
    /\ UNCHANGED <<board, catch, calls, initial, response, lastResponse,
                   latest, buffer, batch, simTime, net, counts>>

\* A datagram is there: the oldest one, of whichever frame.
Receive ==
    /\ stepper = "receive" /\ answers # <<>>
    /\ stepper' = "store"
    /\ response' = Head(answers) /\ answers' = Tail(answers)
    /\ UNCHANGED <<board, catch, calls, initial, lastResponse, latest,
                   buffer, batch, simTime, frames, lost, counts>>

\* The socket's 1 s pass: the loop begins anew; only the initial packet
\* stores the empty response.
ReceiveTimesOut ==
    /\ stepper = "receive" /\ answers = <<>>
    /\ IF frames = 0 THEN UNCHANGED late
                     ELSE late < MaxLate /\ late' = late + 1
    /\ timeouts' = timeouts + 1
    /\ stepper' = "check" /\ initial' = FALSE
    /\ UNCHANGED <<board, catch, calls, response, lastResponse, latest,
                   buffer, batch, simTime, net>>

StoreResponse ==
    /\ stepper = "store"
    /\ stepper' = "time" /\ lastResponse' = response
    /\ UNCHANGED <<board, catch, calls, initial, response, latest, buffer,
                   batch, simTime, net, counts>>

\* The response's time becomes the latest; the initial packet's sample is
\* not kept.
PublishTime ==
    /\ stepper = "time"
    /\ latest' = response
    /\ stepper' = IF initial THEN "check" ELSE "sample"
    /\ initial' = FALSE
    /\ UNCHANGED <<board, catch, calls, response, lastResponse, buffer,
                   batch, simTime, net, counts>>

\* push_back on the circular buffer drops the oldest sample of a full one.
Pushed(sample) ==
    IF Len(buffer) = Capacity THEN Append(Tail(buffer), sample)
                              ELSE Append(buffer, sample)

PushSample ==
    /\ stepper = "sample"
    /\ buffer' = Pushed(response)
    /\ response' = NoResponse /\ stepper' = "check"
    /\ UNCHANGED <<board, catch, calls, initial, lastResponse, latest,
                   batch, simTime, net, counts>>

Stepper ==
    SendServos \/ StartReceive \/ Receive \/ ReceiveTimesOut
        \/ StoreResponse \/ PublishTime \/ PushSample

-----------------------------------------------------------------------------
(* The firmware reads its IMU: the oldest samples, the last one repeated   *)
(* where there are too few.  An empty buffer is a failed read.             *)

\* Mutant: the newest samples come first.
FirmwareBatchNewest ==
    [i \in 1..Batch |-> buffer[Max({1, Len(buffer) + 1 - i})]]

FirmwareBatch ==
    [i \in 1..Batch |-> buffer[Min({i, Len(buffer)})]]

ReadImu ==
    /\ backend = "gazebo" /\ MutexFree /\ buffer # <<>>
    /\ batch' = FirmwareBatch
    /\ UNCHANGED <<board, catch, calls, thread, simTime, net, counts>>

-----------------------------------------------------------------------------
(* The simulator and UDP.                                                  *)

SimStep ==
    /\ frames > 0
    /\ frames' = frames - 1
    /\ simTime' = simTime + 1
    /\ answers' = Append(answers, simTime + 1)
    /\ UNCHANGED <<board, catch, calls, thread, batch, lost, counts>>

Lose ==
    /\ lost < MaxLost
    /\ lost' = lost + 1
    /\ \/ frames > 0 /\ frames' = frames - 1 /\ UNCHANGED answers
       \/ answers # <<>> /\ answers' = Tail(answers) /\ UNCHANGED frames
    /\ UNCHANGED <<board, catch, calls, thread, batch, simTime, counts>>

Next ==
    \/ KickIrq \/ Ask \/ AskTimesOut
    \/ HandleRequest \/ \E t \in handlers : AnswerRequest(t)
    \/ Stepper \/ ReadImu \/ SimStep \/ Lose

\* ServoService's threads are scheduled by the host, the simulator steps
\* whenever it has a frame; the board may stop ticking and a request that
\* was given up may never be delivered.
Spec ==
    /\ Init /\ [][Next]_vars
    /\ WF_vars(Stepper) /\ WF_vars(SimStep)
    /\ \A t \in 0..MaxTime : WF_vars(AnswerRequest(t))

-----------------------------------------------------------------------------
(* Properties                                                              *)

\* Every variable keeps its shape: times stay in range and the sample
\* buffer never exceeds imu_buffer_.
TypeOK ==
    /\ backend \in {"fmu", "gazebo"}
    /\ now \in 0..MaxTime
    /\ lastSeen \in 0..MaxTime \cup {None} /\ asked \in 0..MaxTime \cup {None}
    /\ requests \in Seq(0..MaxTime) /\ handlers \subseteq 0..MaxTime
    /\ runUntil \in 0..MaxTime
    /\ {latest, simTime, response, lastResponse} \subseteq Times
    /\ stepper \in {"check", "sent", "receive", "store", "time", "sample"}
    /\ initial \in BOOLEAN
    /\ buffer \in BoundedSeq(Times, Capacity)
    /\ batch = <<>> \/ batch \in [1..Batch -> Times]
    /\ frames \in Times /\ answers \in Seq(Times)
    /\ lost \in 0..MaxLost /\ late \in 0..MaxLate
    /\ timeouts \in 0..(MaxLost + MaxLate)

\* The engine runs past the time the board asked for by at most one step for
\* each receive timeout (and the initial packet): a frame whose answer is late
\* or lost is sent again, and the step it made is never taken back.
NotPastTheRequest ==
    IF backend = "fmu"
    THEN simTime <= now
    ELSE simTime + frames <= Max({1, runUntil}) + timeouts

\* When a request is answered TRUE, the engine has reached its time but for
\* the tolerance, whatever was lost, late or asked in between.
SuccessMeansReached ==
    [][\A t \in handlers : t \notin handlers' => simTime >= t - Tolerance]_vars

\* The window of samples the firmware reads only moves forward: a batch is in
\* the order of time, and none of its samples is older than the one in the
\* same place of the batch before.  Reading does not drain the buffer, so two
\* batches overlap, or are the same, and the first sample of one may well be
\* older than the last of the one before: that is not excluded.
BatchesMoveForward ==
    [][batch' # batch /\ batch # <<>> =>
          /\ \A i \in 1..Batch : batch'[i] >= batch[i]
          /\ \A i \in 1..(Batch - 1) : batch'[i] <= batch'[i + 1]]_vars

\* A request whose handler has begun is answered, and the engine gets all the
\* way to its time, though datagrams are lost and answers late.
RequestIsServed ==
    \A t \in 0..MaxTime :
        (t \in handlers) ~> (t \notin handlers /\ simTime >= t)

=============================================================================
