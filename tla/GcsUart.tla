------------------------------ MODULE GcsUart -------------------------------
(***************************************************************************)
(* The serial port of the flight controller that talks to the ground        *)
(* station (gcs_receiver.c and the UART hooks of ardupilot.c).              *)
(*                                                                         *)
(* Two threads, one for the ground station and one for GPS input, put the   *)
(* datagrams they receive into one ring buffer, byte by byte, each byte     *)
(* under the mutex but the packet as a whole under none.  They start when   *)
(* the firmware first asks for data.  The firmware's hooks take bytes out,  *)
(* and send messages to whoever the first datagram came from.               *)
(*                                                                         *)
(* A byte is named by the packet it belongs to and its place in it.         *)
(***************************************************************************)
EXTENDS RingBuffer

CONSTANTS
  Limit,        \* RING_BUFFER_SIZE of gcs_receiver.c (512; the ring has 1024)
  Sizes,        \* lengths of datagrams
  MaxPackets,   \* bound: datagrams per listener
  Endpoints     \* addresses ground stations send from

Listeners == {"gcs", "gps"}
NoOne     == "nobody"

ASSUME GcsAssumption ==
  /\ Limit \in Nat /\ Sizes \subseteq Nat \ {0} /\ MaxPackets \in Nat
  /\ NoOne \notin Endpoints
  /\ Byte = Listeners \X (1 .. MaxPackets) \X UNION {1 .. n : n \in Sizes}

VARIABLES
  gcs_listener_running,
  listener,     \* where a thread is: "off", "recv", "learn", "flag", "count", "put"
  packet,       \* number of the datagram it holds
  n, i,         \* its length; bytes already put
  sender,       \* where the ground station's datagram came from
  gcs_addr, send_sockfd_initialized,
  available,    \* what the firmware was told it may still read
  r0,           \* what the last read gave it
  reply,        \* where the last message of the firmware went
  cut,          \* bytes lost of the packet a thread holds
  spoken        \* endpoints a datagram has come from

thread == <<listener, packet, n, i, sender>>
peer   == <<gcs_addr, send_sockfd_initialized, spoken>>
cpu    == <<gcs_listener_running, available, r0, reply>>
vars   == <<ring, thread, peer, cpu, cut>>

At(l, place) == listener' = [listener EXCEPT ![l] = place]

-----------------------------------------------------------------------------
(* udp_listener                                                            *)

Learns(l) == l = "gcs" /\ ~send_sockfd_initialized

Receive(l) ==
  /\ listener[l] = "recv" /\ packet[l] < MaxPackets
  /\ packet' = [packet EXCEPT ![l] = @ + 1]
  /\ \E length \in Sizes : n' = [n EXCEPT ![l] = length]
  /\ i' = [i EXCEPT ![l] = 0] /\ cut' = [cut EXCEPT ![l] = 0]
  /\ IF l = "gcs" THEN \E e \in Endpoints : sender' = e /\ spoken' = spoken \cup {e}
                  ELSE UNCHANGED <<sender, spoken>>
  /\ At(l, IF Learns(l) THEN "learn" ELSE "count")
  /\ UNCHANGED <<ring, gcs_addr, send_sockfd_initialized, cpu>>

\* The address is stored before the flag that lets the CPU use it.
PublishFlagFirst(step) ==                \* mutant: the other way round
  IF step = "learn" THEN send_sockfd_initialized' = TRUE /\ UNCHANGED gcs_addr
                    ELSE gcs_addr' = sender /\ UNCHANGED send_sockfd_initialized
Publish(step) ==
  IF step = "learn" THEN gcs_addr' = sender /\ UNCHANGED send_sockfd_initialized
                    ELSE send_sockfd_initialized' = TRUE /\ UNCHANGED gcs_addr

Learn(l) ==
  /\ listener[l] \in {"learn", "flag"}
  /\ Publish(listener[l])
  /\ At(l, IF listener[l] = "learn" THEN "flag" ELSE "count")
  /\ UNCHANGED <<ring, packet, n, i, sender, spoken, cpu, cut>>

FitsAlready(count, length) == count <= Limit   \* mutant: the packet is not counted
Fits(count, length) == count + length <= Limit

\* The room is looked at once, before the first byte.
CheckRoom(l) ==
  /\ listener[l] = "count"
  /\ At(l, IF Fits(Count, n[l]) THEN "put" ELSE "recv")
  /\ UNCHANGED <<ring, packet, n, i, sender, peer, cpu, cut>>

\* A byte that does not fit is reported and skipped.
PutByte(l) ==
  /\ listener[l] = "put"
  /\ RingPut(<<l, packet[l], i[l] + 1>>)
  /\ cut' = IF PutOk THEN cut ELSE [cut EXCEPT ![l] = @ + 1]
  /\ i' = [i EXCEPT ![l] = @ + 1]
  /\ At(l, IF i[l] + 1 = n[l] THEN "recv" ELSE "put")
  /\ UNCHANGED <<packet, n, sender, peer, cpu>>

-----------------------------------------------------------------------------
(* The hooks, on the CPU thread.                                           *)

\* start_gcs_listener, from the first hook that needs data
Start ==
  IF gcs_listener_running
    THEN UNCHANGED <<gcs_listener_running, listener>>
    ELSE /\ gcs_listener_running' = TRUE
         /\ listener' = [l \in Listeners |-> "recv"]

\* uart_bytes_available, for a UART of the ground station
BytesAvailable ==
  /\ Start
  /\ available' = Count
  /\ r0' = "none"
  /\ UNCHANGED <<ring, packet, n, i, sender, peer, reply, cut>>

\* gcs_read: an empty ring reads as a byte 0.
GcsRead ==
  /\ Start
  /\ available' = IF available > 0 THEN available - 1 ELSE 0
  /\ IF Empty THEN r0' = "null" /\ UNCHANGED ring
              ELSE r0' = "byte" /\ RingGet
  /\ UNCHANGED <<packet, n, i, sender, peer, reply, cut>>

\* gcs_send_mavlink_message: dropped as long as no address is known, though
\* the firmware is told that it was sent.
SendMessage ==
  /\ reply' = IF send_sockfd_initialized THEN gcs_addr ELSE reply
  /\ UNCHANGED <<ring, thread, peer, gcs_listener_running, available, r0, cut>>

Init ==
  /\ RingInit
  /\ gcs_listener_running = FALSE /\ listener = [l \in Listeners |-> "off"]
  /\ packet = [l \in Listeners |-> 0] /\ n = [l \in Listeners |-> 0]
  /\ i = [l \in Listeners |-> 0] /\ sender = NoOne
  /\ gcs_addr = NoOne /\ send_sockfd_initialized = FALSE /\ spoken = {}
  /\ available = 0 /\ r0 = "none"
  /\ reply = "none" /\ cut = [l \in Listeners |-> 0]

UdpListener(l) == Receive(l) \/ Learn(l) \/ CheckRoom(l) \/ PutByte(l)
Hooks == BytesAvailable \/ GcsRead \/ SendMessage

Next == Hooks \/ \E l \in Listeners : UdpListener(l)

Spec == Init /\ [][Next]_vars

\* The threads run; the firmware keeps asking what is there and reading it.
FairSpec ==
  /\ Spec
  /\ \A l \in Listeners : WF_vars(UdpListener(l))
  /\ WF_vars(available = 0 /\ BytesAvailable) /\ WF_vars(available > 0 /\ GcsRead)

-----------------------------------------------------------------------------
(* Properties.                                                             *)

\* The range of every variable.
TypeOK ==
  /\ head \in 0 .. size - 1 /\ tail \in 0 .. size - 1
  /\ buffer \in [0 .. size - 1 -> Byte]
  /\ listener \in [Listeners -> {"off", "recv", "learn", "flag", "count", "put"}]
  /\ packet \in [Listeners -> 0 .. MaxPackets]
  /\ n \in [Listeners -> Sizes \cup {0}]
  /\ \A l \in Listeners : i[l] \in 0 .. n[l] /\ cut[l] \in 0 .. n[l]
  /\ sender \in Endpoints \cup {NoOne} /\ gcs_addr \in Endpoints \cup {NoOne}
  /\ spoken \subseteq Endpoints /\ reply \in Endpoints \cup {NoOne, "none"}
  /\ gcs_listener_running \in BOOLEAN /\ send_sockfd_initialized \in BOOLEAN
  /\ available \in 0 .. size - 1 /\ r0 \in {"none", "null", "byte"}

\* A firmware that reads no more bytes than it was told are there never gets
\* the byte 0 that stands for an empty ring, whatever the listeners do between.
NoPhantomByte == [][available > 0 /\ available' = available - 1 => r0' # "null"]_vars

\* The room is checked once for a whole packet, while the other listener puts
\* its own: two packets let in with the same room.  What that costs is one byte
\* of a packet at most, since the ring has twice the limit less one.
CutByOneAtMost == \A l \in Listeners : cut[l] <= 1

\* A message of the firmware only ever goes to an address that a ground station
\* has used, although the address and its flag are read without a lock.
RepliesHaveAnAddress == reply \in spoken \cup {"none"}

\* A firmware that keeps polling empties the ring, so that the listeners can
\* take packets again after an overflow.
OverflowPasses == (head # tail) ~> (head = tail)

\* What gcs_receiver.c says of an overflow: the incoming packet is dropped.  So
\* a packet that is let in loses nothing.
PacketsAreWhole == \A l \in Listeners : cut[l] = 0
=============================================================================
