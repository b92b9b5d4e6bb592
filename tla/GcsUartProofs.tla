--------------------------- MODULE GcsUartProofs ----------------------------
(***************************************************************************)
(* The ring buffer and the serial port over it, for every size of the ring *)
(* and every limit, length and number of datagrams.                        *)
(***************************************************************************)
EXTENDS GcsUart, TLAPS

-----------------------------------------------------------------------------
(* The indices of the ring.                                                *)

\* Going once around the ring.
LEMMA AroundOnce ==
  \A x \in 0 .. 2 * size - 1 : x % size = IF x < size THEN x ELSE x - size
BY RingAssumption

Index == 0 .. size - 1
RingTypeOK == head \in Index /\ tail \in Index /\ buffer \in [Index -> Byte]

\* The place of an index d entries after another.
Place(t, d) == IF t + d < size THEN t + d ELSE t + d - size

LEMMA RingFacts ==
  ASSUME RingTypeOK
  PROVE  /\ size \in Nat /\ size > 1
         /\ Count = IF tail <= head THEN head - tail ELSE head + size - tail
         /\ Count \in 0 .. size - 1
         /\ After(head) = IF head = size - 1 THEN 0 ELSE head + 1
         /\ After(tail) = IF tail = size - 1 THEN 0 ELSE tail + 1
         /\ After(head) \in Index /\ After(tail) \in Index
         /\ Full(head, tail) <=> Count = size - 1
         /\ Empty <=> Count = 0
<1>1. size \in Nat /\ size > 1
  BY RingAssumption
<1>2. /\ head \in Nat /\ tail \in Nat /\ head < size /\ tail < size
      /\ head + size - tail \in 0 .. 2 * size - 1
      /\ head + 1 \in 0 .. 2 * size - 1 /\ tail + 1 \in 0 .. 2 * size - 1
  BY <1>1 DEF RingTypeOK, Index
<1>3. Count = IF tail <= head THEN head - tail ELSE head + size - tail
  BY <1>1, <1>2, AroundOnce DEF Count
<1>4. /\ After(head) = IF head = size - 1 THEN 0 ELSE head + 1
      /\ After(tail) = IF tail = size - 1 THEN 0 ELSE tail + 1
  BY <1>1, <1>2, AroundOnce DEF After
<1>5. Count \in 0 .. size - 1 /\ After(head) \in Index /\ After(tail) \in Index
  BY <1>1, <1>2, <1>3, <1>4 DEF Index
<1>6. Full(head, tail) <=> Count = size - 1
  BY <1>1, <1>2, <1>3, <1>4 DEF Full
<1>7. Empty <=> Count = 0
  BY <1>1, <1>2, <1>3 DEF Empty
<1> QED
  BY <1>1, <1>3, <1>4, <1>5, <1>6, <1>7

\* The content, without a modulus.
LEMMA ContentsAre ==
  ASSUME RingTypeOK
  PROVE  /\ Contents \in Seq(Byte) /\ Len(Contents) = Count
         /\ Contents = [j \in 1 .. Count |-> buffer[Place(tail, j - 1)]]
         /\ \A j \in 1 .. Count : Place(tail, j - 1) \in Index
<1>1. size \in Nat /\ size > 1 /\ Count \in 0 .. size - 1
  BY RingFacts
<1>2. ASSUME NEW j \in 1 .. Count
      PROVE  /\ (tail + j - 1) % size = Place(tail, j - 1)
             /\ Place(tail, j - 1) \in Index
  <2>1. tail + j - 1 \in 0 .. 2 * size - 1 /\ tail \in Nat /\ tail < size
    BY <1>1, <1>2 DEF RingTypeOK, Index
  <2> QED
    BY <1>1, <1>2, <2>1, AroundOnce DEF Place, Index
<1>3. Contents = [j \in 1 .. Count |-> buffer[Place(tail, j - 1)]]
  BY <1>2 DEF Contents, Count
<1>4. \A j \in 1 .. Count : buffer[Place(tail, j - 1)] \in Byte
  BY <1>2 DEF RingTypeOK
<1> QED
  BY <1>1, <1>2, <1>3, <1>4

-----------------------------------------------------------------------------
(* The ring is the queue.                                                  *)

\* A put appends to the queue, or leaves a full one alone.
LEMMA PutIsPut ==
  ASSUME RingTypeOK, NEW b \in Byte, RingPut(b)
  PROVE  /\ RingTypeOK' /\ Queue!Put(b)
         /\ Count' = IF PutOk THEN Count + 1 ELSE Count
         /\ PutOk <=> Count < size - 1
<1>1. /\ size \in Nat /\ size > 1 /\ Count \in 0 .. size - 1
      /\ Count = IF tail <= head THEN head - tail ELSE head + size - tail
      /\ After(head) = IF head = size - 1 THEN 0 ELSE head + 1
      /\ After(head) \in Index
      /\ PutOk <=> Count # size - 1
  BY RingFacts DEF PutOk
<1>2. CASE ~PutOk
  <2>1. UNCHANGED ring
    BY <1>2 DEF RingPut
  <2>2. Contents' = Contents /\ RingTypeOK' /\ Count' = Count
    BY <2>1 DEF ring, Contents, RingTypeOK, Count
  <2>3. Len(Contents) = size - 1
    BY <1>1, <1>2, ContentsAre
  <2> QED
    BY <1>1, <1>2, <2>2, <2>3 DEF Queue!Put
<1>3. CASE PutOk
  <2>1. /\ buffer' = [buffer EXCEPT ![head] = b]
        /\ head' = After(head) /\ tail' = tail
    BY <1>3 DEF RingPut
  <2>2. RingTypeOK'
    BY <1>1, <2>1 DEF RingTypeOK
  <2>3. Count' = IF tail' <= head' THEN head' - tail' ELSE head' + size - tail'
    <3>1. /\ head' \in Nat /\ tail' \in Nat /\ head' < size /\ tail' < size
          /\ head' + size - tail' \in 0 .. 2 * size - 1
      BY <1>1, <2>1 DEF RingTypeOK, Index
    <3> QED
      BY <1>1, <3>1, AroundOnce DEF Count
  <2>4. Count' = Count + 1
    BY <1>1, <1>3, <2>1, <2>3 DEF RingTypeOK, Index
  <2>5. Contents' = [j \in 1 .. Count' |-> buffer'[(tail' + j - 1) % size]]
    BY DEF Contents, Count
  <2>6. ASSUME NEW j \in 1 .. Count + 1
        PROVE  /\ (tail + j - 1) % size = Place(tail, j - 1)
               /\ Place(tail, j - 1) \in Index
               /\ Place(tail, j - 1) = head <=> j = Count + 1
    <3>1. tail + j - 1 \in 0 .. 2 * size - 1 /\ tail \in 0 .. size - 1
          /\ head \in 0 .. size - 1
      BY <1>1, <1>3, <2>6 DEF RingTypeOK, Index
    <3>2. (tail + j - 1) % size = Place(tail, j - 1)
      BY <1>1, <2>6, <3>1, AroundOnce DEF Place
    <3>3. Place(tail, j - 1) \in Index /\ (Place(tail, j - 1) = head <=> j = Count + 1)
      BY <1>1, <1>3, <2>6, <3>1 DEF Place, Index
    <3> QED
      BY <3>2, <3>3
  <2>7. Contents' = [j \in 1 .. Count + 1 |->
                       IF j = Count + 1 THEN b ELSE buffer[Place(tail, j - 1)]]
    BY <2>1, <2>4, <2>5, <2>6 DEF RingTypeOK
  <2>8. /\ Contents \in Seq(Byte) /\ Len(Contents) = Count
        /\ Contents = [j \in 1 .. Count |-> buffer[Place(tail, j - 1)]]
    BY ContentsAre
  <2>9. Append(Contents, b) = [j \in 1 .. Count + 1 |->
                                 IF j = Count + 1 THEN b ELSE Contents[j]]
    BY <1>1, <2>8
  <2>10. Contents' = Append(Contents, b)
    <3>1. \A j \in 1 .. Count + 1 : j # Count + 1 => Contents[j] = buffer[Place(tail, j - 1)]
      BY <1>1, <2>8
    <3> QED
      BY <2>7, <2>9, <3>1
  <2> QED
    BY <1>1, <1>3, <2>2, <2>4, <2>8, <2>10 DEF Queue!Put
<1> QED
  BY <1>2, <1>3

\* A get takes the oldest byte.
LEMMA GetIsGet ==
  ASSUME RingTypeOK, RingGet
  PROVE  RingTypeOK' /\ Queue!Get /\ Count' = Count - 1
<1>1. /\ size \in Nat /\ size > 1 /\ Count \in 0 .. size - 1
      /\ Count = IF tail <= head THEN head - tail ELSE head + size - tail
      /\ After(tail) = IF tail = size - 1 THEN 0 ELSE tail + 1
      /\ After(tail) \in Index
      /\ Count # 0
  BY RingFacts DEF RingGet
<1>2. tail' = After(tail) /\ buffer' = buffer /\ head' = head
  BY DEF RingGet
<1>3. RingTypeOK'
  BY <1>1, <1>2 DEF RingTypeOK
<1>4. Count' = Count - 1
  <2>1. /\ head' \in Nat /\ tail' \in Nat /\ head' < size /\ tail' < size
        /\ head' + size - tail' \in 0 .. 2 * size - 1
    BY <1>1, <1>2 DEF RingTypeOK, Index
  <2>2. Count' = IF tail' <= head' THEN head' - tail' ELSE head' + size - tail'
    BY <1>1, <2>1, AroundOnce DEF Count
  <2> QED
    BY <1>1, <1>2, <2>2 DEF RingTypeOK, Index
<1>5. /\ Contents \in Seq(Byte) /\ Len(Contents) = Count
      /\ Contents = [j \in 1 .. Count |-> buffer[Place(tail, j - 1)]]
  BY ContentsAre
<1>6. Contents' = [j \in 1 .. Count - 1 |-> buffer[Place(tail, j)]]
  <2>1. Contents' = [j \in 1 .. Count' |-> buffer'[(tail' + j - 1) % size]]
    BY DEF Contents, Count
  <2>2. ASSUME NEW j \in 1 .. Count - 1
        PROVE  (tail' + j - 1) % size = Place(tail, j)
    <3>1. tail \in 0 .. size - 1 /\ tail' + j - 1 \in 0 .. 2 * size - 1
      BY <1>1, <1>2, <2>2 DEF RingTypeOK, Index
    <3> DEFINE x == tail' + j - 1
    <3>2. x = IF tail = size - 1 THEN j - 1 ELSE tail + j
      BY <1>1, <1>2, <2>2, <3>1
    <3>3. x % size = IF x < size THEN x ELSE x - size
      <4> HIDE DEF x
      <4> QED
        BY <3>1, AroundOnce DEF x
    <3> HIDE DEF x
    <3>4. x % size = Place(tail, j)
      BY <1>1, <2>2, <3>1, <3>2, <3>3 DEF Place
    <3> QED
      BY <3>4 DEF x
  <2> QED
    BY <1>2, <1>4, <2>1, <2>2
<1>7. Contents # <<>> /\ Tail(Contents) = [j \in 1 .. Count - 1 |-> Contents[j + 1]]
  BY <1>1, <1>5
<1>8. \A j \in 1 .. Count - 1 : Contents[j + 1] = buffer[Place(tail, j)]
  BY <1>1, <1>5
<1> QED
  BY <1>3, <1>4, <1>6, <1>7, <1>8 DEF Queue!Get

-----------------------------------------------------------------------------
(* The listeners and the hooks on the ring.                                *)

Places == {"off", "recv", "learn", "flag", "count", "put"}
Busy   == {"learn", "flag", "count", "put"}

\* A busy listener holds a datagram with bytes left, and the firmware was told
\* of no more bytes than there are.
UInv ==
  /\ RingTypeOK
  /\ listener \in [Listeners -> Places]
  /\ packet \in [Listeners -> Nat]
  /\ n \in [Listeners -> Nat] /\ i \in [Listeners -> Nat]
  /\ \A l \in Listeners : listener[l] \in Busy =>
        packet[l] \in 1 .. MaxPackets /\ n[l] \in Sizes /\ i[l] < n[l]
  /\ available \in Nat /\ available <= Count

\* What a listener puts is a byte of its datagram.
LEMMA ByteOfPacket ==
  ASSUME NEW l \in Listeners, NEW p \in 1 .. MaxPackets, NEW c \in Sizes,
         NEW k \in 1 .. c
  PROVE  <<l, p, k>> \in Byte
<1>1. k \in UNION {1 .. d : d \in Sizes}
  OBVIOUS
<1> QED
  BY <1>1, GcsAssumption

LEMMA SizesAre == \A c \in Sizes : c \in Nat /\ c > 0
BY GcsAssumption

\* A step of a listener that leaves the ring alone.
LEMMA ListenStep ==
  ASSUME UInv, NEW l \in Listeners, Receive(l) \/ Learn(l) \/ CheckRoom(l)
  PROVE  UInv' /\ UNCHANGED ring /\ available' = available
<1>1. UNCHANGED ring /\ available' = available
  BY DEF Receive, Learn, CheckRoom, cpu
<1>2. RingTypeOK' /\ Count' = Count
  BY <1>1 DEF UInv, RingTypeOK, ring, Count
<1>3. CASE Receive(l)
  <2>1. PICK length \in Sizes : n' = [n EXCEPT ![l] = length]
    BY <1>3 DEF Receive
  <2>2. PICK place \in {"learn", "count"} : listener' = [listener EXCEPT ![l] = place]
    BY <1>3 DEF Receive, At
  <2>3. /\ packet' = [packet EXCEPT ![l] = packet[l] + 1]
        /\ i' = [i EXCEPT ![l] = 0] /\ packet[l] < MaxPackets
    BY <1>3 DEF Receive
  <2> QED
    BY <1>1, <1>2, <2>1, <2>2, <2>3, SizesAre, GcsAssumption DEF UInv, Places, Busy
<1>4. CASE Learn(l) \/ CheckRoom(l)
  <2>1. PICK place \in {"flag", "count", "put", "recv"} :
           listener' = [listener EXCEPT ![l] = place]
    BY <1>4 DEF Learn, CheckRoom, At
  <2>2. listener[l] \in Busy /\ UNCHANGED <<packet, n, i>>
    BY <1>4 DEF Learn, CheckRoom, Busy
  <2> QED
    BY <1>1, <1>2, <2>1, <2>2 DEF UInv, Places, Busy
<1> QED
  BY <1>3, <1>4

\* A byte is put.
LEMMA PutStep ==
  ASSUME UInv, NEW l \in Listeners, PutByte(l)
  PROVE  /\ UInv'
         /\ \E b \in Byte : Queue!Put(b)
         /\ Count' = IF PutOk THEN Count + 1 ELSE Count
         /\ PutOk <=> Count < size - 1
<1> DEFINE b == <<l, packet[l], i[l] + 1>>
<1>1. b \in Byte
  <2>1. packet[l] \in 1 .. MaxPackets /\ n[l] \in Sizes /\ i[l] + 1 \in 1 .. n[l]
    BY SizesAre DEF UInv, PutByte, Busy
  <2> QED
    BY <2>1, ByteOfPacket
<1>2. RingTypeOK /\ RingPut(b)
  BY DEF UInv, PutByte
<1> HIDE DEF b
<1>3. /\ RingTypeOK' /\ Queue!Put(b)
      /\ Count' = IF PutOk THEN Count + 1 ELSE Count
      /\ PutOk <=> Count < size - 1
  BY <1>1, <1>2, PutIsPut
<1>4. Count \in Nat /\ Count <= Count'
  BY <1>2, <1>3, RingFacts
<1>5. /\ listener' = [listener EXCEPT ![l] = IF i[l] + 1 = n[l] THEN "recv" ELSE "put"]
      /\ i' = [i EXCEPT ![l] = i[l] + 1] /\ UNCHANGED <<packet, n, available>>
      /\ listener[l] = "put"
  BY DEF PutByte, At, cpu
<1>6. UInv'
  BY <1>3, <1>4, <1>5, SizesAre DEF UInv, Places, Busy
<1> QED
  BY <1>1, <1>3, <1>6

\* A hook of the firmware.
LEMMA HookStep ==
  ASSUME UInv, Hooks
  PROVE  /\ UInv'
         /\ UNCHANGED Contents \/ Queue!Get
         /\ Count' <= Count
         /\ available > 0 /\ available' = available - 1 => r0' # "null"
<1>1. /\ Count \in Nat /\ (Empty <=> Count = 0) /\ RingTypeOK
  BY RingFacts DEF UInv
<1>2. ASSUME Start
      PROVE  \/ UNCHANGED listener
             \/ listener' = [l \in Listeners |-> "recv"]
  BY <1>2 DEF Start
<1>3. CASE BytesAvailable
  <2>1. /\ UNCHANGED ring /\ available' = Count /\ r0' = "none"
        /\ UNCHANGED <<packet, n, i>>
    BY <1>3 DEF BytesAvailable
  <2>2. RingTypeOK' /\ Count' = Count /\ Contents' = Contents
    BY <1>1, <2>1 DEF RingTypeOK, ring, Count, Contents
  <2> QED
    BY <1>1, <1>2, <1>3, <2>1, <2>2 DEF UInv, BytesAvailable, Places, Busy
<1>4. CASE GcsRead
  <2>1. /\ UNCHANGED <<packet, n, i>>
        /\ available' = IF available > 0 THEN available - 1 ELSE 0
        /\ Empty => r0' = "null" /\ UNCHANGED ring
        /\ ~Empty => r0' = "byte" /\ RingGet
    BY <1>4 DEF GcsRead
  <2>2. CASE Empty
    <3>1. RingTypeOK' /\ Count' = Count /\ Contents' = Contents
      BY <1>1, <2>1, <2>2 DEF RingTypeOK, ring, Count, Contents
    <3> QED
      BY <1>1, <1>2, <1>4, <2>1, <2>2, <3>1 DEF UInv, GcsRead, Places, Busy
  <2>3. CASE ~Empty
    <3>1. RingTypeOK' /\ Count' = Count - 1 /\ Queue!Get
      BY <1>1, <2>1, <2>3, GetIsGet
    <3> QED
      BY <1>1, <1>2, <1>4, <2>1, <2>3, <3>1 DEF UInv, GcsRead, Places, Busy
  <2> QED
    BY <2>2, <2>3
<1>5. CASE SendMessage
  <2>1. UNCHANGED <<ring, listener, packet, n, i, available>>
    BY <1>5 DEF SendMessage, thread
  <2>2. RingTypeOK' /\ Count' = Count /\ Contents' = Contents
    BY <1>1, <2>1 DEF RingTypeOK, ring, Count, Contents
  <2> QED
    BY <1>1, <2>1, <2>2 DEF UInv
<1> QED
  BY <1>3, <1>4, <1>5 DEF Hooks

\* Every step keeps the invariant and is a step of the queue.
LEMMA UartStep ==
  ASSUME UInv, [Next]_vars
  PROVE  /\ UInv'
         /\ UNCHANGED Contents \/ Queue!Get \/ \E b \in Byte : Queue!Put(b)
         /\ available > 0 /\ available' = available - 1 => r0' # "null"
<1>1. CASE Hooks
  BY <1>1, HookStep
<1>2. ASSUME NEW l \in Listeners, Receive(l) \/ Learn(l) \/ CheckRoom(l)
      PROVE  UInv' /\ UNCHANGED Contents /\ available' = available
  BY <1>2, ListenStep DEF Contents, ring
<1>3. ASSUME NEW l \in Listeners, PutByte(l)
      PROVE  UInv' /\ available' = available /\ \E b \in Byte : Queue!Put(b)
  BY <1>3, PutStep DEF PutByte, cpu
<1>4. CASE UNCHANGED vars
  BY <1>4 DEF vars, ring, thread, cpu, UInv, RingTypeOK, Count, Contents
<1>5. available \in Nat
  BY DEF UInv
<1> QED
  BY <1>1, <1>2, <1>3, <1>4, <1>5 DEF Next, UdpListener

LEMMA UartInitially == Init => UInv /\ Contents = <<>>
<1> SUFFICES ASSUME Init PROVE UInv /\ Contents = <<>>
  OBVIOUS
<1>1. RingTypeOK /\ head = 0 /\ tail = 0
  <2> DEFINE first == CHOOSE b \in Byte : TRUE
  <2>1. first \in Byte
    BY RingAssumption
  <2>2. buffer = [j \in 0 .. size - 1 |-> first] /\ head = 0 /\ tail = 0
    BY DEF Init, RingInit
  <2> HIDE DEF first
  <2>3. buffer \in [0 .. size - 1 -> Byte]
    BY <2>1, <2>2
  <2>4. 0 \in 0 .. size - 1
    BY RingAssumption
  <2> QED
    BY <2>2, <2>3, <2>4 DEF RingTypeOK, Index
<1>2. Count = 0
  BY <1>1, RingFacts
<1>3. Contents = <<>>
  BY <1>1, <1>2, ContentsAre
<1> QED
  BY <1>1, <1>2, <1>3 DEF Init, UInv, Places, Busy

LEMMA UartAlways == Spec => []UInv
BY UartInitially, UartStep, PTL DEF Spec

\* ring_buffer_put and ring_buffer_get are the bounded queue that ring_buffer.h
\* describes, with the listeners and the firmware at work on it.
THEOREM RingImplementsQueue == Spec => RingIsQueue
<1>1. Init => Queue!Init
  BY UartInitially DEF Queue!Init
<1>2. UInv /\ [Next]_vars => [Queue!Get \/ \E b \in Byte : Queue!Put(b)]_Contents
  BY UartStep
<1> QED
  BY <1>1, <1>2, UartAlways, PTL DEF Spec, RingIsQueue, Queue!Spec

\* gcs_read gives the byte 0 of an empty ring only to a firmware that reads
\* more than uart_bytes_available told it.
THEOREM NoByteFromNowhere == Spec => NoPhantomByte
<1>1. UInv /\ [Next]_vars =>
         [available > 0 /\ available' = available - 1 => r0' # "null"]_vars
  BY UartStep
<1> QED
  BY <1>1, UartAlways, PTL DEF Spec, NoPhantomByte

-----------------------------------------------------------------------------
(* The address that messages go to.                                        *)

\* What a listener is about to publish, and what is published, is an address
\* that a datagram has come from.
AddrInv ==
  /\ \A l \in Listeners :
        /\ listener[l] \in {"learn", "flag"} => sender \in spoken
        /\ listener[l] = "flag" => gcs_addr \in spoken
  /\ send_sockfd_initialized = TRUE => gcs_addr \in spoken
  /\ reply \in spoken \cup {"none"}

LEMMA AddrStep ==
  ASSUME UInv, AddrInv, [Next]_vars
  PROVE  AddrInv'
<1>1. CASE Hooks
  <2>1. UNCHANGED <<sender, gcs_addr, send_sockfd_initialized, spoken>>
    BY <1>1 DEF Hooks, BytesAvailable, GcsRead, SendMessage, peer, thread
  <2>2. \/ UNCHANGED listener
        \/ listener' = [l \in Listeners |-> "recv"]
    BY <1>1 DEF Hooks, BytesAvailable, GcsRead, SendMessage, Start, thread
  <2>3. reply' \in spoken \cup {"none"}
    BY <1>1 DEF AddrInv, Hooks, BytesAvailable, GcsRead, SendMessage
  <2> QED
    BY <2>1, <2>2, <2>3 DEF AddrInv
<1>2. ASSUME NEW l \in Listeners, Receive(l)
      PROVE  AddrInv'
  <2>1. PICK place \in {"learn", "count"} : listener' = [listener EXCEPT ![l] = place]
    BY <1>2 DEF Receive, At
  <2>2. /\ UNCHANGED <<gcs_addr, send_sockfd_initialized, reply>>
        /\ spoken \subseteq spoken'
    BY <1>2 DEF Receive, cpu
  <2>3. CASE l = "gcs"
    <3>1. sender' \in spoken'
      BY <1>2, <2>3 DEF Receive
    <3> QED
      BY <2>1, <2>2, <3>1 DEF AddrInv, UInv
  <2>4. CASE l # "gcs"
    <3>1. UNCHANGED <<sender, spoken>> /\ listener' = [listener EXCEPT ![l] = "count"]
      BY <1>2, <2>4 DEF Receive, Learns, At
    <3> QED
      BY <2>2, <3>1 DEF AddrInv, UInv
  <2> QED
    BY <2>3, <2>4
<1>3. ASSUME NEW l \in Listeners, Learn(l)
      PROVE  AddrInv'
  <2>1. UNCHANGED <<sender, spoken, reply>>
    BY <1>3 DEF Learn, cpu
  <2>2. CASE listener[l] = "learn"
    <3>1. /\ gcs_addr' = sender /\ UNCHANGED send_sockfd_initialized
          /\ listener' = [listener EXCEPT ![l] = "flag"]
      BY <1>3, <2>2 DEF Learn, Publish, At
    <3> QED
      BY <2>1, <2>2, <3>1 DEF AddrInv, UInv
  <2>3. CASE listener[l] = "flag"
    <3>1. UNCHANGED gcs_addr /\ listener' = [listener EXCEPT ![l] = "count"]
      BY <1>3, <2>3 DEF Learn, Publish, At
    <3> QED
      BY <2>1, <2>3, <3>1 DEF AddrInv, UInv
  <2> QED
    BY <1>3, <2>2, <2>3 DEF Learn
<1>4. ASSUME NEW l \in Listeners, CheckRoom(l) \/ PutByte(l)
      PROVE  AddrInv'
  <2>1. UNCHANGED <<sender, peer, cpu>>
    BY <1>4 DEF CheckRoom, PutByte
  <2>2. PICK place \in {"put", "recv"} : listener' = [listener EXCEPT ![l] = place]
    BY <1>4 DEF CheckRoom, PutByte, At
  <2> QED
    BY <2>1, <2>2 DEF AddrInv, UInv, peer, cpu
<1>5. CASE UNCHANGED vars
  BY <1>5 DEF vars, thread, peer, cpu, AddrInv
<1> QED
  BY <1>1, <1>2, <1>3, <1>4, <1>5 DEF Next, UdpListener

\* gcs_send_mavlink_message sends to no address that no ground station has used,
\* although it reads the address without the lock of the listener.
THEOREM RepliesGoHome == Spec => []RepliesHaveAnAddress
<1>1. Init => AddrInv
  BY DEF Init, AddrInv
<1>2. UInv /\ UInv' /\ AddrInv /\ [Next]_vars => AddrInv'
  BY AddrStep
<1>3. AddrInv => RepliesHaveAnAddress
  BY DEF AddrInv, RepliesHaveAnAddress
<1> QED
  BY <1>1, <1>2, <1>3, UartAlways, PTL DEF Spec

-----------------------------------------------------------------------------
(* What is lost of a packet that was let in.                               *)

\* Bytes a listener has still to put.
Rest == [l \in Listeners |-> IF listener[l] = "put" THEN n[l] - i[l] ELSE 0]

\* Each packet was let in with at most Limit bytes in the ring, its own counted.
RoomInv ==
  /\ cut \in [Listeners -> Nat]
  /\ \A l \in Listeners :
        /\ listener[l] \in Busy => cut[l] = 0
        /\ cut[l] <= 1
        /\ Rest[l] <= Limit
  /\ Count + Rest["gcs"] + Rest["gps"] <= 2 * Limit

LEMMA RoomIsNatural == UInv => Count \in Nat /\ \A l \in Listeners : Rest[l] \in Nat
<1>1. UInv => Count \in Nat
  BY RingFacts DEF UInv
<1>2. UInv => \A l \in Listeners : Rest[l] \in Nat
  BY DEF UInv, Rest, Busy
<1> QED
  BY <1>1, <1>2

LEMMA RoomStaysNatural == UInv' => Count' \in Nat /\ \A l \in Listeners : Rest'[l] \in Nat
<1> SUFFICES ASSUME UInv' PROVE Count' \in Nat /\ \A l \in Listeners : Rest'[l] \in Nat
  OBVIOUS
<1>1. ASSUME NEW h \in Index, NEW t \in Index
      PROVE  (h + size - t) % size \in Nat
  <2> DEFINE d == h + size - t
  <2>1. d \in 0 .. 2 * size - 1
    BY RingAssumption DEF Index
  <2> HIDE DEF d
  <2>2. d % size \in Nat
    BY <2>1, AroundOnce, RingAssumption
  <2> QED
    BY <2>2 DEF d
<1>2. head' \in Index /\ tail' \in Index
  BY DEF UInv, RingTypeOK
<1>3. Count' \in Nat
  BY <1>1, <1>2 DEF Count
<1>4. \A l \in Listeners : Rest'[l] \in Nat
  BY DEF UInv, Rest, Busy
<1> QED
  BY <1>3, <1>4

\* A step of one listener that leaves the room it was promised.
LEMMA OneListener ==
  ASSUME UInv, UInv', RoomInv, NEW l \in Listeners,
         cut' \in [Listeners -> Nat],
         \A m \in Listeners \ {l} :
            Rest'[m] = Rest[m] /\ listener'[m] = listener[m] /\ cut'[m] = cut[m],
         listener'[l] \in Busy => cut'[l] = 0,
         cut'[l] <= 1, Rest'[l] <= Limit,
         Count' + Rest'[l] <= Count + Rest[l] \/ Count' + Rest'[l] <= Limit
  PROVE  RoomInv'
<1>1. /\ Count \in Nat /\ Count' \in Nat /\ Limit \in Nat
      /\ \A m \in Listeners : Rest[m] \in Nat /\ Rest'[m] \in Nat
  BY GcsAssumption, RoomIsNatural, RoomStaysNatural
<1>2. PICK m \in Listeners : m # l
  BY DEF Listeners
<1>3. Count' + Rest'[l] + Rest'[m] <= 2 * Limit
  <2>1. /\ Rest[l] \in Nat /\ Rest[m] \in Nat /\ Rest'[l] \in Nat /\ Rest'[m] = Rest[m]
        /\ Rest[m] <= Limit
    BY <1>1, <1>2 DEF RoomInv
  <2>2. Count + Rest[l] + Rest[m] <= 2 * Limit
    BY <1>1, <1>2, <2>1 DEF RoomInv, Listeners
  <2>3. CASE Count' + Rest'[l] <= Count + Rest[l]
    BY <1>1, <2>1, <2>2, <2>3
  <2>4. CASE Count' + Rest'[l] <= Limit
    BY <1>1, <2>1, <2>4
  <2> QED
    BY <2>3, <2>4
<1>4. "gcs" \in Listeners /\ "gps" \in Listeners
  BY DEF Listeners
<1>5. Count' + Rest'["gcs"] + Rest'["gps"] <= 2 * Limit
  BY <1>1, <1>2, <1>3, <1>4 DEF Listeners
<1> QED
  BY <1>2, <1>5 DEF RoomInv, Listeners

LEMMA RoomStep ==
  ASSUME UInv, UInv', RoomInv, [Next]_vars, 2 * Limit <= size
  PROVE  RoomInv'
<1>1. /\ Count \in Nat /\ Limit \in Nat /\ size \in Nat
      /\ \A l \in Listeners : Rest[l] \in Nat
  BY RingFacts, GcsAssumption, RoomIsNatural DEF UInv
<1>2. CASE Hooks
  <2>1. UNCHANGED <<n, i, cut>>
    BY <1>2 DEF Hooks, BytesAvailable, GcsRead, SendMessage, thread
  <2>2. \/ UNCHANGED listener
        \/ listener' = [l \in Listeners |-> "recv"]
    BY <1>2 DEF Hooks, BytesAvailable, GcsRead, SendMessage, Start, thread
  <2>3. \A l \in Listeners : Rest'[l] = Rest[l] \/ Rest'[l] = 0
    BY <2>1, <2>2 DEF Rest
  <2>4. \A l \in Listeners : listener'[l] \in Busy => listener[l] \in Busy
    BY <2>2 DEF Busy
  <2>5. Count' <= Count /\ Count' \in Nat
    BY <1>2, HookStep, RoomStaysNatural
  <2> QED
    BY <1>1, <2>1, <2>3, <2>4, <2>5 DEF RoomInv, Listeners
<1>3. ASSUME NEW l \in Listeners, Receive(l) \/ Learn(l)
      PROVE  RoomInv'
  <2>1. /\ UNCHANGED ring /\ Count' = Count
        /\ \A m \in Listeners \ {l} : n'[m] = n[m] /\ i'[m] = i[m]
    BY <1>3 DEF Receive, Learn, ring, Count, UInv
  <2>2. PICK place \in {"learn", "flag", "count"} : listener' = [listener EXCEPT ![l] = place]
    BY <1>3 DEF Receive, Learn, At
  <2>3. /\ cut' \in [Listeners -> Nat] /\ cut'[l] = 0
        /\ \A m \in Listeners \ {l} : cut'[m] = cut[m]
    BY <1>3 DEF Receive, Learn, RoomInv, Busy
  <2>4. Rest'[l] = 0
    BY <2>2 DEF Rest, UInv
  <2> QED
    <3>1. \A m \in Listeners \ {l} :
             Rest'[m] = Rest[m] /\ listener'[m] = listener[m] /\ cut'[m] = cut[m]
      BY <2>1, <2>2, <2>3 DEF Rest, UInv
    <3>2. Count' + Rest'[l] <= Count + Rest[l] /\ Rest'[l] <= Limit /\ cut'[l] <= 1
      BY <1>1, <2>1, <2>3, <2>4
    <3> QED
      BY <2>3, <3>1, <3>2, OneListener
<1>4. ASSUME NEW l \in Listeners, CheckRoom(l)
      PROVE  RoomInv'
  <2>1. UNCHANGED <<ring, n, i, cut>> /\ Count' = Count
    BY <1>4 DEF CheckRoom, ring, Count
  <2>2. /\ listener' = [listener EXCEPT ![l] = IF Count + n[l] <= Limit THEN "put" ELSE "recv"]
        /\ cut[l] = 0 /\ Rest[l] = 0
    BY <1>4 DEF CheckRoom, At, Fits, RoomInv, Busy, Rest
  <2>3. /\ Rest'[l] <= Limit /\ Rest'[l] \in Nat
        /\ Rest'[l] # 0 => Count' + Rest'[l] <= Limit
    <3>1. Rest'[l] = IF Count + n[l] <= Limit THEN n[l] - i[l] ELSE 0
      BY <2>1, <2>2 DEF Rest, UInv
    <3>2. n[l] \in Nat /\ i[l] \in Nat /\ i[l] < n[l]
      BY <1>4, SizesAre DEF CheckRoom, UInv, Busy
    <3> QED
      BY <1>1, <2>1, <3>1, <3>2
  <2> QED
    BY <1>1, <2>1, <2>2, <2>3, OneListener DEF Rest, RoomInv, UInv
<1>5. ASSUME NEW l \in Listeners, PutByte(l)
      PROVE  RoomInv'
  <2>1. /\ Count' = IF PutOk THEN Count + 1 ELSE Count
        /\ PutOk <=> Count < size - 1
    BY <1>5, PutStep
  <2>2. /\ listener[l] = "put" /\ UNCHANGED n
        /\ listener' = [listener EXCEPT ![l] = IF i[l] + 1 = n[l] THEN "recv" ELSE "put"]
        /\ i' = [i EXCEPT ![l] = i[l] + 1]
        /\ cut' = IF PutOk THEN cut ELSE [cut EXCEPT ![l] = cut[l] + 1]
    BY <1>5 DEF PutByte, At
  <2>3. /\ n[l] \in Nat /\ i[l] \in Nat /\ i[l] < n[l]
        /\ Rest[l] = n[l] - i[l] /\ cut[l] = 0
    BY <2>2, SizesAre DEF UInv, Busy, Rest, RoomInv
  <2>4. Rest'[l] = Rest[l] - 1
    BY <2>2, <2>3 DEF Rest, UInv
  <2>5. CASE PutOk
    BY <1>1, <2>1, <2>2, <2>3, <2>4, <2>5, OneListener DEF Rest, RoomInv, UInv
  <2>6. CASE ~PutOk
    <3>1. Count + Rest[l] <= 2 * Limit
      BY <1>1 DEF RoomInv, Listeners
    <3>2. Rest[l] = 1 /\ i[l] + 1 = n[l]
      BY <1>1, <2>1, <2>3, <2>6, <3>1
    <3>3. listener'[l] = "recv" /\ cut'[l] = 1 /\ cut' \in [Listeners -> Nat]
      BY <2>2, <2>3, <2>6, <3>2 DEF UInv, RoomInv
    <3>4. \A m \in Listeners \ {l} :
             Rest'[m] = Rest[m] /\ listener'[m] = listener[m] /\ cut'[m] = cut[m]
      BY <2>2, <2>6 DEF Rest, UInv, RoomInv
    <3>5. Count' + Rest'[l] <= Count + Rest[l] /\ Rest'[l] <= Limit /\ cut'[l] <= 1
      BY <1>1, <2>1, <2>4, <2>6, <3>2, <3>3
    <3> QED
      BY <3>3, <3>4, <3>5, OneListener DEF Busy
  <2> QED
    BY <2>5, <2>6
<1>6. CASE UNCHANGED vars
  BY <1>6 DEF vars, thread, ring, RoomInv, Rest, Count
<1> QED
  BY <1>2, <1>3, <1>4, <1>5, <1>6 DEF Next, UdpListener

\* Two datagrams let in with the same room cost one of them a byte, no more,
\* because the ring of gcs_receiver.c is twice as large as its limit.
THEOREM CutIsOneByte ==
  ASSUME 2 * Limit <= size
  PROVE  Spec => []CutByOneAtMost
<1>1. Init => RoomInv
  <2> SUFFICES ASSUME Init PROVE RoomInv
    OBVIOUS
  <2>1. Count = 0
    BY UartInitially, RingFacts, ContentsAre DEF UInv
  <2>2. /\ Rest = [l \in Listeners |-> 0] /\ cut = [l \in Listeners |-> 0]
        /\ \A l \in Listeners : listener[l] \notin Busy
    BY DEF Init, Rest, Busy
  <2>3. Count + Rest["gcs"] + Rest["gps"] <= 2 * Limit
    BY <2>1, <2>2, GcsAssumption DEF Listeners
  <2> QED
    BY <2>2, <2>3, GcsAssumption DEF RoomInv
<1>2. UInv /\ UInv' /\ RoomInv /\ [Next]_vars => RoomInv'
  BY RoomStep
<1>3. RoomInv => CutByOneAtMost
  BY DEF RoomInv, CutByOneAtMost
<1> QED
  BY <1>1, <1>2, <1>3, UartAlways, PTL DEF Spec
=============================================================================
