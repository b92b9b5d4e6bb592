-------------------------- MODULE TraceRingProofs ---------------------------
(***************************************************************************)
(* The coverage trace, for every size of the ring, every set of blocks and  *)
(* every nesting of interrupts that the reserved entries leave room for.    *)
(***************************************************************************)
EXTENDS TraceRing, TLAPS

-----------------------------------------------------------------------------
(* Indices.                                                                *)

Index == 0 .. N - 1

\* Going once around the ring, in either direction.
LEMMA AroundOnce ==
  \A x \in -N .. 2 * N - 1 :
    x % N = IF x < 0 THEN x + N ELSE IF x < N THEN x ELSE x - N
BY RingAssumption

\* Entries from one index up to another, and the index so many entries on.
Gap(a, b)   == IF a <= b THEN b - a ELSE b - a + N
Place(a, d) == IF a + d < N THEN a + d ELSE a + d - N

LEMMA IndexFacts ==
  /\ N \in Nat /\ N > 0 /\ Reserve \in 1 .. N
  /\ \A a, b \in Index : /\ (b - a) % N = Gap(a, b) /\ Gap(a, b) \in 0 .. N - 1
                         /\ Gap(a, b) = 0 <=> a = b
  /\ \A a \in Index : Advance(a) = Place(a, 1) /\ Advance(a) \in Index
  /\ \A a \in Index, d \in 0 .. N : (a + d) % N = Place(a, d) /\ Place(a, d) \in Index
<1>1. N \in Nat /\ N > 0 /\ Reserve \in 1 .. N
  BY RingAssumption
<1>2. ASSUME NEW a \in Index, NEW b \in Index
      PROVE  /\ (b - a) % N = Gap(a, b) /\ Gap(a, b) \in 0 .. N - 1
             /\ Gap(a, b) = 0 <=> a = b
  <2>1. b - a \in -N .. 2 * N - 1
    BY <1>1 DEF Index
  <2> QED
    BY <1>1, <2>1, AroundOnce DEF Gap, Index
<1>3. ASSUME NEW a \in Index, NEW d \in 0 .. N
      PROVE  (a + d) % N = Place(a, d) /\ Place(a, d) \in Index
  <2>1. a + d \in -N .. 2 * N - 1
    BY <1>1 DEF Index
  <2> QED
    BY <1>1, <2>1, AroundOnce DEF Place, Index
<1>4. ASSUME NEW a \in Index
      PROVE  Advance(a) = Place(a, 1) /\ Advance(a) \in Index
  BY <1>1, <1>3 DEF Advance
<1> QED
  BY <1>1, <1>2, <1>3, <1>4

\* Moving either end by one entry, and looking d entries on from there.
LEMMA GapFacts ==
  ASSUME NEW a \in Index, NEW b \in Index
  PROVE  /\ Gap(a, b) < N - 1 => Gap(a, Place(b, 1)) = Gap(a, b) + 1
         /\ Gap(a, b) > 0 => Gap(Place(a, 1), b) = Gap(a, b) - 1
         /\ Place(a, Gap(a, b)) = b
         /\ \A d \in 0 .. N - 1 : Place(a, d) = b <=> d = Gap(a, b)
         /\ \A d \in 0 .. N - 1 : Place(Place(a, 1), d) = Place(a, d + 1)
         /\ Place(a, 0) = a
BY IndexFacts DEF Gap, Place, Index

-----------------------------------------------------------------------------
(* The ring.                                                               *)

\* The ring between the tracer and the writer is what is unread.
RingHolds ==
  /\ Gap(tracer_index, index) = Len(unread) + InHand
  /\ \A k \in 1 .. Len(unread) :
       unread[k] = buffer[Place(tracer_index, InHand + k - 1)]

\* Markers that may come before the next block is logged.
Pending == (MaxNest - nest) + (IF fresh = TRUE \/ nest = 0 THEN 0 ELSE 2)

RingInv ==
  /\ TypeOK
  /\ tracer_consumed_index = tracer_index
  /\ RingHolds
  /\ Gap(tracer_index, index) + Pending <= N - Reserve + MaxNest + 1
  /\ tracer = "observe" => unread # <<>> /\ value = Head(unread)

LEMMA RingTypes ==
  ASSUME RingInv
  PROVE  /\ index \in Index /\ tracer_index \in Index /\ tracer_consumed_index \in Index
         /\ unread \in Seq(Entries) /\ Len(unread) \in Nat /\ InHand \in {0, 1}
         /\ Gap(tracer_index, index) \in 0 .. N - 1
         /\ nest \in Nat /\ MaxNest \in Nat /\ nest <= MaxNest /\ fresh \in BOOLEAN
         /\ Pending \in Nat /\ N \in Nat /\ Reserve \in Nat /\ Reserve <= N
         /\ \A k \in 1 .. Len(unread) : InHand + k - 1 \in 0 .. N - 1
<1>1. /\ index \in Index /\ tracer_index \in Index /\ tracer_consumed_index \in Index
      /\ unread \in Seq(Entries) /\ Len(unread) \in Nat /\ InHand \in {0, 1}
      /\ nest \in Nat /\ MaxNest \in Nat /\ nest <= MaxNest /\ fresh \in BOOLEAN
      /\ N \in Nat /\ Reserve \in Nat /\ Reserve <= N
  BY RingAssumption, NestAssumption DEF RingInv, TypeOK, Index, InHand
<1>2. Gap(tracer_index, index) \in 0 .. N - 1 /\ Pending \in Nat
  BY <1>1, IndexFacts DEF Pending
<1>3. Gap(tracer_index, index) = Len(unread) + InHand
  BY DEF RingInv, RingHolds
<1> QED
  BY <1>1, <1>2, <1>3

\* The property of the ring, with and without the modulus.
LEMMA RingIsUnread ==
  ASSUME RingInv
  PROVE  NoEventLost
<1>1. (index - tracer_index) % N = Len(unread) + InHand
  BY RingTypes, IndexFacts DEF RingInv, RingHolds
<1>2. ASSUME NEW k \in 1 .. Len(unread)
      PROVE  unread[k] = buffer[(tracer_index + InHand + k - 1) % N]
  <2> DEFINE d == InHand + k - 1
  <2>1. d \in 0 .. N /\ tracer_index + InHand + k - 1 = tracer_index + d
        /\ tracer_index \in Index
    <3>1. tracer_index \in Index /\ tracer_index \in Nat /\ InHand \in {0, 1} /\ N \in Nat
      BY RingTypes DEF Index
    <3>2. d \in 0 .. N - 1
      BY RingTypes
    <3>3. k \in Nat
      BY RingTypes
    <3> QED
      BY <3>1, <3>2, <3>3
  <2>2. unread[k] = buffer[Place(tracer_index, d)]
    BY <1>2 DEF RingInv, RingHolds
  <2> HIDE DEF d
  <2> QED
    BY <2>1, <2>2, IndexFacts
<1> QED
  BY <1>1, <1>2 DEF NoEventLost

\* An entry is stored behind the unread ones and overwrites none of them.
LEMMA PushStep ==
  ASSUME RingInv, NEW e \in Entries, Push(e), UNCHANGED thread,
         Gap(tracer_index, index) < N - 1
  PROVE  /\ RingHolds'
         /\ buffer' \in [Index -> Entries] /\ index' \in Index
         /\ unread' = Append(unread, e) /\ unread' \in Seq(Entries)
         /\ Gap(tracer_index', index') = Gap(tracer_index, index) + 1
         /\ unread # <<>> => unread' # <<>> /\ Head(unread') = Head(unread)
<1>1. /\ buffer' = [buffer EXCEPT ![index] = e] /\ buffer \in [Index -> Entries]
      /\ index' = Place(index, 1) /\ index' \in Index /\ tracer_index' = tracer_index
      /\ tracer' = tracer /\ unread' = Append(unread, e)
  BY RingTypes, IndexFacts DEF Push, thread, RingInv, TypeOK, Index
<1>2. Gap(tracer_index', index') = Gap(tracer_index, index) + 1
  BY <1>1, RingTypes, GapFacts
<1>3. /\ unread' \in Seq(Entries) /\ Len(unread') = Len(unread) + 1
      /\ unread'[Len(unread) + 1] = e
      /\ \A k \in 1 .. Len(unread) : unread'[k] = unread[k]
      /\ unread # <<>> => unread' # <<>> /\ Head(unread') = Head(unread)
  BY <1>1, RingTypes
<1>4. InHand' = InHand /\ Gap(tracer_index, index) = Len(unread) + InHand
  BY <1>1 DEF InHand, RingInv, RingHolds
<1>5. ASSUME NEW k \in 1 .. Len(unread) + 1
      PROVE  unread'[k] = buffer'[Place(tracer_index, InHand + k - 1)]
  <2> DEFINE d == InHand + k - 1
  <2>1. d \in 0 .. N - 1 /\ (d = Gap(tracer_index, index) <=> k = Len(unread) + 1)
    BY <1>4, <1>5, RingTypes
  <2>2. k \in 1 .. Len(unread) => unread[k] = buffer[Place(tracer_index, d)]
    BY DEF RingInv, RingHolds
  <2> HIDE DEF d
  <2>3. Place(tracer_index, d) \in Index
        /\ (Place(tracer_index, d) = index <=> d = Gap(tracer_index, index))
    BY <2>1, RingTypes, IndexFacts, GapFacts
  <2>4. CASE k = Len(unread) + 1
    BY <1>1, <1>3, <2>1, <2>3, <2>4, RingTypes DEF d
  <2>5. CASE k \in 1 .. Len(unread)
    <3>1. Place(tracer_index, d) # index
      BY <2>1, <2>3, <2>5, RingTypes
    <3> QED
      BY <1>1, <1>3, <2>2, <2>3, <2>5, <3>1 DEF d
  <2> QED
    BY <1>5, <2>4, <2>5, RingTypes
<1>6. RingHolds'
  <2>1. Gap(tracer_index', index') = Len(unread') + InHand'
    BY <1>2, <1>3, <1>4, RingTypes
  <2>2. \A k \in 1 .. Len(unread') :
           unread'[k] = buffer'[Place(tracer_index', InHand' + k - 1)]
    BY <1>1, <1>3, <1>4, <1>5
  <2> QED
    BY <2>1, <2>2 DEF RingHolds
<1> QED
  BY <1>1, <1>2, <1>3, <1>6

\* A block waits for room, and leaves enough for the markers that do not.
LEMMA Room ==
  ASSUME RingInv, Reserve >= MaxNest + 2
  PROVE  /\ HasRoom => Gap(tracer_index, index) < N - Reserve
         /\ (\E b \in Blocks : LogPc(b)) \/ IrqEntry \/ IrqExit =>
              Gap(tracer_index, index) < N - 1
<1>1. HasRoom => Gap(tracer_index, index) < N - Reserve
  BY RingTypes, IndexFacts DEF HasRoom, RingInv
<1>2. (\E b \in Blocks : LogPc(b)) => Gap(tracer_index, index) < N - 1
  BY <1>1, RingTypes, RingAssumption DEF LogPc
<1>3. Gap(tracer_index, index) + Pending <= N - Reserve + MaxNest + 1
  BY DEF RingInv
<1>4. IrqEntry => Pending >= 1
  BY RingTypes DEF IrqEntry, Pending
<1>5. IrqExit => Pending >= 2
  BY RingTypes DEF IrqExit, Pending
<1> QED
  BY <1>1, <1>2, <1>3, <1>4, <1>5, RingTypes

LEMMA Spend ==
  ASSUME NEW g \in Int, NEW p \in Int, NEW q \in Int, NEW m \in Int, q + 1 <= p, g + p <= m
  PROVE  g + 1 + q <= m
OBVIOUS

LEMMA SpendMore ==
  ASSUME NEW g \in Int, NEW r \in Int, NEW q \in Int, NEW m \in Int, g + 1 <= r, q <= m + 1
  PROVE  g + 1 + q <= r + m + 1
OBVIOUS

\* The writer keeps the ring.
LEMMA WriterStep ==
  ASSUME RingInv, Reserve >= MaxNest + 2,
         (\E b \in Blocks : LogPc(b)) \/ IrqEntry \/ IrqExit
  PROVE  RingInv'
<1> DEFINE G == Gap(tracer_index, index)
<1>1. G < N - 1 /\ (HasRoom => G < N - Reserve) /\ G + Pending <= N - Reserve + MaxNest + 1
  BY Room DEF RingInv
<1>2. PICK e \in Entries : Push(e) /\ UNCHANGED thread
  BY DEF LogPc, IrqEntry, IrqExit, Entries
<1>3. /\ RingHolds' /\ buffer' \in [Index -> Entries] /\ index' \in Index
      /\ unread' = Append(unread, e) /\ unread' \in Seq(Entries)
      /\ Gap(tracer_index', index') = G + 1
      /\ unread # <<>> => unread' # <<>> /\ Head(unread') = Head(unread)
  BY <1>1, <1>2, PushStep
<1>4. UNCHANGED <<tracer_consumed_index, tracer_index, value, loaded, tracer,
                  fuzz_irq_depth, fuzz_prev_pc, CVG, fuzz_snap_initialized, cpu, live>>
  BY <1>2 DEF thread, LogPc, IrqEntry, IrqExit, cov
<1>5. ASSUME NEW b \in Blocks, LogPc(b)
      PROVE  TypeOK' /\ G + 1 + Pending' <= N - Reserve + MaxNest + 1
  <2>1. /\ nest' = nest /\ fresh' = FALSE /\ HasRoom
        /\ last' \in {last, b} /\ expected' \subseteq expected \cup Edge(last, b)
    BY <1>5 DEF LogPc
  <2>2. expected' \subseteq Blocks \X Blocks /\ last' \in Blocks \cup {NoPc}
    BY <2>1 DEF RingInv, TypeOK, Edge
  <2>3. TypeOK'
    BY <1>3, <1>4, <2>1, <2>2 DEF RingInv, TypeOK, Index
  <2>4. Pending' <= MaxNest + 1
    BY <2>1, RingTypes DEF Pending
  <2>5. Pending' \in Int
    BY <2>1, RingTypes DEF Pending
  <2>6. G + 1 + Pending' <= N - Reserve + MaxNest + 1
    <3>1. G \in Int /\ N \in Nat /\ Reserve \in Nat /\ MaxNest \in Nat
      BY RingTypes
    <3>2. G < N - Reserve
      BY <1>1, <2>1
    <3> HIDE DEF G
    <3>3. G + 1 <= N - Reserve
      BY <3>1, <3>2
    <3> DEFINE r == N - Reserve
    <3>4. r \in Int /\ MaxNest \in Int /\ G + 1 <= r
      BY <3>1, <3>3
    <3> HIDE DEF r
    <3>5. G + 1 + Pending' <= r + MaxNest + 1
      BY <2>4, <2>5, <3>1, <3>4, SpendMore
    <3> QED
      BY <3>5 DEF r
  <2> QED
    BY <2>3, <2>6
<1>6. CASE IrqEntry
  <2>1. /\ nest' = nest + 1 /\ fresh' = TRUE /\ nest < MaxNest
        /\ last' = last /\ expected' = expected
    BY <1>6 DEF IrqEntry
  <2>2. TypeOK'
    <3>1. nest' \in 0 .. MaxNest /\ fresh' \in BOOLEAN
      BY <2>1, RingTypes
    <3> QED
      BY <1>3, <1>4, <2>1, <3>1 DEF RingInv, TypeOK, Index
  <2>3. Pending' + 1 <= Pending /\ Pending' \in Int
    <3>1. nest \in Nat /\ MaxNest \in Nat /\ fresh \in BOOLEAN
      BY RingTypes
    <3> QED
      BY <2>1, <3>1 DEF Pending
  <2>4. G + 1 + Pending' <= N - Reserve + MaxNest + 1
    <3> DEFINE m == N - Reserve + MaxNest + 1
    <3>1. G \in Int /\ Pending \in Int /\ m \in Int
      BY RingTypes
    <3>2. G + Pending <= m
      BY <1>1
    <3> HIDE DEF G, m
    <3>3. G + 1 + Pending' <= m
      BY <2>3, <3>1, <3>2, Spend
    <3> QED
      BY <3>3 DEF m
  <2> QED
    BY <1>3, <1>4, <2>2, <2>4 DEF RingInv
<1>7. CASE IrqExit
  <2>1. /\ nest' = nest - 1 /\ fresh' = TRUE /\ nest > 0 /\ ~fresh
        /\ last' = last /\ expected' = expected
    BY <1>7 DEF IrqExit
  <2>2. TypeOK'
    <3>1. nest' \in 0 .. MaxNest /\ fresh' \in BOOLEAN
      BY <2>1, RingTypes
    <3> QED
      BY <1>3, <1>4, <2>1, <3>1 DEF RingInv, TypeOK, Index
  <2>3. Pending' + 1 <= Pending /\ Pending' \in Int
    <3>1. nest \in Nat /\ MaxNest \in Nat /\ fresh \in BOOLEAN
      BY RingTypes
    <3> QED
      BY <2>1, <3>1 DEF Pending
  <2>4. G + 1 + Pending' <= N - Reserve + MaxNest + 1
    <3> DEFINE m == N - Reserve + MaxNest + 1
    <3>1. G \in Int /\ Pending \in Int /\ m \in Int
      BY RingTypes
    <3>2. G + Pending <= m
      BY <1>1
    <3> HIDE DEF G, m
    <3>3. G + 1 + Pending' <= m
      BY <2>3, <3>1, <3>2, Spend
    <3> QED
      BY <3>3 DEF m
  <2> QED
    BY <1>3, <1>4, <2>2, <2>4 DEF RingInv
<1> QED
  BY <1>3, <1>4, <1>5, <1>6, <1>7 DEF RingInv

\* The rest of the CPU leaves the ring alone.
LEMMA CpuStep ==
  ASSUME RingInv,
         SnapPoint \/ SyncPoint \/ DrainDone \/ Continue \/ NextInput \/ UNCHANGED vars
  PROVE  RingInv'
<1>1. UNCHANGED <<buffer, index, tracer_consumed_index, tracer_index, value, loaded,
                  tracer, nest, fresh, unread>>
  BY DEF SnapPoint, SyncPoint, DrainDone, Continue, NextInput, vars, ring, thread,
         history
<1>2. /\ fuzz_irq_depth' \in Int /\ fuzz_prev_pc' \in Blocks \cup {NoPc}
      /\ CVG' \subseteq Blocks \X Blocks
      /\ cpu' \in {"run", "drain", "sync"}
      /\ last' \in Blocks \cup {NoPc} /\ expected' \subseteq Blocks \X Blocks
  BY DEF SnapPoint, SyncPoint, DrainDone, Continue, NextInput, vars, cov, history,
         RingInv, TypeOK
<1>3. fuzz_snap_initialized' \in BOOLEAN /\ live' \in BOOLEAN
  <2>1. CASE SnapPoint
    BY <2>1 DEF SnapPoint, history, RingInv, TypeOK
  <2>2. CASE NextInput
    BY <2>2 DEF NextInput, RingInv, TypeOK
  <2>3. CASE ~SnapPoint /\ ~NextInput
    BY <2>3 DEF SyncPoint, DrainDone, Continue, vars, history, RingInv, TypeOK
  <2> QED
    BY <2>1, <2>2, <2>3
<1>4. TypeOK'
  BY <1>1, <1>2, <1>3 DEF RingInv, TypeOK
<1>5. RingHolds' /\ Pending' = Pending
  BY <1>1 DEF RingInv, RingHolds, InHand, Pending
<1> QED
  BY <1>1, <1>4, <1>5 DEF RingInv

\* The tracer takes the oldest entry, and gives its place back afterwards.
LEMMA TracerStep ==
  ASSUME RingInv, Tracer
  PROVE  RingInv'
<1>1. /\ UNCHANGED <<buffer, index, fuzz_snap_initialized, cpu, nest, fresh, last,
                     expected, live>>
      /\ Pending' = Pending
  BY DEF Tracer, TracerRead, TracerObserve, TracerPublish, ring, history, Pending
<1>2. CASE TracerRead
  <2>1. /\ value' = buffer[tracer_index] /\ loaded' = fuzz_irq_depth
        /\ tracer = "poll" /\ tracer' = "observe"
        /\ UNCHANGED <<tracer_consumed_index, tracer_index, unread, fuzz_irq_depth,
                       fuzz_prev_pc, CVG>>
    BY <1>2 DEF TracerRead, cov, history
  <2>2. InHand = 0 /\ InHand' = 0 /\ Len(unread) # 0
    BY <1>2, <2>1, RingTypes, IndexFacts DEF TracerRead, InHand, RingInv, RingHolds
  <2>3. unread # <<>> /\ Head(unread) = unread[1] /\ 1 \in 1 .. Len(unread)
    BY <2>2, RingTypes
  <2>4. unread[1] = buffer[Place(tracer_index, 0)]
    <3>1. InHand + 1 - 1 = 0
      BY <2>2
    <3> QED
      BY <2>3, <3>1 DEF RingInv, RingHolds
  <2>5. value' = Head(unread)
    BY <2>1, <2>3, <2>4, RingTypes, GapFacts
  <2>6. TypeOK'
    BY <1>1, <2>1, RingTypes DEF RingInv, TypeOK, Index
  <2>7. RingHolds'
    BY <1>1, <2>1, <2>2 DEF RingInv, RingHolds
  <2> QED
    BY <1>1, <2>1, <2>3, <2>5, <2>6, <2>7 DEF RingInv
<1>3. CASE TracerObserve
  <2>1. /\ tracer = "observe" /\ tracer' = "publish" /\ unread' = Tail(unread)
        /\ UNCHANGED <<tracer_consumed_index, tracer_index, value, loaded>>
        /\ unread # <<>>
    BY <1>3 DEF TracerObserve, RingInv
  <2>2. /\ fuzz_irq_depth' \in Int /\ fuzz_prev_pc' \in Blocks \cup {NoPc}
        /\ CVG' \subseteq Blocks \X Blocks
    <3>1. value \in Entries /\ loaded \in Int /\ fuzz_irq_depth \in Int
          /\ CVG \subseteq Blocks \X Blocks /\ fuzz_prev_pc \in Blocks \cup {NoPc}
      BY DEF RingInv, TypeOK
    <3>2. value \notin Blocks => DepthAfter(loaded, value) \in Int
      BY <3>1 DEF Entries, DepthAfter, Entry, Exit
    <3>3. value \in Blocks => Edge(fuzz_prev_pc, value) \subseteq Blocks \X Blocks
      BY <3>1 DEF Edge
    <3> QED
      BY <1>3, <3>1, <3>2, <3>3 DEF TracerObserve
  <2>3. /\ unread' \in Seq(Entries) /\ Len(unread') = Len(unread) - 1
        /\ \A k \in 1 .. Len(unread') : unread'[k] = unread[k + 1] /\ k + 1 \in 1 .. Len(unread)
    BY <2>1, RingTypes
  <2>4. InHand = 0 /\ InHand' = 1
    BY <2>1 DEF InHand
  <2>5. TypeOK'
    BY <1>1, <2>1, <2>2, <2>3 DEF RingInv, TypeOK
  <2>6. RingHolds'
    <3>1. Gap(tracer_index', index') = Len(unread') + InHand'
      BY <1>1, <2>1, <2>3, <2>4, RingTypes DEF RingInv, RingHolds
    <3>2. ASSUME NEW k \in 1 .. Len(unread')
          PROVE  unread'[k] = buffer'[Place(tracer_index', InHand' + k - 1)]
      <4>1. unread'[k] = unread[k + 1] /\ k + 1 \in 1 .. Len(unread)
            /\ InHand + (k + 1) - 1 = InHand' + k - 1
        BY <2>3, <2>4, <3>2
      <4> QED
        BY <1>1, <2>1, <4>1 DEF RingInv, RingHolds
    <3> QED
      BY <3>1, <3>2 DEF RingHolds
  <2> QED
    BY <1>1, <2>1, <2>5, <2>6 DEF RingInv
<1>4. CASE TracerPublish
  <2>1. /\ tracer = "publish" /\ tracer' = "poll"
        /\ tracer_index' = Place(tracer_index, 1) /\ tracer_index' \in Index
        /\ tracer_consumed_index' = tracer_index'
        /\ UNCHANGED <<value, loaded, unread, fuzz_irq_depth, fuzz_prev_pc, CVG>>
    BY <1>4, RingTypes, IndexFacts DEF TracerPublish, Published, cov, history
  <2>2. InHand = 1 /\ InHand' = 0
    BY <2>1 DEF InHand
  <2>3. Gap(tracer_index', index') = Gap(tracer_index, index) - 1
    <3>1. Gap(tracer_index, index) > 0
      BY <2>2, RingTypes DEF RingInv, RingHolds
    <3> QED
      BY <1>1, <2>1, <3>1, RingTypes, GapFacts
  <2>4. TypeOK'
    BY <1>1, <2>1 DEF RingInv, TypeOK, Index
  <2>5. RingHolds'
    <3>1. Gap(tracer_index', index') = Len(unread') + InHand'
      BY <2>1, <2>2, <2>3, RingTypes DEF RingInv, RingHolds
    <3>2. ASSUME NEW k \in 1 .. Len(unread')
          PROVE  unread'[k] = buffer'[Place(tracer_index', InHand' + k - 1)]
      <4> DEFINE d == k - 1
      <4>1. d \in 0 .. N - 1 /\ InHand + k - 1 = d + 1 /\ InHand' + k - 1 = d
            /\ k \in 1 .. Len(unread)
        BY <2>1, <2>2, <3>2, RingTypes
      <4> HIDE DEF d
      <4>2. unread[k] = buffer[Place(tracer_index, d + 1)]
        BY <4>1 DEF RingInv, RingHolds
      <4>3. Place(Place(tracer_index, 1), d) = Place(tracer_index, d + 1)
        BY <4>1, RingTypes, GapFacts
      <4> QED
        BY <1>1, <2>1, <4>1, <4>2, <4>3
    <3> QED
      BY <3>1, <3>2 DEF RingHolds
  <2> QED
    BY <1>1, <2>1, <2>3, <2>4, <2>5, RingTypes DEF RingInv
<1> QED
  BY <1>2, <1>3, <1>4 DEF Tracer

LEMMA RingStep ==
  ASSUME RingInv, Reserve >= MaxNest + 2, [Next]_vars
  PROVE  RingInv'
BY WriterStep, CpuStep, TracerStep DEF Next

LEMMA RingInitially == Init => RingInv
<1> SUFFICES ASSUME Init PROVE RingInv
  OBVIOUS
<1>1. fuzz_snap_initialized \in BOOLEAN /\ fresh \in BOOLEAN /\ live \in BOOLEAN
  BY DEF Init
<1>2. 0 \in Index /\ N \in Nat /\ Reserve \in 1 .. N /\ MaxNest \in Nat
  BY RingAssumption, NestAssumption DEF Index
<1>3. TypeOK
  BY <1>1, <1>2 DEF Init, TypeOK, Index, Entries
<1>4. Gap(tracer_index, index) = 0 /\ InHand = 0 /\ Len(unread) = 0 /\ Pending = MaxNest
  BY <1>2 DEF Init, Gap, InHand, Pending
<1>5. RingHolds
  BY <1>4 DEF RingHolds
<1> QED
  BY <1>2, <1>3, <1>4, <1>5 DEF RingInv, Init

-----------------------------------------------------------------------------
(* Replaying what is unread.                                               *)

\* What the tracer makes of one entry (fuzz_add_observed_value).
State == [depth : Int, prev : Blocks \cup {NoPc}, cvg : SUBSET (Blocks \X Blocks)]
Counts(s, v) == v \in Blocks /\ s.depth = 0
Observed(s, v) ==
  [depth |-> IF v \in Blocks THEN s.depth ELSE DepthAfter(s.depth, v),
   prev  |-> IF Counts(s, v) THEN v ELSE s.prev,
   cvg   |-> IF Counts(s, v) THEN s.cvg \cup Edge(s.prev, v) ELSE s.cvg]

\* w is what the tracer goes through from one state on, entry by entry.
Replay(q, s, w) ==
  /\ w \in [0 .. Len(q) -> State]
  /\ w[0] = s
  /\ \A k \in 1 .. Len(q) : w[k] = Observed(w[k - 1], q[k])

LEMMA ObservedIs ==
  ASSUME NEW s \in State, NEW v \in Entries
  PROVE  Observed(s, v) \in State
<1>1. v \notin Blocks => DepthAfter(s.depth, v) \in Int
  BY DEF Entries, DepthAfter, Entry, Exit, State
<1>2. v \in Blocks => Edge(s.prev, v) \subseteq Blocks \X Blocks
  BY DEF Edge, State
<1> QED
  BY <1>1, <1>2 DEF Observed, Counts, State

\* One more entry at the end is one more step at the end.
LEMMA ReplayAppend ==
  ASSUME NEW q \in Seq(Entries), NEW s, NEW w, Replay(q, s, w), NEW v \in Entries
  PROVE  \E x : /\ Replay(Append(q, v), s, x)
                /\ x[Len(q) + 1] = Observed(w[Len(q)], v)
<1> DEFINE L == Len(q)
           x == [k \in 0 .. L + 1 |-> IF k = L + 1 THEN Observed(w[L], v) ELSE w[k]]
<1>1. /\ L \in Nat /\ Len(Append(q, v)) = L + 1 /\ Append(q, v)[L + 1] = v
      /\ \A k \in 1 .. L : Append(q, v)[k] = q[k]
  OBVIOUS
<1>2. /\ w \in [0 .. L -> State] /\ w[0] = s
      /\ \A k \in 1 .. L : w[k] = Observed(w[k - 1], q[k])
  BY DEF Replay
<1>3. Observed(w[L], v) \in State
  BY <1>1, <1>2, ObservedIs
<1>4. /\ x \in [0 .. L + 1 -> State] /\ x[0] = s /\ x[L + 1] = Observed(w[L], v)
      /\ \A k \in 0 .. L : x[k] = w[k]
  BY <1>1, <1>2, <1>3
<1> HIDE DEF x
<1>5. ASSUME NEW k \in 1 .. L + 1
      PROVE  x[k] = Observed(x[k - 1], Append(q, v)[k])
  <2>1. k - 1 \in 0 .. L /\ x[k - 1] = w[k - 1]
    BY <1>1, <1>4, <1>5
  <2>2. CASE k = L + 1
    BY <1>1, <1>4, <2>1, <2>2
  <2>3. CASE k \in 1 .. L
    BY <1>1, <1>2, <1>4, <2>1, <2>3
  <2> QED
    BY <1>1, <1>5, <2>2, <2>3
<1> QED
  BY <1>1, <1>4, <1>5 DEF Replay

\* The first step taken, the rest of the replay starts from its result.
LEMMA ReplayTail ==
  ASSUME NEW q \in Seq(Entries), q # <<>>, NEW s, NEW w, Replay(q, s, w)
  PROVE  \E x : /\ Replay(Tail(q), Observed(s, Head(q)), x)
                /\ x[Len(Tail(q))] = w[Len(q)]
<1> DEFINE L == Len(q)
           x == [k \in 0 .. L - 1 |-> w[k + 1]]
<1>1. /\ L \in Nat /\ L > 0 /\ Len(Tail(q)) = L - 1 /\ Head(q) = q[1]
      /\ \A k \in 1 .. L - 1 : Tail(q)[k] = q[k + 1]
  OBVIOUS
<1>2. /\ w \in [0 .. L -> State] /\ w[0] = s
      /\ \A k \in 1 .. L : w[k] = Observed(w[k - 1], q[k])
  BY DEF Replay
<1>3. w[1] = Observed(s, q[1])
  <2>1. 1 \in 1 .. L /\ 1 - 1 = 0
    BY <1>1
  <2> QED
    BY <1>2, <2>1
<1>4. /\ x \in [0 .. L - 1 -> State] /\ x[L - 1] = w[L] /\ x[0] = w[1]
      /\ \A k \in 0 .. L - 1 : x[k] = w[k + 1]
  BY <1>1, <1>2
<1> HIDE DEF x
<1>5. ASSUME NEW k \in 1 .. L - 1
      PROVE  x[k] = Observed(x[k - 1], Tail(q)[k])
  <2>1. k + 1 \in 1 .. L /\ (k + 1) - 1 = k /\ k - 1 \in 0 .. L - 1 /\ (k - 1) + 1 = k
        /\ k \in 0 .. L - 1
    BY <1>1, <1>5
  <2>2. w[k + 1] = Observed(w[k], q[k + 1])
    BY <1>2, <2>1
  <2>3. x[k] = w[k + 1] /\ x[k - 1] = w[k]
    BY <1>4, <2>1
  <2> QED
    BY <1>1, <1>5, <2>2, <2>3
<1> QED
  BY <1>1, <1>3, <1>4, <1>5 DEF Replay

LEMMA ReplayNothing ==
  ASSUME NEW s
  PROVE  /\ s \in State => \E w : Replay(<<>>, s, w) /\ w[0] = s
         /\ \A w : Replay(<<>>, s, w) => w[0] = s
<1>1. ASSUME s \in State
      PROVE  \E w : Replay(<<>>, s, w) /\ w[0] = s
  <2> DEFINE w == [k \in 0 .. 0 |-> s]
  <2>1. w \in [0 .. Len(<<>>) -> State] /\ w[0] = s /\ 1 .. Len(<<>>) = {}
    BY <1>1
  <2> HIDE DEF w
  <2> QED
    BY <2>1 DEF Replay
<1> QED
  BY <1>1 DEF Replay

-----------------------------------------------------------------------------
(* Depth and coverage.                                                     *)

\* Where the tracer is, and where it will be once it has read everything.
Now  == [depth |-> fuzz_irq_depth, prev |-> fuzz_prev_pc, cvg |-> CVG]
Goal == [depth |-> nest, prev |-> last, cvg |-> expected]

\* Until an input is started no exception is taken and no coverage counts.
BeforeInput ==
  /\ live = FALSE => /\ nest = 0 /\ fuzz_irq_depth = 0
                     /\ \A k \in 1 .. Len(unread) : unread[k] \in Blocks
                     /\ fuzz_snap_initialized = TRUE => cpu # "run"
  /\ fuzz_snap_initialized = FALSE => live = FALSE /\ cpu = "run"

\* From then on, what is unread takes the tracer to where the CPU is.
OnTrack ==
  live = TRUE => \E w : Replay(unread, Now, w) /\ w[Len(unread)] = Goal

\* The CPU reads coverage when there is nothing left to replay; nobody writes
\* the depth between the tracer's load and its store.
AtSync ==
  /\ cpu = "sync" => unread = <<>> /\ fuzz_prev_pc = NoPc /\ last = NoPc
  /\ tracer = "observe" => loaded = fuzz_irq_depth

TraceInv == BeforeInput /\ OnTrack /\ AtSync

\* Nothing unread: the tracer is where the CPU is.
LEMMA CaughtUp ==
  ASSUME RingInv, TraceInv, unread = <<>>
  PROVE  /\ live = TRUE => Now = Goal
         /\ fuzz_irq_depth = nest
<1>1. Len(unread) = 0
  OBVIOUS
<1>2. live = TRUE => Now = Goal
  BY <1>1, ReplayNothing DEF TraceInv, OnTrack
<1>3. Now = Goal => fuzz_irq_depth = nest
  BY DEF Now, Goal
<1> QED
  BY <1>2, <1>3 DEF TraceInv, BeforeInput, RingInv, TypeOK

\* With an empty queue, on track means to be there.
LEMMA ThereIsOnTrack ==
  ASSUME RingInv', unread' = <<>>, Now' = Goal'
  PROVE  OnTrack'
<1>1. Now' \in State /\ Len(unread') = 0
  BY DEF Now, State, RingInv, TypeOK
<1>2. \E w : Replay(unread', Now', w) /\ w[Len(unread')] = Goal'
  BY <1>1, ReplayNothing
<1> QED
  BY <1>2 DEF OnTrack

\* A logged entry moves the goal as it will move the tracer.
LEMMA LogStep ==
  ASSUME RingInv, RingInv', TraceInv, EarlyIrqs = FALSE, Reserve >= MaxNest + 2,
         (\E b \in Blocks : LogPc(b)) \/ IrqEntry \/ IrqExit
  PROVE  TraceInv'
<1>1. PICK e \in Entries :
        /\ Push(e) /\ UNCHANGED <<thread, cov, fuzz_snap_initialized, cpu, live>>
        /\ Goal' = Observed(Goal, e)
        /\ (live = FALSE => e \in Blocks /\ nest' = nest)
        /\ cpu = "run"
  <2>1. ASSUME NEW b \in Blocks, LogPc(b)
        PROVE  Push(b) /\ Goal' = Observed(Goal, b) /\ nest' = nest
    BY <2>1 DEF LogPc, Goal, Observed, Counts
  <2>2. Entry \notin Blocks /\ Exit \notin Blocks /\ Entry # Exit
    BY BlocksAssumption DEF Entry, Exit
  <2>3. IrqEntry => Push(Entry) /\ Goal' = Observed(Goal, Entry)
    BY <2>2 DEF IrqEntry, Goal, Observed, Counts, DepthAfter
  <2>4. IrqExit => Push(Exit) /\ Goal' = Observed(Goal, Exit)
    BY <2>2 DEF IrqExit, Goal, Observed, Counts, DepthAfter
  <2>5. IrqEntry \/ IrqExit => live = TRUE
    BY DEF IrqEntry, IrqExit, TraceInv, BeforeInput, RingInv, TypeOK
  <2>6. cpu = "run" /\ UNCHANGED <<thread, cov, fuzz_snap_initialized, cpu, live>>
    BY DEF LogPc, IrqEntry, IrqExit
  <2> QED
    BY <2>1, <2>3, <2>4, <2>5, <2>6 DEF Entries
<1>2. unread' = Append(unread, e) /\ Len(unread') = Len(unread) + 1
      /\ unread \in Seq(Entries)
      /\ unread'[Len(unread) + 1] = e /\ \A k \in 1 .. Len(unread) : unread'[k] = unread[k]
  BY <1>1, RingTypes DEF Push
<1>3. Now' = Now
  BY <1>1 DEF Now, cov
<1>4. OnTrack'
  <2> SUFFICES ASSUME live = TRUE
               PROVE  \E w : Replay(unread', Now, w) /\ w[Len(unread')] = Goal'
    BY <1>1, <1>3 DEF OnTrack
  <2>1. PICK w : Replay(unread, Now, w) /\ w[Len(unread)] = Goal
    BY DEF TraceInv, OnTrack
  <2>2. \E x : Replay(Append(unread, e), Now, x) /\ x[Len(unread) + 1] = Observed(w[Len(unread)], e)
    BY <1>2, <2>1, ReplayAppend
  <2> QED
    BY <1>1, <1>2, <2>1, <2>2
<1>5. BeforeInput'
  <2>1. ASSUME live = FALSE, NEW k \in 1 .. Len(unread) + 1
        PROVE  unread'[k] \in Blocks
    BY <1>1, <1>2, <2>1, RingTypes DEF TraceInv, BeforeInput
  <2> QED
    BY <1>1, <1>2, <2>1 DEF TraceInv, BeforeInput, cov
<1>6. AtSync'
  BY <1>1 DEF TraceInv, AtSync, thread, cov
<1> QED
  BY <1>4, <1>5, <1>6 DEF TraceInv

\* The CPU forgets where it was only when there is nothing left to read.
LEMMA SyncStep ==
  ASSUME RingInv, RingInv', TraceInv,
         SnapPoint \/ SyncPoint \/ DrainDone \/ Continue \/ NextInput \/ UNCHANGED vars
  PROVE  TraceInv'
<1>1. UNCHANGED <<tracer, loaded, unread, nest>>
  BY DEF SnapPoint, SyncPoint, DrainDone, Continue, NextInput, vars, ring, thread,
         history
<1>2. CASE SnapPoint
  <2>1. /\ live = FALSE /\ live' = FALSE /\ fuzz_irq_depth = 0 /\ fuzz_irq_depth' = 0
        /\ cpu' = "drain" /\ fuzz_snap_initialized' = TRUE
    BY <1>2 DEF SnapPoint, history, TraceInv, BeforeInput, RingInv, TypeOK
  <2> QED
    BY <1>1, <2>1 DEF TraceInv, BeforeInput, OnTrack, AtSync
<1>3. CASE SyncPoint \/ Continue \/ UNCHANGED vars
  <2>1. UNCHANGED <<fuzz_irq_depth, fuzz_prev_pc, CVG, fuzz_snap_initialized, live,
                    last, expected>>
    BY <1>3 DEF SyncPoint, Continue, vars, cov, history
  <2>2. /\ cpu' = "sync" => cpu = "sync"
        /\ cpu' = "run" => cpu = "run" \/ live = TRUE
        /\ cpu = "run" => cpu' = "run" \/ fuzz_snap_initialized = TRUE
        /\ cpu # "run" => fuzz_snap_initialized = TRUE
    BY <1>3 DEF SyncPoint, Continue, vars, TraceInv, BeforeInput, RingInv, TypeOK
  <2>3. Now' = Now /\ Goal' = Goal
    BY <1>1, <2>1 DEF Now, Goal
  <2>4. OnTrack'
    BY <1>1, <2>1, <2>3 DEF TraceInv, OnTrack
  <2>5. BeforeInput'
    BY <1>1, <2>1, <2>2 DEF TraceInv, BeforeInput, RingInv, TypeOK
  <2>6. AtSync'
    BY <1>1, <2>1, <2>2 DEF TraceInv, AtSync
  <2> QED
    BY <2>4, <2>5, <2>6 DEF TraceInv
<1>4. CASE DrainDone
  <2>1. /\ cpu' = "sync" /\ fuzz_prev_pc' = NoPc /\ last' = NoPc /\ cpu = "drain"
        /\ UNCHANGED <<fuzz_irq_depth, CVG, fuzz_snap_initialized, live, expected>>
    BY <1>4 DEF DrainDone
  <2>2. unread = <<>>
    <3>1. tracer_index = index
      BY <1>4 DEF DrainDone, Drained, RingInv
    <3>2. Gap(tracer_index, index) = 0
      BY <3>1, RingTypes, IndexFacts
    <3>3. Len(unread) = 0
      BY <3>2, RingTypes DEF RingInv, RingHolds
    <3> QED
      BY <3>3, RingTypes
  <2>3. BeforeInput'
    BY <1>1, <2>1 DEF TraceInv, BeforeInput
  <2>4. AtSync'
    BY <1>1, <2>1, <2>2 DEF TraceInv, AtSync
  <2>5. OnTrack'
    <3>1. live = TRUE => Now' = Goal'
      BY <1>1, <2>1, <2>2, CaughtUp DEF Now, Goal
    <3> QED
      BY <1>1, <2>1, <2>2, <3>1, ThereIsOnTrack DEF OnTrack
  <2> QED
    BY <2>3, <2>4, <2>5 DEF TraceInv
<1>5. CASE NextInput
  <2>1. /\ cpu = "sync" /\ cpu' = "run" /\ fuzz_prev_pc' = NoPc /\ CVG' = {}
        /\ expected' = {} /\ live' = TRUE
        /\ UNCHANGED <<fuzz_irq_depth, fuzz_snap_initialized, last>>
    BY <1>5 DEF NextInput
  <2>2. unread = <<>> /\ last = NoPc /\ fuzz_snap_initialized = TRUE
    BY <2>1 DEF TraceInv, AtSync, BeforeInput, RingInv, TypeOK
  <2>3. Now' = Goal'
    BY <1>1, <2>1, <2>2, CaughtUp DEF Now, Goal
  <2>4. OnTrack'
    BY <1>1, <2>2, <2>3, ThereIsOnTrack
  <2> QED
    BY <1>1, <2>1, <2>2, <2>4 DEF TraceInv, BeforeInput, AtSync
<1> QED
  BY <1>2, <1>3, <1>4, <1>5

\* The tracer takes one step of the replay.
LEMMA ReplayStep ==
  ASSUME RingInv, TraceInv, Tracer
  PROVE  TraceInv'
<1>1. UNCHANGED <<fuzz_snap_initialized, cpu, nest, last, expected, live>> /\ Goal' = Goal
  BY DEF Tracer, TracerRead, TracerObserve, TracerPublish, history, Goal
<1>2. CASE TracerRead \/ TracerPublish
  <2>1. /\ UNCHANGED <<fuzz_irq_depth, fuzz_prev_pc, CVG, unread>> /\ Now' = Now
        /\ tracer' = "observe" => loaded' = fuzz_irq_depth
    BY <1>2 DEF TracerRead, TracerPublish, cov, history, Now
  <2>2. OnTrack'
    BY <1>1, <2>1 DEF TraceInv, OnTrack
  <2> QED
    BY <1>1, <2>1, <2>2 DEF TraceInv, BeforeInput, AtSync
<1>3. CASE TracerObserve
  <2>1. /\ unread # <<>> /\ value = Head(unread) /\ loaded = fuzz_irq_depth
        /\ unread' = Tail(unread) /\ tracer' = "publish" /\ unread \in Seq(Entries)
    BY <1>3, RingTypes DEF TracerObserve, RingInv, TraceInv, AtSync
  <2>2. /\ Len(unread') = Len(unread) - 1 /\ Head(unread) = unread[1]
        /\ 1 \in 1 .. Len(unread)
        /\ \A k \in 1 .. Len(unread') : unread'[k] = unread[k + 1] /\ k + 1 \in 1 .. Len(unread)
    BY <2>1, RingTypes
  <2>3. Now' = Observed(Now, value)
    BY <1>3, <2>1 DEF TracerObserve, Now, Observed, Counts
  <2>4. OnTrack'
    <3> SUFFICES ASSUME live = TRUE
                 PROVE  \E x : Replay(unread', Now', x) /\ x[Len(unread')] = Goal
      BY <1>1 DEF OnTrack
    <3>1. PICK w : Replay(unread, Now, w) /\ w[Len(unread)] = Goal
      BY DEF TraceInv, OnTrack
    <3>2. \E x : Replay(Tail(unread), Observed(Now, Head(unread)), x)
                 /\ x[Len(Tail(unread))] = w[Len(unread)]
      BY <2>1, <3>1, ReplayTail
    <3> QED
      BY <2>1, <2>3, <3>1, <3>2
  <2>5. BeforeInput'
    <3>1. live = FALSE => fuzz_irq_depth' = fuzz_irq_depth
      BY <1>3, <2>1, <2>2 DEF TracerObserve, TraceInv, BeforeInput
    <3> QED
      BY <1>1, <2>2, <3>1 DEF TraceInv, BeforeInput
  <2>6. AtSync'
    BY <1>1, <2>1 DEF TraceInv, AtSync
  <2> QED
    BY <2>4, <2>5, <2>6 DEF TraceInv
<1> QED
  BY <1>2, <1>3 DEF Tracer

LEMMA TraceInitially == Init => TraceInv
<1> SUFFICES ASSUME Init PROVE TraceInv
  OBVIOUS
<1>1. Len(unread) = 0
  BY DEF Init
<1> QED
  BY <1>1 DEF Init, TraceInv, BeforeInput, OnTrack, AtSync

-----------------------------------------------------------------------------
(* The theorems.                                                           *)

\* The reserved entries take the markers of every nesting that the reserve has
\* two entries more than: each level entered, and one exit that is entered
\* again before a block is logged.
THEOREM RingAlways ==
  ASSUME Reserve >= MaxNest + 2
  PROVE  Spec => []RingInv
<1>1. RingInv /\ [Next]_vars => RingInv'
  BY RingStep
<1> QED
  BY <1>1, RingInitially, PTL DEF Spec

\* Every variable keeps its range (core_cc_list, the tracer and fuzz.c).
THEOREM RingTypeOK ==
  ASSUME Reserve >= MaxNest + 2
  PROVE  Spec => []TypeOK
<1>1. RingInv => TypeOK
  BY DEF RingInv
<1> QED
  BY <1>1, RingAlways, PTL

\* Neither a block nor a marker is lost or overwritten before it is read.
THEOREM NothingLost ==
  ASSUME Reserve >= MaxNest + 2
  PROVE  Spec => []NoEventLost
<1>1. RingInv => NoEventLost
  BY RingIsUnread
<1> QED
  BY <1>1, RingAlways, PTL

\* What is unread always takes the tracer to the state of the CPU, if no
\* exception is taken before fuzz_snap_point.
THEOREM TraceAlways ==
  ASSUME Reserve >= MaxNest + 2, EarlyIrqs = FALSE
  PROVE  Spec => []TraceInv
<1>1. RingInv /\ RingInv' /\ TraceInv /\ [Next]_vars => TraceInv'
  BY LogStep, SyncStep, ReplayStep DEF Next
<1> QED
  BY <1>1, RingAlways, TraceInitially, PTL DEF Spec

\* fuzz_irq_depth never drifts from the nesting of the CPU.
THEOREM DepthIsNest ==
  ASSUME Reserve >= MaxNest + 2, EarlyIrqs = FALSE
  PROVE  Spec => []DepthMatches
<1>1. RingInv /\ TraceInv => DepthMatches
  BY CaughtUp DEF DepthMatches
<1> QED
  BY <1>1, RingAlways, TraceAlways, PTL

\* The coverage the backend reads is that of the input, all of it and no more.
THEOREM CoverageIsExact ==
  ASSUME Reserve >= MaxNest + 2, EarlyIrqs = FALSE
  PROVE  Spec => []CoverageExact
<1>1. RingInv /\ TraceInv => CoverageExact
  <2> SUFFICES ASSUME RingInv, TraceInv, cpu = "sync", live PROVE CVG = expected
    BY DEF CoverageExact
  <2>1. live = TRUE /\ unread = <<>>
    BY DEF RingInv, TypeOK, TraceInv, AtSync
  <2>2. Now = Goal
    BY <2>1, CaughtUp
  <2> QED
    BY <2>2 DEF Now, Goal
<1> QED
  BY <1>1, RingAlways, TraceAlways, PTL
=============================================================================
