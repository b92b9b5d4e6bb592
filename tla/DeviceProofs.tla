---------------------------- MODULE DeviceProofs ----------------------------
(***************************************************************************)
(* The device models: the dispatch tables of dev.c (DeviceLut), and the     *)
(* log of dev.c with the twintrace model that replays it (TwintraceReplay). *)
(***************************************************************************)
EXTENDS DeviceLut, TwintraceReplay, TLAPS

-----------------------------------------------------------------------------
(* DeviceLut: the invariant.                                               *)

\* The registrations made so far.
Done == Len(config) - Len(todo)

Progress ==
  /\ config \in Config /\ todo \in Seq(ToSet(config)) /\ Len(todo) <= Len(config)
  /\ \A k \in 1 .. Len(todo) : todo[k] = config[Done + k]

\* A slot lists the models that registered a range over it, and no others.
Links ==
  /\ lut \in [Slots -> Seq(Models)]
  /\ \A s \in Slots, m \in Models :
       Contains(lut[s], m) <=>
         \E i \in 1 .. Done : /\ config[i].kind = "range" /\ config[i].model = m
                              /\ s \in Covered(config[i].start, config[i].end)

\* The first model of a slot is the one that registered it last.
Heads ==
  \A s \in Slots : lut[s] # <<>> =>
    \E i \in 1 .. Done : /\ config[i].kind = "range"
                         /\ s \in Covered(config[i].start, config[i].end)
                         /\ Head(lut[s]) = config[i].model
                         /\ \A j \in 1 .. Done :
                              /\ config[j].kind = "range"
                              /\ s \in Covered(config[j].start, config[j].end)
                              => j <= i

\* A vector lists the models that registered it, each once, and while nothing was
\* refused every vector asked for exists.
IrqLinks ==
  /\ irq_lut \in [0 .. MAX_INTERRUPTS - 1 -> Seq(Models)]
  /\ \A v \in 0 .. MAX_INTERRUPTS - 1 : IsInjective(irq_lut[v])
  /\ \A v \in 0 .. MAX_INTERRUPTS - 1, m \in Models :
       Contains(irq_lut[v], m) <=>
         \E i \in 1 .. Done : /\ config[i].kind = "irq" /\ config[i].irq = v
                              /\ config[i].model = m
  /\ dead \in BOOLEAN
  /\ dead = FALSE => \A i \in 1 .. Done :
                       config[i].kind = "irq" => config[i].irq \in 0 .. MAX_INTERRUPTS - 1

\* The access was made when the tables were complete, and is what they say.
Accessed ==
  /\ access.kind \in {"none", "write", "read", "irq"}
  /\ access.kind = "none" => access.models = <<>>
  /\ access.kind # "none" => todo = <<>>
  /\ access.kind \in {"write", "read"} => access.addr \in Addresses
  /\ access.kind = "write" => access.models = Nodes(access.addr)
  /\ access.kind = "read" => access.models = ChooseReader(Nodes(access.addr))
  /\ access.kind = "irq" => /\ access.addr \in 0 .. MAX_INTERRUPTS - 1
                             /\ access.models = irq_lut[access.addr]

LutInv == Progress /\ Links /\ Heads /\ IrqLinks /\ Accessed

-----------------------------------------------------------------------------
(* DeviceLut: slots and lists.                                             *)

LEMMA SlotInNat ==
  ASSUME NEW a \in Int, NEW b \in Int
  PROVE  Slot(a, b) \in Nat
<1> USE SizeAssumption
<1>1. (a - b) % HwMod \in Nat
  OBVIOUS
<1>2. ((a - b) % HwMod) \div SLOT_SIZE \in Nat
  BY <1>1
<1> QED
  BY <1>2 DEF Slot

LEMMA BasesAreInt ==
  \A t \in {"device", "system", "ram"} : Base(t) \in Nat /\ MaxSlots(t) \in Nat
<1>1. \A n \in Nat : n \div SLOT_SIZE \in Nat
  BY SizeAssumption
<1> QED
  BY <1>1, SizeAssumption DEF Base, MaxSlots, DEVICE_BASE, SYSTEM_BASE

LEMMA TablesAre ==
  ASSUME NEW a
  PROVE  Table(a) \in {"device", "system", "ram", "none"}
BY DEF Table

LEMMA SlotsAre ==
  \A t \in {"device", "system", "ram"}, i \in Nat :
     i < MaxSlots(t) => <<t, i>> \in Slots
BY BasesAreInt DEF Slots

LEMMA CoveredIsInTable ==
  ASSUME NEW a \in Nat, NEW b \in Nat
  PROVE  Covered(a, b) \subseteq Slots
<1> DEFINE t == Table(a)
           first == Slot(a, Base(t))
           far == Slot(LastAddr(a, b), Base(t))
           last == Clamp(far, MaxSlots(t))
<1>1. CASE t = "none"
  BY <1>1 DEF Covered
<1>2. CASE t # "none"
  <2>1. t \in {"device", "system", "ram"}
    BY <1>2, TablesAre
  <2>2. Base(t) \in Nat /\ MaxSlots(t) \in Nat
    BY <2>1, BasesAreInt
  <2>3. first \in Nat /\ far \in Nat
    <3>1. LastAddr(a, b) \in Int /\ a \in Int
      BY DEF LastAddr
    <3> HIDE DEF t
    <3>2. Slot(a, Base(t)) \in Nat
      BY <2>2, <3>1, SlotInNat
    <3>3. Slot(LastAddr(a, b), Base(t)) \in Nat
      BY <2>2, <3>1, SlotInNat
    <3> QED
      BY <3>2, <3>3
  <2> HIDE DEF t, first, far
  <2>4. last \in Int /\ last < MaxSlots(t)
    BY <2>2, <2>3 DEF Clamp
  <2> HIDE DEF last
  <2>5. \A i \in first .. last : <<t, i>> \in Slots
    BY <2>1, <2>2, <2>3, <2>4, SlotsAre
  <2>6. Covered(a, b) = {<<t, i>> : i \in first .. last}
    BY <1>2 DEF Covered, t, first, far, last
  <2> QED
    BY <2>5, <2>6
<1> QED
  BY <1>1, <1>2

LEMMA NodesAreModels ==
  ASSUME lut \in [Slots -> Seq(Models)], NEW a \in Nat
  PROVE  Nodes(a) \in Seq(Models)
<1> DEFINE t == Table(a)
           i == Slot(a, Base(t))
<1>1. CASE t = "none"
  BY <1>1 DEF Nodes
<1>2. CASE t # "none"
  <2>1. t \in {"device", "system", "ram"}
    BY <1>2, TablesAre
  <2>2. i \in Nat /\ MaxSlots(t) \in Nat
    <3> HIDE DEF t
    <3>1. Base(t) \in Int /\ MaxSlots(t) \in Nat /\ a \in Int
      BY <2>1, BasesAreInt
    <3>2. Slot(a, Base(t)) \in Nat
      BY <3>1, SlotInNat
    <3> QED
      BY <3>1, <3>2
  <2>3. i < MaxSlots(t) => <<t, i>> \in Slots
    BY <2>1, <2>2, SlotsAre
  <2>4. Nodes(a) = IF i >= MaxSlots(t) THEN <<>> ELSE lut[<<t, i>>]
    BY <1>2 DEF Nodes
  <2> HIDE DEF t, i
  <2> QED
    BY <2>2, <2>3, <2>4
<1> QED
  BY <1>1, <1>2

\* Putting a model in front of a list adds it and keeps the others.
LEMMA Prepend ==
  ASSUME NEW list \in Seq(Models), NEW m \in Models
  PROVE  /\ <<m>> \o list \in Seq(Models)
         /\ Head(<<m>> \o list) = m
         /\ \A x : Contains(<<m>> \o list, x) <=> x = m \/ Contains(list, x)
         /\ ~Contains(list, m) /\ IsInjective(list) => IsInjective(<<m>> \o list)
<1> DEFINE new == <<m>> \o list
<1>1. /\ new \in Seq(Models) /\ Len(new) = Len(list) + 1 /\ Len(list) \in Nat
      /\ new[1] = m /\ Head(new) = m
      /\ \A k \in 1 .. Len(list) : new[k + 1] = list[k]
  OBVIOUS
<1> HIDE DEF new
<1>2. \A k \in 2 .. Len(new) : k - 1 \in 1 .. Len(list) /\ new[k] = list[k - 1]
  <2> TAKE k \in 2 .. Len(new)
  <2>1. k - 1 \in 1 .. Len(list) /\ (k - 1) + 1 = k
    BY <1>1
  <2> QED
    BY <1>1, <2>1
<1>3. ASSUME NEW x
      PROVE  Contains(new, x) <=> x = m \/ Contains(list, x)
  <2>1. ASSUME Contains(list, x)
        PROVE  Contains(new, x)
    <3>1. PICK k \in 1 .. Len(list) : list[k] = x
      BY <2>1 DEF Contains
    <3>2. k + 1 \in 1 .. Len(new) /\ new[k + 1] = x
      BY <1>1, <3>1
    <3> QED
      BY <3>2 DEF Contains
  <2>2. ASSUME x = m
        PROVE  Contains(new, x)
    BY <1>1, <2>2 DEF Contains
  <2>3. ASSUME Contains(new, x), x # m
        PROVE  Contains(list, x)
    <3>1. PICK k \in 1 .. Len(new) : new[k] = x
      BY <2>3 DEF Contains
    <3>2. k \in 2 .. Len(new)
      BY <1>1, <2>3, <3>1
    <3> QED
      BY <1>2, <3>1, <3>2 DEF Contains
  <2> QED
    BY <2>1, <2>2, <2>3
<1>4. ASSUME ~Contains(list, m), IsInjective(list)
      PROVE  IsInjective(new)
  <2>1. SUFFICES ASSUME NEW i \in 1 .. Len(new), NEW j \in 1 .. Len(new), new[i] = new[j]
                 PROVE  i = j
    BY <1>1 DEF IsInjective
  <2>2. \A k \in 2 .. Len(new) : new[k] # m
    BY <1>2, <1>4 DEF Contains
  <2>3. \A p, q \in 1 .. Len(list) : list[p] = list[q] => p = q
    BY <1>4 DEF IsInjective
  <2>4. CASE i = 1 \/ j = 1
    BY <1>1, <2>1, <2>2, <2>4
  <2>5. CASE i # 1 /\ j # 1
    <3>1. list[i - 1] = list[j - 1] /\ i - 1 \in 1 .. Len(list) /\ j - 1 \in 1 .. Len(list)
      BY <1>1, <1>2, <2>1, <2>5
    <3>2. i - 1 = j - 1
      BY <2>3, <3>1
    <3> QED
      BY <3>2
  <2> QED
    BY <2>4, <2>5
<1> QED
  BY <1>1, <1>3, <1>4 DEF new

-----------------------------------------------------------------------------
(* DeviceLut: the invariant holds.                                         *)

LEMMA LutStarts ==
  ASSUME Init
  PROVE  LutInv
<1> USE DEF Init
<1>1. config \in Seq(ToSet(config)) /\ Len(config) \in Nat
  BY ConfigAssumption
<1>2. Done = 0
  BY <1>1 DEF Done
<1>3. Progress
  BY <1>1, <1>2 DEF Progress
<1>4. Links
  <2>1. \A s \in Slots : lut[s] = <<>>
    OBVIOUS
  <2>2. \A x : ~Contains(<<>>, x)
    BY DEF Contains
  <2> QED
    BY <1>2, <2>1, <2>2 DEF Links
<1>7. Heads
  BY DEF Heads
<1>5. IrqLinks
  <2>1. \A v \in 0 .. MAX_INTERRUPTS - 1 : irq_lut[v] = <<>>
    OBVIOUS
  <2>2. irq_lut \in [0 .. MAX_INTERRUPTS - 1 -> Seq(Models)]
    OBVIOUS
  <2>3. IsInjective(<<>>)
    BY DEF IsInjective
  <2>4. \A v \in 0 .. MAX_INTERRUPTS - 1 : IsInjective(irq_lut[v])
    BY <2>1, <2>3
  <2>5. dead \in BOOLEAN
    BY Zenon
  <2>6. \A i \in 1 .. Done : FALSE
    BY <1>2
  <2>7. \A v \in 0 .. MAX_INTERRUPTS - 1, m \in Models : ~Contains(irq_lut[v], m)
    BY <2>1 DEF Contains
  <2> QED
    BY <2>2, <2>4, <2>5, <2>6, <2>7 DEF IrqLinks
<1>6. Accessed
  BY DEF Accessed, NoAccess
<1> QED
  BY <1>3, <1>4, <1>5, <1>6, <1>7 DEF LutInv

\* What a step of Register knows of the registration it makes.
LEMMA HeadIsNext ==
  ASSUME Progress, todo # <<>>
  PROVE  /\ Done \in Nat /\ Len(Tail(todo)) = Len(todo) - 1 /\ Len(todo) \in Nat
         /\ Done + 1 \in DOMAIN config /\ Head(todo) = config[Done + 1]
         /\ Tail(todo) \in Seq(ToSet(config))
         /\ Len(config) - Len(Tail(todo)) = Done + 1
         /\ \A k \in 1 .. Len(Tail(todo)) : Tail(todo)[k] = config[Done + 1 + k]
<1> USE DEF Progress
<1>1. config \in Seq(ToSet(config)) /\ Len(config) \in Nat
  BY ConfigAssumption
<1>2. Len(todo) \in Nat /\ Len(todo) > 0 /\ Done \in Nat /\ Done + Len(todo) = Len(config)
  BY <1>1 DEF Done
<1>3. Head(todo) = config[Done + 1] /\ Done + 1 \in DOMAIN config
  <2>1. Head(todo) = todo[1]
    BY <1>2
  <2> QED
    BY <1>1, <1>2, <2>1
<1>4. /\ Tail(todo) \in Seq(ToSet(config)) /\ Len(Tail(todo)) = Len(todo) - 1
      /\ \A k \in 1 .. Len(todo) - 1 : Tail(todo)[k] = todo[k + 1]
  BY <1>2
<1>5. ASSUME NEW k \in 1 .. Len(todo) - 1
      PROVE  Tail(todo)[k] = config[Done + 1 + k]
  <2>1. k + 1 \in 1 .. Len(todo) /\ Done + (k + 1) = Done + 1 + k
    BY <1>2
  <2>2. todo[k + 1] = config[Done + (k + 1)]
    BY <2>1
  <2> QED
    BY <1>4, <2>1, <2>2
<1> QED
  BY <1>2, <1>3, <1>4, <1>5

LEMMA RangesLink ==
  ASSUME Progress, Links, Heads, todo # <<>>, Head(todo).kind = "range",
         RegisterRange(Head(todo)), todo' = Tail(todo), config' = config
  PROVE  Links' /\ Heads'
<1> DEFINE n == Done + 1
           r == Head(todo)
           C == Covered(r.start, r.end)
<1>1. Done \in Nat /\ Done' = n /\ n \in DOMAIN config /\ r = config[n]
  BY HeadIsNext DEF Done
<1>2. r.model \in Models /\ r.start \in Nat /\ r.end \in Nat /\ r.kind = "range"
  BY <1>1, ConfigAssumption DEF Progress
<1> HIDE DEF r
<1>3. C \subseteq Slots
  BY <1>2, CoveredIsInTable
<1> HIDE DEF n
<1>4. /\ DOMAIN lut = Slots
      /\ \A s \in Slots : lut[s] \in Seq(Models) /\ List(s) = lut[s]
  BY DEF Links, List
<1>5. \A s \in Slots : /\ s \in C => lut'[s] = <<r.model>> \o lut[s]
                       /\ s \notin C => lut'[s] = lut[s]
  <2>1. lut' = [s \in Slots |-> IF s \in C THEN <<r.model>> \o List(s) ELSE List(s)]
    BY <1>3, <1>4 DEF RegisterRange, r
  <2> QED
    BY <1>4, <2>1
<1>6. lut' \in [Slots -> Seq(Models)]
  <2>1. \A s \in Slots : lut'[s] \in Seq(Models)
    <3> TAKE s \in Slots
    <3>1. lut[s] \in Seq(Models)
      BY <1>4
    <3>2. <<r.model>> \o lut[s] \in Seq(Models)
      BY <1>2, <3>1, Prepend
    <3> QED
      BY <1>5, <3>1, <3>2
  <2>2. DOMAIN lut' = Slots /\ lut' = [s \in DOMAIN lut' |-> lut'[s]]
    <3>1. DOMAIN lut \cup C = Slots
      BY <1>3, <1>4
    <3> QED
      BY <3>1 DEF RegisterRange, r
  <2> QED
    BY <2>1, <2>2
<1>7. ASSUME NEW s \in Slots, NEW m \in Models
      PROVE  Contains(lut'[s], m) <=>
               \E i \in 1 .. n : /\ config[i].kind = "range" /\ config[i].model = m
                                 /\ s \in Covered(config[i].start, config[i].end)
  <2> DEFINE By(i) == /\ config[i].kind = "range" /\ config[i].model = m
                      /\ s \in Covered(config[i].start, config[i].end)
  <2>1. Contains(lut[s], m) <=> \E i \in 1 .. Done : By(i)
    BY DEF Links
  <2>2. By(n) <=> (r.model = m /\ s \in C)
    BY <1>1, <1>2
  <2> HIDE DEF By, C
  <2>3. (\E i \in 1 .. n : By(i)) <=> (By(n) \/ \E i \in 1 .. Done : By(i))
    BY <1>1 DEF n
  <2>4. CASE s \in C
    <3>1. Contains(lut'[s], m) <=> m = r.model \/ Contains(lut[s], m)
      <4>1. lut[s] \in Seq(Models)
        BY <1>4
      <4>2. Contains(<<r.model>> \o lut[s], m) <=> m = r.model \/ Contains(lut[s], m)
        BY <1>2, <4>1, Prepend
      <4>3. lut'[s] = <<r.model>> \o lut[s]
        BY <1>5, <2>4
      <4> QED
        BY <4>2, <4>3
    <3>2. Contains(lut'[s], m) <=> \E i \in 1 .. n : By(i)
      BY <2>1, <2>2, <2>3, <2>4, <3>1
    <3> QED
      BY <3>2 DEF By
  <2>5. CASE s \notin C
    <3>1. Contains(lut'[s], m) <=> \E i \in 1 .. n : By(i)
      BY <1>5, <2>1, <2>2, <2>3, <2>5
    <3> QED
      BY <3>1 DEF By
  <2> QED
    BY <2>4, <2>5
<1>8. Links'
  BY <1>1, <1>6, <1>7 DEF Links
<1>9. ASSUME NEW s \in Slots, lut'[s] # <<>>
      PROVE  \E i \in 1 .. n : /\ config[i].kind = "range"
                               /\ s \in Covered(config[i].start, config[i].end)
                               /\ Head(lut'[s]) = config[i].model
                               /\ \A j \in 1 .. n :
                                    /\ config[j].kind = "range"
                                    /\ s \in Covered(config[j].start, config[j].end)
                                    => j <= i
  <2> DEFINE CoversIt(i) == config[i].kind = "range" /\ s \in Covered(config[i].start, config[i].end)
  <2>1. n \in 1 .. n /\ \A j \in 1 .. n : j \in 1 .. Done \/ j = n
    BY <1>1 DEF n
  <2>2. CoversIt(n) <=> s \in C
    BY <1>1, <1>2
  <2>3. CASE s \in C
    <3>1. Head(lut'[s]) = r.model
      BY <1>2, <1>4, <1>5, <2>3, Prepend
    <3>2. \A j \in 1 .. n : j <= n
      OBVIOUS
    <3> QED
      BY <1>1, <2>1, <2>2, <2>3, <3>1, <3>2
  <2>4. CASE s \notin C
    <3>1. lut'[s] = lut[s]
      BY <1>5, <2>4
    <3>2. PICK i \in 1 .. Done : /\ CoversIt(i) /\ Head(lut[s]) = config[i].model
                                 /\ \A j \in 1 .. Done : CoversIt(j) => j <= i
      BY <1>9, <3>1 DEF Heads
    <3>3. i \in 1 .. n
      BY <1>1 DEF n
    <3> HIDE DEF CoversIt
    <3>4. \A j \in 1 .. n : CoversIt(j) => j <= i
      BY <2>1, <2>2, <2>4, <3>2
    <3>5. CoversIt(i) /\ Head(lut'[s]) = config[i].model
      BY <3>1, <3>2
    <3> QED
      BY <3>3, <3>4, <3>5 DEF CoversIt
  <2> QED
    BY <2>3, <2>4
<1>10. Heads'
  BY <1>1, <1>9 DEF Heads
<1> QED
  BY <1>8, <1>10

LEMMA VectorsLink ==
  ASSUME Progress, IrqLinks, todo # <<>>, Head(todo).kind = "irq", dead = FALSE,
         RegisterIrq(Head(todo)), todo' = Tail(todo), config' = config
  PROVE  IrqLinks'
<1> DEFINE n == Done + 1
           r == Head(todo)
           V == 0 .. MAX_INTERRUPTS - 1
<1>1. Done \in Nat /\ Done' = n /\ n \in DOMAIN config /\ r = config[n]
  BY HeadIsNext DEF Done
<1>2. r.model \in Models
  BY <1>1, ConfigAssumption DEF Progress
<1> HIDE DEF r
<1> DEFINE Asks(i, v, m) == /\ config[i].kind = "irq" /\ config[i].irq = v
                            /\ config[i].model = m
<1>5. \A v \in V, m \in Models : Contains(irq_lut[v], m) <=> \E i \in 1 .. Done : Asks(i, v, m)
  BY DEF IrqLinks
<1>7. \A v, m : Asks(n, v, m) <=> v = r.irq /\ m = r.model
  BY <1>1 DEF r
<1> HIDE DEF Asks
<1>6. \A v, m : (\E i \in 1 .. n : Asks(i, v, m)) <=>
                 (v = r.irq /\ m = r.model) \/ \E i \in 1 .. Done : Asks(i, v, m)
  BY <1>1, <1>7
<1>3. CASE r.irq \in V
  <2>1. irq_lut' = [irq_lut EXCEPT ![r.irq] = LinkIrq(@, r.model)] /\ dead' = FALSE
    BY <1>3 DEF RegisterIrq, r
  <2> HIDE DEF V
  <2>2. irq_lut \in [V -> Seq(Models)]
    BY DEF IrqLinks, V
  <2>3. \A v \in V : IsInjective(irq_lut[v])
    BY DEF IrqLinks, V
  <2>4. /\ LinkIrq(irq_lut[r.irq], r.model) \in Seq(Models)
        /\ IsInjective(LinkIrq(irq_lut[r.irq], r.model))
        /\ \A x : Contains(LinkIrq(irq_lut[r.irq], r.model), x) <=>
                    x = r.model \/ Contains(irq_lut[r.irq], x)
    <3>1. irq_lut[r.irq] \in Seq(Models) /\ IsInjective(irq_lut[r.irq])
      BY <1>3, <2>2, <2>3
    <3> QED
      BY <1>2, <3>1, Prepend DEF LinkIrq
  <2>5. irq_lut' \in [V -> Seq(Models)]
    BY <1>3, <2>1, <2>2, <2>4
  <2>6. \A v \in V : IsInjective(irq_lut'[v])
    <3> TAKE v \in V
    <3>1. CASE v = r.irq
      BY <1>3, <2>1, <2>2, <2>4, <3>1
    <3>2. CASE v # r.irq
      <4>1. irq_lut'[v] = irq_lut[v]
        BY <1>3, <2>1, <2>2, <3>2
      <4> QED
        BY <2>3, <4>1
    <3> QED
      BY <3>1, <3>2
  <2>7. \A i \in 1 .. n : config[i].kind = "irq" => config[i].irq \in V
    <3>1. \A i \in 1 .. Done : config[i].kind = "irq" => config[i].irq \in V
      BY DEF IrqLinks, V
    <3>2. \A i \in 1 .. n : i \in 1 .. Done \/ i = n
      BY <1>1
    <3> QED
      BY <1>1, <1>3, <3>1, <3>2
  <2>8. ASSUME NEW v \in V, NEW m \in Models
        PROVE  Contains(irq_lut'[v], m) <=> \E i \in 1 .. n : Asks(i, v, m)
    <3>1. Contains(irq_lut[v], m) <=> \E i \in 1 .. Done : Asks(i, v, m)
      BY <1>5
    <3>2. Contains(irq_lut'[v], m) <=> (v = r.irq /\ m = r.model) \/ Contains(irq_lut[v], m)
      <4>1. CASE v = r.irq
        BY <1>3, <2>1, <2>2, <2>4, <4>1
      <4>2. CASE v # r.irq
        BY <1>3, <2>1, <2>2, <4>2
      <4> QED
        BY <4>1, <4>2
    <3> QED
      BY <1>6, <3>1, <3>2
  <2>9. \A v \in V, m \in Models :
          Contains(irq_lut'[v], m) <=>
            \E i \in 1 .. n : /\ config[i].kind = "irq" /\ config[i].irq = v
                             /\ config[i].model = m
    BY <2>8 DEF Asks
  <2> HIDE DEF n
  <2>10. dead' \in BOOLEAN
    BY <2>1
  <2>11. /\ irq_lut' \in [V -> Seq(Models)]
         /\ \A v \in V : IsInjective(irq_lut'[v])
         /\ \A v \in V, m \in Models :
              Contains(irq_lut'[v], m) <=>
                \E i \in 1 .. Done' : /\ config'[i].kind = "irq" /\ config'[i].irq = v
                                     /\ config'[i].model = m
    BY <1>1, <2>5, <2>6, <2>9
  <2>12. \A i \in 1 .. Done' : config'[i].kind = "irq" => config'[i].irq \in V
    BY <1>1, <2>7
  <2> QED
    BY <2>10, <2>11, <2>12 DEF IrqLinks, V
<1>4. CASE r.irq \notin V
  <2>1. dead' = TRUE /\ irq_lut' = irq_lut
    BY <1>4 DEF RegisterIrq, r
  <2>2. ASSUME NEW v \in V, NEW m \in Models
        PROVE  Contains(irq_lut'[v], m) <=> \E i \in 1 .. n : Asks(i, v, m)
    BY <1>4, <1>5, <1>6, <2>1, <2>2
  <2>3. /\ irq_lut' \in [V -> Seq(Models)]
        /\ \A v \in V : IsInjective(irq_lut'[v])
    BY <2>1 DEF IrqLinks
  <2>4. \A v \in V, m \in Models :
          Contains(irq_lut'[v], m) <=>
            \E i \in 1 .. n : /\ config[i].kind = "irq" /\ config[i].irq = v
                             /\ config[i].model = m
    BY <2>2 DEF Asks
  <2> HIDE DEF n, V
  <2> QED
    BY <1>1, <2>1, <2>3, <2>4 DEF IrqLinks, V
<1> QED
  BY <1>3, <1>4

\* Before the last registration nothing has been accessed.
LEMMA EarlyAccess ==
  ASSUME Accessed, todo # <<>>, access' = access
  PROVE  Accessed'
<1>1. access.kind = "none" /\ access.models = <<>>
  BY DEF Accessed
<1> QED
  BY <1>1 DEF Accessed

LEMMA LutSteps ==
  ASSUME LutInv, [Next]_vars
  PROVE  LutInv'
<1>0. Progress /\ Links /\ Heads /\ IrqLinks /\ Accessed
  BY DEF LutInv
<1>1. CASE Register
  <2>1. /\ todo # <<>> /\ todo' = Tail(todo) /\ dead = FALSE
        /\ access' = access /\ config' = config
    BY <1>0, <1>1 DEF Register, IrqLinks
  <2>2. Progress'
    <3>1. config' \in Config /\ todo' \in Seq(ToSet(config')) /\ Len(todo') <= Len(config')
      BY <1>0, <2>1, HeadIsNext DEF Progress
    <3>2. Done' = Done + 1
      BY <1>0, <2>1, HeadIsNext DEF Done
    <3>3. \A k \in 1 .. Len(todo') : todo'[k] = config'[Done + 1 + k]
      BY <1>0, <2>1, HeadIsNext
    <3> QED
      BY <3>1, <3>2, <3>3 DEF Progress
  <2>3. Accessed'
    BY <1>0, <2>1, EarlyAccess
  <2>4. /\ Done \in Nat /\ Done' = Done + 1
        /\ Done + 1 \in DOMAIN config /\ Head(todo) = config[Done + 1]
    BY <1>0, <2>1, HeadIsNext DEF Done
  <2>5. CASE Head(todo).kind = "range"
    <3>1. RegisterRange(Head(todo))
      BY <1>1, <2>5 DEF Register
    <3>2. Links' /\ Heads'
      BY <1>0, <2>1, <2>5, <3>1, RangesLink
    <3>3. IrqLinks'
      <4>1. \A i \in 1 .. Done + 1 : config[i].kind = "irq" => i \in 1 .. Done
        BY <2>4, <2>5
      <4>2. irq_lut' = irq_lut /\ dead' = dead
        BY <3>1 DEF RegisterRange
      <4> QED
        BY <1>0, <2>1, <2>4, <4>1, <4>2 DEF IrqLinks
    <3> QED
      BY <2>2, <2>3, <3>2, <3>3 DEF LutInv
  <2>6. CASE Head(todo).kind # "range"
    <3>1. RegisterIrq(Head(todo))
      BY <1>1, <2>6 DEF Register
    <3>2. Head(todo).kind = "irq"
      BY <1>0, <2>4, <2>6, ConfigAssumption DEF Progress
    <3>3. IrqLinks'
      BY <1>0, <2>1, <3>1, <3>2, VectorsLink
    <3>4. Links' /\ Heads'
      <4>1. \A i \in 1 .. Done + 1 : config[i].kind = "range" => i \in 1 .. Done
        BY <2>4, <2>6
      <4>2. lut' = lut
        BY <3>1 DEF RegisterIrq
      <4> HIDE DEF Done
      <4>6. Heads'
        <5>1. \A i \in 1 .. Done : i \in 1 .. Done + 1
          BY <2>4
        <5>2. config' = config /\ Done' = Done + 1
          BY <2>1, <2>4
        <5> QED
          BY <1>0, <4>1, <4>2, <5>1, <5>2 DEF Heads
      <4>3. \A s \in Slots, m \in Models :
              Contains(lut[s], m) <=>
                \E i \in 1 .. Done + 1 :
                   /\ config[i].kind = "range" /\ config[i].model = m
                   /\ s \in Covered(config[i].start, config[i].end)
        <5>1. \A i \in 1 .. Done : i \in 1 .. Done + 1
          BY <2>4
        <5> QED
          BY <1>0, <4>1, <5>1 DEF Links
      <4>4. lut' \in [Slots -> Seq(Models)]
        BY <1>0, <4>2 DEF Links
      <4>5. config' = config /\ Done' = Done + 1
        BY <2>1, <2>4
      <4> QED
        BY <4>2, <4>3, <4>4, <4>5, <4>6 DEF Links
    <3> QED
      BY <2>2, <2>3, <3>3, <3>4 DEF LutInv
  <2> QED
    BY <2>5, <2>6
<1>2. ASSUME UNCHANGED <<todo, lut, irq_lut, dead, config>>, Accessed'
      PROVE  LutInv'
  <2>1. Done' = Done
    BY <1>2 DEF Done
  <2>2. Progress' /\ IrqLinks'
    BY <1>0, <1>2, <2>1 DEF Progress, IrqLinks
  <2>3. Links' /\ Heads'
    BY <1>0, <1>2, <2>1 DEF Links, Heads
  <2> QED
    BY <1>2, <2>2, <2>3 DEF LutInv
<1>3. ASSUME NEW a \in Addresses, Write(a)
      PROVE  LutInv'
  <2>1. Nodes(a)' = Nodes(a) /\ todo = <<>>
    BY <1>3 DEF Write, Nodes, Running
  <2>2. Accessed'
    BY <1>3, <2>1 DEF Write, Accessed
  <2> QED
    BY <1>2, <1>3, <2>2 DEF Write
<1>4. ASSUME NEW a \in Addresses, Read(a)
      PROVE  LutInv'
  <2>1. Nodes(a)' = Nodes(a) /\ todo = <<>>
    BY <1>4 DEF Read, Nodes, Running
  <2>2. Accessed'
    BY <1>4, <2>1 DEF Read, Accessed
  <2> QED
    BY <1>2, <1>4, <2>2 DEF Read
<1>5. ASSUME NEW v \in IrqsOf(config), Interrupt(v)
      PROVE  LutInv'
  <2>1. todo = <<>> /\ dead = FALSE
    BY <1>0, <1>5 DEF Interrupt, Running, IrqLinks
  <2>2. v \in 0 .. MAX_INTERRUPTS - 1
    <3>1. config \in Seq(ToSet(config)) /\ Done = Len(config)
      BY <1>0, <2>1, ConfigAssumption DEF Progress, Done
    <3>2. PICK i \in DOMAIN config : config[i].kind = "irq" /\ v = config[i].irq
      BY DEF IrqsOf
    <3>3. i \in 1 .. Done
      BY <3>1, <3>2
    <3> QED
      BY <1>0, <2>1, <3>2, <3>3 DEF IrqLinks
  <2>3. irq_lut' = irq_lut
    BY <1>5 DEF Interrupt
  <2>4. access' = [kind |-> "irq", addr |-> v, models |-> irq_lut[v]] /\ todo' = todo
    BY <1>5 DEF Interrupt
  <2>5. Accessed'
    BY <2>1, <2>2, <2>3, <2>4 DEF Accessed
  <2> QED
    BY <1>2, <1>5, <2>5 DEF Interrupt
<1>6. CASE UNCHANGED vars
  <2>1. Accessed'
    BY <1>0, <1>6 DEF Accessed, vars, Nodes, ChooseReader, First
  <2> QED
    BY <1>2, <1>6, <2>1 DEF vars
<1> QED
  BY <1>1, <1>3, <1>4, <1>5, <1>6 DEF Next

\* The tables are what the registrations made so far say, a vector lists each of
\* its models once, and an access is answered from complete tables.
THEOREM LutAlways == Spec => []LutInv
<1>1. Init => LutInv
  BY LutStarts
<1>2. LutInv /\ [Next]_vars => LutInv'
  BY LutSteps
<1> QED
  BY <1>1, <1>2, PTL DEF Spec

\* dev_notify_irq calls every model the configuration names for the vector, no
\* other, and each once, however often the configuration names it.
THEOREM IrqOnce == Spec => []InterruptReachesModelsOnce
<1>1. ASSUME LutInv
      PROVE  InterruptReachesModelsOnce
  <2> DEFINE v == access.addr
             Named(i) == config[i].kind = "irq" /\ config[i].irq = v
  <2>1. SUFFICES ASSUME access.kind = "irq"
                 PROVE  /\ IsInjective(access.models)
                        /\ ToSet(access.models) =
                             {config[i].model : i \in {j \in DOMAIN config : Named(j)}}
    BY DEF InterruptReachesModelsOnce
  <2>2. /\ v \in 0 .. MAX_INTERRUPTS - 1 /\ todo = <<>>
        /\ access.models = irq_lut[v]
    BY <1>1, <2>1 DEF LutInv, Accessed
  <2> HIDE DEF v
  <2>3. config \in Config /\ config \in Seq(ToSet(config)) /\ DOMAIN config = 1 .. Done
    BY <1>1, <2>2, ConfigAssumption DEF LutInv, Progress, Done
  <2>4. IsInjective(access.models) /\ access.models \in Seq(Models)
    BY <1>1, <2>2 DEF LutInv, IrqLinks
  <2>5. \A m \in Models : Contains(access.models, m) <=>
                           \E i \in 1 .. Done : Named(i) /\ config[i].model = m
    BY <1>1, <2>2 DEF LutInv, IrqLinks
  <2>6. \A i \in DOMAIN config : config[i].model \in Models
    BY <2>3, ConfigAssumption
  <2>7. \A x : x \in ToSet(access.models) <=> x \in Models /\ Contains(access.models, x)
    BY <2>4 DEF Contains, ToSet
  <2> HIDE DEF Named
  <2>8. ToSet(access.models) = {config[i].model : i \in {j \in DOMAIN config : Named(j)}}
    BY <2>3, <2>5, <2>6, <2>7
  <2> QED
    BY <2>4, <2>8
<1> QED
  BY <1>1, LutAlways, PTL

LEMMA TodoIsSuffix ==
  ASSUME Progress
  PROVE  IsSuffix(todo, config)
<1> DEFINE n == Len(todo)
           m == Len(config)
<1>1. /\ todo \in Seq(ToSet(config)) /\ config \in Seq(ToSet(config))
      /\ n \in Nat /\ m \in Nat /\ n <= m
  BY ConfigAssumption DEF Progress
<1> DEFINE rt == Reverse(todo)
           rc == Reverse(config)
<1>2. /\ rt \in Seq(ToSet(config)) /\ Len(rt) = n
      /\ \A i \in 1 .. n : rt[i] = todo[(n - i) + 1]
  BY <1>1 DEF Reverse
<1>3. /\ rc \in Seq(ToSet(config)) /\ Len(rc) = m
      /\ \A i \in 1 .. m : rc[i] = config[(m - i) + 1]
  BY <1>1 DEF Reverse
<1>4. \A k \in 1 .. n : todo[k] = config[(m - n) + k]
  BY DEF Progress, Done
<1> HIDE DEF n, m, rt, rc
<1>5. \A i \in 1 .. n : rt[i] = rc[i]
  <2> TAKE i \in 1 .. n
  <2>1. (n - i) + 1 \in 1 .. n /\ i \in 1 .. m /\ (m - n) + ((n - i) + 1) = (m - i) + 1
    BY <1>1
  <2>2. rt[i] = todo[(n - i) + 1] /\ rc[i] = config[(m - i) + 1]
    BY <1>2, <1>3, <2>1
  <2> DEFINE j == (n - i) + 1
  <2>3. todo[j] = config[(m - n) + j]
    <3> HIDE DEF j
    <3>1. j \in 1 .. n
      BY <2>1 DEF j
    <3> QED
      BY <1>4, <3>1
  <2> QED
    BY <2>1, <2>2, <2>3
<1>6. SubSeq(rt, 1, n) = SubSeq(rc, 1, n)
  BY <1>1, <1>2, <1>3, <1>5
<1> QED
  BY <1>1, <1>2, <1>3, <1>6 DEF IsSuffix, IsPrefix, rt, rc

\* Tables, vectors and what is left to register keep their types; whoever
\* answers an access is a configured model.
THEOREM LutTypeOK == Spec => []TypeOK
<1>1. ASSUME LutInv
      PROVE  TypeOK
  <2>1. config \in Config /\ lut \in [Slots -> Seq(Models)] /\ dead \in BOOLEAN
        /\ irq_lut \in [0 .. MAX_INTERRUPTS - 1 -> Seq(Models)]
    BY <1>1 DEF LutInv, Progress, Links, IrqLinks
  <2>2. IsSuffix(todo, config)
    BY <1>1, TodoIsSuffix DEF LutInv
  <2>3. access.models \in Seq(Models)
    <3>1. CASE access.kind \in {"none", "irq"}
      <4>1. access.models = <<>> \/ access.models \in Seq(Models)
        BY <1>1, <3>1 DEF LutInv, Accessed, IrqLinks
      <4>2. <<>> \in Seq(Models)
        OBVIOUS
      <4> QED
        BY <4>1, <4>2
    <3>2. CASE access.kind \in {"write", "read"}
      <4> DEFINE N == Nodes(access.addr)
      <4>1. N \in Seq(Models)
        <5>1. access.addr \in Nat
          BY <1>1, <3>2, SizeAssumption DEF LutInv, Accessed, Addresses
        <5> QED
          BY <2>1, <5>1, NodesAreModels
      <4>2. access.models = N \/ access.models = ChooseReader(N)
        BY <1>1, <3>2 DEF LutInv, Accessed
      <4> HIDE DEF N
      <4>3. ChooseReader(N) \in Seq(Models)
        <5>1. Contains(N, Priority) => Priority \in Models
          BY <4>1 DEF Contains
        <5>2. First(N) \in Seq(Models)
          BY <4>1 DEF First
        <5> QED
          BY <5>1, <5>2 DEF ChooseReader
      <4> QED
        BY <4>1, <4>2, <4>3
    <3> QED
      BY <1>1, <3>1, <3>2 DEF LutInv, Accessed
  <2> QED
    BY <2>1, <2>2, <2>3 DEF TypeOK
<1> QED
  BY <1>1, LutAlways, PTL

-----------------------------------------------------------------------------
(* DeviceLut: addresses of the machine.                                    *)

\* The machine has 32-bit addresses, an index is as wide or wider, regions are
\* whole slots, and no range reaches past the last region.
Geometry ==
  /\ 16 * RegionSize <= HwMod /\ 16 * RegionSize <= UMod * SLOT_SIZE
  /\ RegionSize % SLOT_SIZE = 0
  /\ \A c \in Config : \A i \in DOMAIN c :
       c[i].kind = "range" => c[i].end <= 16 * RegionSize

LEMMA DivBounds ==
  ASSUME NEW x \in Nat, NEW s \in Nat \ {0}
  PROVE  x \div s \in Nat /\ (x \div s) * s <= x /\ x < (x \div s) * s + s
OBVIOUS

LEMMA DivIs ==
  ASSUME NEW x \in Nat, NEW q \in Nat, NEW s \in Nat \ {0}, q * s <= x, x < q * s + s
  PROVE  x \div s = q
OBVIOUS

LEMMA DivMonotone ==
  ASSUME NEW x \in Nat, NEW y \in Nat, NEW s \in Nat \ {0}, x <= y
  PROVE  x \div s <= y \div s
OBVIOUS

LEMMA DivBelow ==
  ASSUME NEW x \in Nat, NEW n \in Nat, NEW s \in Nat \ {0}, x < n * s
  PROVE  x \div s < n
OBVIOUS

\* Slots are counted from a base that is a whole number of them.
LEMMA DivFrom ==
  ASSUME NEW a \in Nat, NEW b \in Nat, NEW k \in Nat, NEW s \in Nat \ {0}, b = k * s, b <= a
  PROVE  a \div s = k + (a - b) \div s
<1> DEFINE y == a - b
           d == y \div s
<1>1. y \in Nat /\ a = k * s + y
  OBVIOUS
<1> HIDE DEF y
<1>2. d \in Nat /\ d * s <= y /\ y < d * s + s
  BY <1>1, DivBounds
<1> HIDE DEF d
<1>3. (k + d) * s = k * s + d * s /\ k * s \in Nat /\ d * s \in Nat
  BY <1>2
<1>4. (k + d) * s <= a /\ a < (k + d) * s + s /\ k + d \in Nat
  BY <1>1, <1>2, <1>3
<1>5. a \div s = k + d
  BY <1>4, DivIs
<1> QED
  BY <1>5 DEF d, y

\* A table is a stretch of addresses from its base, of Size whole slots.
Size(t) == IF t = "device" THEN 2 * RegionSize ELSE RegionSize

LEMMA TableIsStretch ==
  ASSUME NEW t \in {"device", "system"}, NEW a \in Nat
  PROVE  /\ Table(a) = t <=> Base(t) <= a /\ a < Base(t) + Size(t)
         /\ Base(t) \in Nat /\ Size(t) \in Nat /\ Base(t) + Size(t) <= 16 * RegionSize
<1> DEFINE R == RegionSize
           d == a \div R
<1>1. R \in Nat \ {0}
  BY SizeAssumption
<1>2. d \in Nat /\ d * R <= a /\ a < d * R + R
  BY <1>1, DivBounds
<1>3. \A q \in Nat : q * R <= a /\ a < q * R + R => d = q
  BY <1>1, DivIs
<1>4. Table(a) = "device" <=> d \in {4, 5}
  BY <1>2 DEF Table
<1>5. Table(a) = "system" <=> d = 14
  BY <1>2 DEF Table
<1> HIDE DEF d
<1>6. d \in {4, 5} <=> 4 * R <= a /\ a < 6 * R
  BY <1>1, <1>2, <1>3
<1>7. d = 14 <=> 14 * R <= a /\ a < 15 * R
  BY <1>1, <1>2, <1>3
<1>8. CASE t = "device"
  <2>1. Base(t) = 4 * R /\ Size(t) = 2 * R
    BY <1>8 DEF Base, Size, DEVICE_BASE
  <2> QED
    BY <1>1, <1>4, <1>6, <1>8, <2>1
<1>9. CASE t = "system"
  <2>1. Base(t) = 14 * R /\ Size(t) = R
    BY <1>9 DEF Base, Size, SYSTEM_BASE
  <2> QED
    BY <1>1, <1>5, <1>7, <1>9, <2>1
<1> QED
  BY <1>8, <1>9

LEMMA WholeSlots ==
  ASSUME Geometry, NEW t \in {"device", "system"}
  PROVE  /\ MaxSlots(t) \in Nat /\ Size(t) = MaxSlots(t) * SLOT_SIZE
         /\ \E k \in Nat : Base(t) = k * SLOT_SIZE
<1> DEFINE S == SLOT_SIZE
           n == RegionSize \div S
<1>1. S \in Nat \ {0} /\ RegionSize \in Nat
  BY SizeAssumption
<1>2. n \in Nat /\ RegionSize = n * S
  BY <1>1 DEF Geometry
<1> HIDE DEF n
<1>3. MaxSlots(t) = Size(t) \div S
  BY DEF MaxSlots, Size
<1>4. CASE t = "device"
  <2>1. Size(t) = (2 * n) * S /\ Base(t) = (4 * n) * S
    BY <1>1, <1>2, <1>4 DEF Size, Base, DEVICE_BASE
  <2>2. ((2 * n) * S) \div S = 2 * n
    BY <1>1, <1>2, DivIs
  <2> QED
    BY <1>2, <1>3, <2>1, <2>2
<1>5. CASE t = "system"
  <2>1. Size(t) = n * S /\ Base(t) = (14 * n) * S
    BY <1>1, <1>2, <1>5 DEF Size, Base, SYSTEM_BASE
  <2>2. (n * S) \div S = n
    BY <1>1, <1>2, DivIs
  <2> QED
    BY <1>2, <1>3, <2>1, <2>2
<1> QED
  BY <1>4, <1>5

\* Nothing is cut from the index of an address above the base.
LEMMA SlotIs ==
  ASSUME Geometry, NEW a \in Nat, NEW b \in Nat, b <= a, a < 16 * RegionSize
  PROVE  Slot(a, b) = (a - b) \div SLOT_SIZE
<1> DEFINE x == a - b
           S == SLOT_SIZE
           d == x \div S
<1>1. /\ x \in Nat /\ x < 16 * RegionSize
      /\ S \in Nat \ {0} /\ HwMod \in Nat \ {0} /\ UMod \in Nat \ {0}
  BY SizeAssumption
<1>2. x < HwMod /\ x < UMod * S
  BY <1>1, SizeAssumption DEF Geometry
<1> HIDE DEF x
<1>3. x % HwMod = x
  BY <1>1, <1>2
<1>4. d \in Nat /\ d < UMod
  BY <1>1, <1>2, DivBounds, DivBelow
<1> HIDE DEF d
<1>5. d % UMod = d
  BY <1>1, <1>4
<1> QED
  BY <1>3, <1>5 DEF Slot, x, d

-----------------------------------------------------------------------------
(* DeviceLut: what an access reaches.                                      *)

\* The slot of an address of a table, and the list it walks.
LEMMA AddressHasSlot ==
  ASSUME Geometry, NEW a \in Nat, NEW t \in {"device", "system"}, Table(a) = t
  PROVE  /\ Slot(a, Base(t)) = (a - Base(t)) \div SLOT_SIZE
         /\ Slot(a, Base(t)) \in Nat /\ Slot(a, Base(t)) < MaxSlots(t)
         /\ <<t, Slot(a, Base(t))>> \in Slots
         /\ Nodes(a) = lut[<<t, Slot(a, Base(t))>>]
<1> DEFINE B == Base(t)
           M == MaxSlots(t)
           i == Slot(a, B)
<1>1. /\ B \in Nat /\ B <= a /\ a < B + Size(t)
      /\ Size(t) \in Nat /\ B + Size(t) <= 16 * RegionSize
  BY TableIsStretch
<1>2. M \in Nat /\ Size(t) = M * SLOT_SIZE /\ SLOT_SIZE \in Nat \ {0} /\ RegionSize \in Nat
  BY WholeSlots, SizeAssumption
<1>3. Nodes(a) = IF i >= M THEN <<>> ELSE lut[<<t, i>>]
  BY DEF Nodes
<1> HIDE DEF B, M
<1>4. i = (a - B) \div SLOT_SIZE
  BY <1>1, <1>2, SlotIs
<1>5. a - B \in Nat /\ a - B < M * SLOT_SIZE
  BY <1>1, <1>2
<1>6. i \in Nat /\ i < M
  BY <1>2, <1>4, <1>5, DivBounds, DivBelow
<1>7. <<t, i>> \in Slots
  BY <1>6, SlotsAre DEF M
<1> QED
  BY <1>2, <1>3, <1>4, <1>6, <1>7 DEF B, M

\* The slots of a range, for a range of a table.
LEMMA RangeHasSlots ==
  ASSUME Geometry, NEW s \in Nat, NEW e \in Nat, s <= e, e <= 16 * RegionSize,
         NEW t \in {"device", "system"}, Table(s) = t
  PROVE  /\ LastAddr(s, e) \in Nat /\ s <= LastAddr(s, e) /\ LastAddr(s, e) < 16 * RegionSize
         /\ Slot(LastAddr(s, e), Base(t)) = (LastAddr(s, e) - Base(t)) \div SLOT_SIZE
         /\ Slot(LastAddr(s, e), Base(t)) \in Nat
         /\ \A x : <<t, x>> \in Covered(s, e) <=>
                     x \in Slot(s, Base(t)) .. Clamp(Slot(LastAddr(s, e), Base(t)), MaxSlots(t))
<1> DEFINE B == Base(t)
           l == LastAddr(s, e)
<1>1. /\ B \in Nat /\ B <= s /\ s < 16 * RegionSize
      /\ RegionSize \in Nat /\ SLOT_SIZE \in Nat \ {0}
  BY TableIsStretch, SizeAssumption
<1>2. l \in Nat /\ s <= l /\ l < 16 * RegionSize
  BY <1>1 DEF LastAddr
<1> HIDE DEF l, B
<1>3. Slot(l, B) = (l - B) \div SLOT_SIZE
  BY <1>1, <1>2, SlotIs
<1>4. l - B \in Nat
  BY <1>1, <1>2
<1>5. Slot(l, B) \in Nat
  BY <1>1, <1>3, <1>4, DivBounds
<1>6. Covered(s, e) = {<<t, i>> : i \in Slot(s, B) .. Clamp(Slot(l, B), MaxSlots(t))}
  BY DEF Covered, B, l
<1>7. \A x : <<t, x>> \in Covered(s, e) <=> x \in Slot(s, B) .. Clamp(Slot(l, B), MaxSlots(t))
  BY <1>6
<1> QED
  BY <1>2, <1>3, <1>5, <1>7 DEF B, l

\* Whether a range of a table asked for part of the slot of an address, apart from
\* an end that begins a slot.
SharesSlot(s, e, t, a) ==
  \E b \in s .. e : /\ Table(b) = t
                    /\ ~(b = e /\ s < b /\ b % SLOT_SIZE = 0)
                    /\ b \div SLOT_SIZE = a \div SLOT_SIZE

LEMMA SameQuotient ==
  ASSUME NEW x \in Nat, NEW s \in Nat \ {0}, x % s # 0
  PROVE  x - 1 \in Nat /\ (x - 1) \div s = x \div s
<1> DEFINE q == x \div s
           y == x - 1
<1>1. q \in Nat /\ q * s <= x /\ x < q * s + s
  BY DivBounds
<1>2. q * s # x
  <2>1. x = q * s + (x % s)
    OBVIOUS
  <2> QED
    BY <1>1, <2>1
<1> HIDE DEF q
<1>3. y \in Nat /\ q * s <= y /\ y < q * s + s
  <2>1. q * s \in Nat
    BY <1>1
  <2> QED
    BY <1>1, <1>2, <2>1
<1> HIDE DEF y
<1>4. y \div s = q
  BY <1>1, <1>3, DivIs
<1> QED
  BY <1>3, <1>4 DEF y, q

\* A range that asked for part of the slot of an address is linked to the slot.
LEMMA NearIsCovered ==
  ASSUME Geometry, NEW a \in Nat, NEW s \in Nat, NEW e \in Nat, s <= e, e <= 16 * RegionSize,
         NEW t \in {"device", "system"}, Table(a) = t, Table(s) = t, SharesSlot(s, e, t, a)
  PROVE  <<t, Slot(a, Base(t))>> \in Covered(s, e)
<1> DEFINE B == Base(t)
           M == MaxSlots(t)
           S == SLOT_SIZE
           l == LastAddr(s, e)
           i == Slot(a, B)
           first == Slot(s, B)
           far == Slot(l, B)
<1>1. B \in Nat /\ B <= s /\ B <= a /\ S \in Nat \ {0}
  BY TableIsStretch, SizeAssumption
<1>2. i = (a - B) \div S /\ i \in Nat /\ i < M /\ M \in Nat
  BY AddressHasSlot, WholeSlots
<1>3. first = (s - B) \div S /\ first \in Nat
  BY AddressHasSlot
<1>4. l \in Nat /\ far = (l - B) \div S /\ far \in Nat /\ s <= l
  BY RangeHasSlots
<1>5. PICK b \in s .. e : ~(b = e /\ s < b /\ b % S = 0) /\ b \div S = a \div S
  BY DEF SharesSlot
<1>6. b <= l \/ (b % S # 0 /\ l = b - 1)
  BY <1>5 DEF LastAddr
<1>7. PICK k \in Nat : B = k * S
  BY WholeSlots
<1>8. \A x : <<t, x>> \in Covered(s, e) <=> x \in first .. Clamp(far, M)
  BY RangeHasSlots
<1> HIDE DEF B, M, S, l, i, first, far
<1>9. ASSUME NEW x \in Nat, B <= x
      PROVE  x \div S = k + (x - B) \div S
  BY <1>1, <1>7, <1>9, DivFrom
<1>10. a \div S = k + i /\ s \div S = k + first /\ l \div S = k + far
  <2>1. a \div S = k + (a - B) \div S
    BY <1>1, <1>9
  <2>2. s \div S = k + (s - B) \div S
    BY <1>1, <1>9
  <2>3. l \div S = k + (l - B) \div S
    <3>1. B <= l
      BY <1>1, <1>4
    <3> QED
      BY <1>4, <1>9, <3>1
  <2> QED
    BY <1>2, <1>3, <1>4, <2>1, <2>2, <2>3
<1>11. b \in Nat /\ s <= b
  OBVIOUS
<1>12. b \div S <= l \div S
  <2>1. CASE b <= l
    BY <1>1, <1>4, <1>11, <2>1, DivMonotone
  <2>2. CASE b % S # 0 /\ l = b - 1
    <3>1. (b - 1) \div S = b \div S
      BY <1>1, <1>11, <2>2, SameQuotient
    <3>2. b \div S \in Nat
      BY <1>1, <1>11, DivBounds
    <3> QED
      BY <2>2, <3>1, <3>2
  <2> QED
    BY <1>6, <2>1, <2>2
<1>13. s \div S <= b \div S
  BY <1>1, <1>11, DivMonotone
<1>14. first <= i /\ i <= far
  <2>1. k + first <= k + i /\ k + i <= k + far
    BY <1>5, <1>10, <1>12, <1>13
  <2> QED
    BY <1>2, <1>3, <1>4, <2>1
<1>15. i \in first .. Clamp(far, M)
  BY <1>2, <1>3, <1>4, <1>14 DEF Clamp
<1>16. <<t, i>> \in Covered(s, e)
  BY <1>8, <1>15
<1> QED
  BY <1>16 DEF i, B

\* A range that is linked to the slot of an address asked for part of the slot.
LEMMA CoveredIsNear ==
  ASSUME Geometry, NEW a \in Nat, NEW s \in Nat, NEW e \in Nat, s <= e, e <= 16 * RegionSize,
         NEW t \in {"device", "system"}, Table(a) = t, Table(s) = t,
         <<t, Slot(a, Base(t))>> \in Covered(s, e)
  PROVE  SharesSlot(s, e, t, a)
<1> DEFINE B == Base(t)
           M == MaxSlots(t)
           S == SLOT_SIZE
           l == LastAddr(s, e)
           i == Slot(a, B)
           first == Slot(s, B)
           far == Slot(l, B)
<1>1. B \in Nat /\ B <= s /\ B <= a /\ S \in Nat \ {0} /\ a < B + Size(t) /\ Size(t) \in Nat
  BY TableIsStretch, SizeAssumption
<1>2. i = (a - B) \div S /\ i \in Nat /\ i < M /\ M \in Nat
  BY AddressHasSlot, WholeSlots
<1>3. first = (s - B) \div S /\ first \in Nat
  BY AddressHasSlot
<1>4. l \in Nat /\ far = (l - B) \div S /\ far \in Nat /\ s <= l
  BY RangeHasSlots
<1>5. first <= i /\ i <= far
  <2>1. i \in first .. Clamp(far, M)
    BY RangeHasSlots
  <2> HIDE DEF i, first, far, M
  <2> QED
    BY <1>2, <1>3, <1>4, <2>1 DEF Clamp
<1>6. \/ l = s /\ s = e
      \/ l = e - 1 /\ s < e
  BY DEF LastAddr
<1>7. PICK k \in Nat : B = k * S
  BY WholeSlots
<1>8. \A x \in Nat : B <= x /\ x <= a => Table(x) = t
  BY <1>1, TableIsStretch
<1> HIDE DEF B, M, S, l, i, first, far
<1>9. \A x \in Nat : B <= x => x \div S = k + (x - B) \div S
  <2> TAKE x \in Nat
  <2> HAVE B <= x
  <2>1. B \in Nat
    BY <1>1
  <2>2. S \in Nat \ {0}
    BY <1>1
  <2>3. B <= x
    OBVIOUS
  <2> QED
    BY <1>7, <2>1, <2>2, <2>3, DivFrom
<1>10. a \div S = k + i
  BY <1>1, <1>2, <1>9
<1>11. CASE first = i
  <2>1. s \div S = a \div S
    BY <1>1, <1>3, <1>9, <1>10, <1>11
  <2> QED
    BY <2>1 DEF S, SharesSlot
<1>12. CASE first # i
  <2> DEFINE y == i * S
             b == B + y
  <2>1. y \in Nat /\ y <= a - B /\ y <= l - B /\ s - B < y
    <3>1. a - B \in Nat /\ l - B \in Nat /\ s - B \in Nat
      BY <1>1, <1>4
    <3>2. y <= a - B
      BY <1>1, <1>2, <3>1, DivBounds
    <3>3. far * S <= l - B /\ y <= far * S
      BY <1>1, <1>2, <1>4, <1>5, <3>1, DivBounds
    <3>4. s - B < first * S + S /\ first * S + S <= y
      BY <1>1, <1>2, <1>3, <1>5, <1>12, <3>1, DivBounds
    <3>5. y \in Nat /\ first * S \in Nat /\ far * S \in Nat
      BY <1>1, <1>2, <1>3, <1>4
    <3> QED
      BY <1>1, <1>4, <3>1, <3>2, <3>3, <3>4, <3>5
  <2>2. b \div S = a \div S
    <3>1. y \div S = i
      BY <1>1, <1>2, <2>1, DivIs
    <3>2. b \in Nat /\ B <= b /\ b - B = y
      BY <1>1, <2>1
    <3> HIDE DEF y, b
    <3> QED
      BY <1>9, <1>10, <3>1, <3>2
  <2> HIDE DEF y
  <2>3. b \in Nat /\ B <= b /\ b <= a /\ b <= l /\ s < b
    BY <1>1, <1>4, <2>1
  <2> HIDE DEF b
  <2>4. Table(b) = t
    BY <1>8, <2>3
  <2>5. b \in s .. e /\ b < e
    BY <1>6, <2>3
  <2> QED
    BY <2>2, <2>3, <2>4, <2>5 DEF S, SharesSlot
<1> QED
  BY <1>11, <1>12

\* The ranges of an address are the registrations linked to its slot.
LEMMA RangesAreLinked ==
  ASSUME Geometry, config \in Config, NEW a \in Nat,
         NEW t \in {"device", "system"}, Table(a) = t
  PROVE  \A i \in DOMAIN config :
           i \in Ranges(a) <=>
             /\ config[i].kind = "range"
             /\ <<t, Slot(a, Base(t))>> \in Covered(config[i].start, config[i].end)
<1> TAKE i \in DOMAIN config
<1> DEFINE s == config[i].start
           e == config[i].end
<1>1. SUFFICES ASSUME config[i].kind = "range"
               PROVE  Near(i, a) <=> <<t, Slot(a, Base(t))>> \in Covered(s, e)
  BY DEF Ranges
<1>2. s \in Nat /\ e \in Nat /\ s <= e /\ e <= 16 * RegionSize
  BY <1>1, ConfigAssumption DEF Geometry
<1>3. Near(i, a) <=> Table(s) = t /\ SharesSlot(s, e, t, a)
  BY <1>2 DEF Near, Asked, LeftOut, SharesSlot
<1>4. <<t, Slot(a, Base(t))>> \in Covered(s, e) => Table(s) = t
  BY DEF Covered
<1> HIDE DEF s, e
<1>5. CASE Table(s) = t
  BY <1>2, <1>3, <1>5, NearIsCovered, CoveredIsNear
<1>6. CASE Table(s) # t
  BY <1>3, <1>4, <1>6
<1> QED
  BY <1>5, <1>6 DEF s, e

\* The list that an access to the peripheral or system region walks.
LEMMA AccessWalks ==
  ASSUME Geometry, LutInv, access.kind \in {"write", "read"},
         Table(access.addr) \in {"device", "system"}
  PROVE  LET near == Ranges(access.addr)
             N    == Nodes(access.addr)
         IN  /\ config \in Config /\ near \subseteq DOMAIN config
             /\ near \subseteq Int
             /\ N \in Seq(Models)
             /\ \A i \in near : config[i].model \in Models
             /\ \A m \in Models : Contains(N, m) <=> \E i \in near : config[i].model = m
             /\ N # <<>> => \E i \in near : /\ Head(N) = config[i].model
                                            /\ \A j \in near : j <= i
<1> DEFINE a == access.addr
           t == Table(a)
           near == Ranges(a)
           N == Nodes(a)
           slot == <<t, Slot(a, Base(t))>>
<1>1. a \in Nat /\ todo = <<>>
  BY SizeAssumption DEF LutInv, Accessed, Addresses
<1>2. config \in Config /\ DOMAIN config = 1 .. Done
  <2>1. config \in Config /\ config \in Seq(ToSet(config)) /\ Done = Len(config)
    BY <1>1, ConfigAssumption DEF LutInv, Progress, Done
  <2> QED
    BY <2>1
<1>3. t \in {"device", "system"}
  OBVIOUS
<1> HIDE DEF a, t
<1>4. Table(a) = t
  BY DEF t
<1>5. slot \in Slots /\ N = lut[slot]
  BY <1>1, <1>3, <1>4, AddressHasSlot
<1>6. N \in Seq(Models)
  BY <1>5 DEF LutInv, Links
<1>7. \A i \in DOMAIN config : i \in near <=>
        config[i].kind = "range" /\ slot \in Covered(config[i].start, config[i].end)
  BY <1>1, <1>2, <1>3, <1>4, RangesAreLinked
<1>8. near \subseteq DOMAIN config
  BY DEF Ranges
<1>9. \A i \in near : config[i].model \in Models
  BY <1>2, <1>8, ConfigAssumption
<1> HIDE DEF near, N, slot
<1>10. \A m \in Models : Contains(N, m) <=>
         \E i \in 1 .. Done : /\ config[i].kind = "range" /\ config[i].model = m
                              /\ slot \in Covered(config[i].start, config[i].end)
  BY <1>5 DEF LutInv, Links
<1>11. N # <<>> =>
         \E i \in 1 .. Done : /\ config[i].kind = "range"
                              /\ slot \in Covered(config[i].start, config[i].end)
                              /\ Head(N) = config[i].model
                              /\ \A j \in 1 .. Done :
                                   /\ config[j].kind = "range"
                                   /\ slot \in Covered(config[j].start, config[j].end)
                                   => j <= i
  BY <1>5 DEF LutInv, Heads
<1>12. \A m \in Models : Contains(N, m) <=> \E i \in near : config[i].model = m
  BY <1>2, <1>7, <1>8, <1>10
<1>13. N # <<>> => \E i \in near : Head(N) = config[i].model /\ \A j \in near : j <= i
  BY <1>2, <1>7, <1>8, <1>11
<1>14. near \subseteq Int
  BY <1>2, <1>8
<1> QED
  BY <1>2, <1>6, <1>8, <1>9, <1>12, <1>13, <1>14 DEF near, N, a

\* On a 32-bit machine, dev_write to a peripheral or system address calls the models
\* that registered a part of its slot and no other, where the end of a range is part
\* of it unless it begins a slot: the unsigned index and the clamp lose nothing else
\* and add nothing.
THEOREM WritesArrive ==
  ASSUME Geometry
  PROVE  Spec => []WriteReachesItsModels
<1>1. ASSUME LutInv
      PROVE  WriteReachesItsModels
  <2> DEFINE near == Ranges(access.addr)
             N == Nodes(access.addr)
  <2>1. SUFFICES ASSUME access.kind = "write", Table(access.addr) \in {"device", "system"}
                 PROVE  ToSet(access.models) = {config[i].model : i \in near}
    BY DEF WriteReachesItsModels
  <2>2. access.models = N
    BY <1>1, <2>1 DEF LutInv, Accessed
  <2>3. /\ N \in Seq(Models) /\ \A i \in near : config[i].model \in Models
        /\ \A m \in Models : Contains(N, m) <=> \E i \in near : config[i].model = m
    BY <1>1, <2>1, AccessWalks
  <2> HIDE DEF near, N
  <2>4. \A x : x \in ToSet(N) <=> x \in Models /\ Contains(N, x)
    BY <2>3 DEF Contains, ToSet
  <2> QED
    BY <2>2, <2>3, <2>4
<1> QED
  BY <1>1, LutAlways, PTL

\* On a 32-bit machine, dev_read of a peripheral or system address is answered by
\* elder, if it registered part of the slot, and else by the model that the
\* configuration names last among those that did; by nobody only if none did.
THEOREM OneAnswer ==
  ASSUME Geometry
  PROVE  Spec => []ReadIsAnswered
<1>1. ASSUME LutInv
      PROVE  ReadIsAnswered
  <2> DEFINE near == Ranges(access.addr)
             N == Nodes(access.addr)
  <2>1. SUFFICES ASSUME access.kind = "read", Table(access.addr) \in {"device", "system"}
                 PROVE  \/ near = {} /\ access.models = <<>>
                        \/ /\ \E i \in near : config[i].model = Priority
                           /\ access.models = <<Priority>>
                        \/ /\ \A i \in near : config[i].model # Priority
                           /\ \E i \in near : /\ \A j \in near : j <= i
                                             /\ access.models = <<config[i].model>>
    BY DEF ReadIsAnswered
  <2>2. access.models = ChooseReader(N)
    BY <1>1, <2>1 DEF LutInv, Accessed
  <2>3. /\ N \in Seq(Models) /\ \A i \in near : config[i].model \in Models
        /\ \A m \in Models : Contains(N, m) <=> \E i \in near : config[i].model = m
        /\ N # <<>> => \E i \in near : Head(N) = config[i].model /\ \A j \in near : j <= i
    BY <1>1, <2>1, AccessWalks
  <2> HIDE DEF near, N
  <2>4. CASE Contains(N, Priority)
    <3>1. Priority \in Models
      BY <2>3, <2>4 DEF Contains
    <3>2. \E i \in near : config[i].model = Priority
      BY <2>3, <2>4, <3>1
    <3> QED
      BY <2>2, <2>4, <3>2 DEF ChooseReader
  <2>5. CASE ~Contains(N, Priority) /\ N = <<>>
    <3>1. \A m : ~Contains(N, m)
      BY <2>5 DEF Contains
    <3>2. near = {}
      BY <2>3, <3>1
    <3> QED
      BY <2>2, <2>5, <3>2 DEF ChooseReader, First
  <2>6. CASE ~Contains(N, Priority) /\ N # <<>>
    <3>1. \A i \in near : config[i].model # Priority
      BY <2>3, <2>6
    <3>2. access.models = <<Head(N)>>
      BY <2>2, <2>6 DEF ChooseReader, First
    <3> QED
      BY <2>3, <2>6, <3>1, <3>2
  <2> QED
    BY <2>4, <2>5, <2>6
<1> QED
  BY <1>1, LutAlways, PTL

-----------------------------------------------------------------------------
(* TwintraceReplay: the converter.                                         *)

\* kept is what the converter has written after each record of the log.
Writes(log, kept) ==
  kept = [n \in 0 .. Len(log) |->
            IF n = 0 THEN <<>>
            ELSE IF Kept(log[n]) THEN Append(kept[n - 1], log[n]) ELSE kept[n - 1]]

\* The converter makes out of log, stated without the recursion.
Makes(log, out) ==
  /\ \E kept : Writes(log, kept)
  /\ \A kept : Writes(log, kept) => kept[Len(log)] = out

\* The recursive definition is one such function.
LEMMA MakesFiltered ==
  ASSUME NEW log, NEW out, Makes(log, out)
  PROVE  Filtered(log) = out
<1> DEFINE F == CHOOSE kept : Writes(log, kept)
<1>1. Writes(log, F)
  BY DEF Makes
<1>2. Filtered(log) = F[Len(log)]
  BY DEF Filtered, Writes
<1> QED
  BY <1>1, <1>2 DEF Makes

\* Of the empty log it makes the empty tape.
LEMMA MakesNothing == Makes(<<>>, <<>>)
<1> DEFINE K == [n \in 0 .. 0 |-> <<>>]
<1>1. Len(<<>>) = 0 /\ 0 .. 0 = {0}
  OBVIOUS
<1>2. Writes(<<>>, K)
  BY <1>1 DEF Writes
<1>3. \A kept : Writes(<<>>, kept) => kept[0] = <<>>
  BY <1>1 DEF Writes
<1> QED
  BY <1>1, <1>2, <1>3 DEF Makes

\* A record that is logged is written if it is kept, and changes nothing before.
LEMMA MakesMore ==
  ASSUME NEW R, NEW log \in Seq(R), NEW r \in R, NEW out, Makes(log, out)
  PROVE  Makes(Append(log, r), IF Kept(r) THEN Append(out, r) ELSE out)
<1> DEFINE more == Append(log, r)
           N    == Len(log)
           res  == IF Kept(r) THEN Append(out, r) ELSE out
<1>1. /\ N \in Nat /\ Len(more) = N + 1 /\ more[N + 1] = r
      /\ \A n \in 1 .. N : more[n] = log[n]
  OBVIOUS
<1> HIDE DEF more
<1>2. \E kept : Writes(more, kept)
  <2>1. PICK old : Writes(log, old)
    BY DEF Makes
  <2> DEFINE new == [n \in 0 .. N + 1 |-> IF n = N + 1 THEN res ELSE old[n]]
  <2>2. old[N] = out
    BY <2>1 DEF Makes
  <2>3. \A n \in 0 .. N :
          old[n] = IF n = 0 THEN <<>>
                   ELSE IF Kept(log[n]) THEN Append(old[n - 1], log[n]) ELSE old[n - 1]
    BY <2>1, <1>1 DEF Writes
  <2>4. ASSUME NEW n \in 0 .. N + 1
        PROVE  new[n] = IF n = 0 THEN <<>>
                        ELSE IF Kept(more[n]) THEN Append(new[n - 1], more[n])
                        ELSE new[n - 1]
    <3>1. CASE n = N + 1
      <4>1. n # 0 /\ new[n] = res /\ new[n - 1] = out /\ more[n] = r
        BY <1>1, <2>2, <3>1
      <4> QED
        BY <4>1
    <3>2. CASE n # N + 1 /\ n # 0
      <4>1. /\ n \in 1 .. N /\ n \in 0 .. N /\ new[n] = old[n] /\ new[n - 1] = old[n - 1]
            /\ more[n] = log[n]
        BY <1>1, <3>2
      <4>2. old[n] = IF Kept(log[n]) THEN Append(old[n - 1], log[n]) ELSE old[n - 1]
        BY <2>3, <3>2, <4>1
      <4> HIDE DEF new
      <4> QED
        BY <4>1, <4>2, <3>2
    <3>3. CASE n = 0
      BY <1>1, <2>3, <3>3
    <3> QED
      BY <3>1, <3>2, <3>3
  <2>5. new = [n \in 0 .. N + 1 |-> new[n]]
    OBVIOUS
  <2>6. Writes(more, new)
    <3> HIDE DEF new
    <3> QED
      BY <2>4, <2>5, <1>1 DEF Writes
  <2> QED
    BY <2>6
<1>3. ASSUME NEW kept, Writes(more, kept)
      PROVE  kept[N + 1] = res
  <2> DEFINE old == [n \in 0 .. N |-> kept[n]]
  <2>1. \A n \in 0 .. N + 1 :
          kept[n] = IF n = 0 THEN <<>>
                    ELSE IF Kept(more[n]) THEN Append(kept[n - 1], more[n])
                    ELSE kept[n - 1]
    BY <1>1, <1>3 DEF Writes
  <2>2. ASSUME NEW n \in 0 .. N
        PROVE  old[n] = IF n = 0 THEN <<>>
                        ELSE IF Kept(log[n]) THEN Append(old[n - 1], log[n])
                        ELSE old[n - 1]
    <3>1. CASE n = 0
      BY <2>1, <3>1, <1>1
    <3>2. CASE n # 0
      <4>1. /\ n \in 1 .. N /\ n \in 0 .. N + 1 /\ old[n] = kept[n]
            /\ old[n - 1] = kept[n - 1] /\ more[n] = log[n]
        BY <1>1, <3>2
      <4>2. kept[n] = IF Kept(more[n]) THEN Append(kept[n - 1], more[n])
                      ELSE kept[n - 1]
        BY <2>1, <3>2, <4>1
      <4> HIDE DEF old
      <4> QED
        BY <4>1, <4>2, <3>2
    <3> QED
      BY <3>1, <3>2
  <2>3. old = [n \in 0 .. N |-> old[n]]
    OBVIOUS
  <2>4. Writes(log, old)
    <3> HIDE DEF old
    <3> QED
      BY <2>2, <2>3 DEF Writes
  <2>5. kept[N] = out
    <3>1. old[N] = out
      <4> HIDE DEF old
      <4> QED
        BY <2>4 DEF Makes
    <3> QED
      BY <3>1, <1>1
  <2>6. kept[N + 1] = IF Kept(more[N + 1]) THEN Append(kept[N], more[N + 1]) ELSE kept[N]
    <3>1. N + 1 \in 0 .. N + 1 /\ N + 1 # 0 /\ (N + 1) - 1 = N
      BY <1>1
    <3> QED
      BY <2>1, <3>1
  <2> QED
    BY <2>5, <2>6, <1>1
<1> HIDE DEF res, N
<1>4. \A kept : Writes(more, kept) => kept[Len(more)] = res
  BY <1>1, <1>3
<1>5. Makes(more, res)
  BY <1>2, <1>4 DEF Makes
<1> QED
  BY <1>5 DEF more, res

-----------------------------------------------------------------------------
(* TwintraceReplay: the range of its variables.                            *)

\* An interrupt in the log is one of the vectors.
TapeRecords == {r \in Records : r.type = "TAKEN" => r.addr \in Vectors}

Places == {"off", "look", "asleep", "time", "confirm", "raise", "settle", "slept",
           "done"}

\* The thread holds a record of an interrupt.
Holds == thread \in {"time", "confirm", "raise", "settle", "slept"}

\* A handler at a place of its program.
StackFrames == {f \in Vectors \X Nat : f[2] <= Len(Handler[f[1]])}

CpuTypes ==
  /\ pc \in 0 .. Len(Main) /\ icount \in Nat
  /\ stack \in Seq(StackFrames)
  /\ nvic \subseteq Vectors /\ irqs \in 0 .. MaxIrqs /\ others \in 0 .. MaxOthers

TapeTypes ==
  /\ mode \in {"record", "replay", "diverged"}
  /\ tape \in Seq(TapeRecords) /\ idx \in 0 .. Len(tape) /\ e_idx \in 0 .. Len(tape)
  /\ thread \in Places
  /\ Holds => e_idx < Len(tape) /\ tape[e_idx + 1].type = "TAKEN"
  /\ mode = "record" => /\ idx = 0 /\ e_idx = 0 /\ thread = "off"
                        /\ \E out \in Seq(TapeRecords) : Makes(tape, out)

TwinTypes == CpuTypes /\ TapeTypes

\* Sequences, as the stack uses them.
LEMMA StackTop ==
  ASSUME NEW A, NEW s \in Seq(A), s # <<>>
  PROVE  /\ Len(s) \in Nat \ {0} /\ Last(s) = s[Len(s)] /\ Last(s) \in A
         /\ Front(s) \in Seq(A) /\ Len(Front(s)) = Len(s) - 1
         /\ \A j \in 1 .. Len(s) - 1 : Front(s)[j] = s[j]
<1>1. Len(s) \in Nat \ {0} /\ Last(s) = s[Len(s)] /\ s[Len(s)] \in A
  BY DEF Last
<1>2. \A n \in Nat : n <= Len(s) =>
        /\ SubSeq(s, 1, n) \in Seq(A) /\ Len(SubSeq(s, 1, n)) = n
        /\ \A j \in 1 .. n : SubSeq(s, 1, n)[j] = s[j]
  OBVIOUS
<1> DEFINE n == Len(s) - 1
<1>3. n \in Nat /\ n <= Len(s) /\ Front(s) = SubSeq(s, 1, n)
  BY <1>1 DEF Front
<1> HIDE DEF n
<1>4. /\ Front(s) \in Seq(A) /\ Len(Front(s)) = n
      /\ \A j \in 1 .. n : Front(s)[j] = s[j]
  BY <1>2, <1>3
<1> QED
  BY <1>1, <1>4 DEF n

LEMMA StackPush ==
  ASSUME NEW A, NEW s \in Seq(A), NEW x \in A
  PROVE  /\ Append(s, x) \in Seq(A) /\ Len(Append(s, x)) = Len(s) + 1
         /\ Len(s) \in Nat /\ Append(s, x)[Len(s) + 1] = x
         /\ \A j \in 1 .. Len(s) : Append(s, x)[j] = s[j]
  OBVIOUS

LEMMA StackReplace ==
  ASSUME NEW A, NEW s \in Seq(A), s # <<>>, NEW x \in A
  PROVE  /\ Append(Front(s), x) \in Seq(A) /\ Len(Append(Front(s), x)) = Len(s)
         /\ Append(Front(s), x)[Len(s)] = x
         /\ \A j \in 1 .. Len(s) - 1 : Append(Front(s), x)[j] = s[j]
<1>1. /\ Front(s) \in Seq(A) /\ Len(Front(s)) = Len(s) - 1 /\ Len(s) \in Nat
      /\ \A j \in 1 .. Len(s) - 1 : Front(s)[j] = s[j]
  BY StackTop
<1> QED
  BY <1>1, StackPush

\* Logging, replaying and ignoring an event keep the tape and the thread.
LEMMA EventTypes ==
  ASSUME TapeTypes, NEW r \in TapeRecords,
         \/ Replaying /\ Replay(r)
         \/ mode = "record" /\ Log(r)
         \/ NoEvent
  PROVE  TapeTypes'
<1>1. CASE NoEvent
  BY <1>1 DEF NoEvent, TapeTypes, Holds
<1>2. CASE mode = "record" /\ Log(r)
  <2>1. tape' = Append(tape, r) /\ UNCHANGED <<mode, idx, thread, e_idx>>
    BY <1>2 DEF Log
  <2>2. idx = 0 /\ e_idx = 0 /\ thread = "off" /\ tape \in Seq(TapeRecords)
    BY <1>2 DEF TapeTypes
  <2>3. tape' \in Seq(TapeRecords) /\ Len(tape') = Len(tape) + 1 /\ Len(tape) \in Nat
    BY <2>1, <2>2, StackPush
  <2>4. PICK out \in Seq(TapeRecords) : Makes(tape, out)
    BY <1>2 DEF TapeTypes
  <2>5. Makes(tape', IF Kept(r) THEN Append(out, r) ELSE out)
    BY <2>1, <2>2, <2>4, MakesMore
  <2>6. (IF Kept(r) THEN Append(out, r) ELSE out) \in Seq(TapeRecords)
    BY <2>4, StackPush
  <2>7. \E o \in Seq(TapeRecords) : Makes(tape', o)
    BY <2>5, <2>6
  <2> QED
    BY <2>1, <2>2, <2>3, <2>7 DEF TapeTypes, Holds, Places
<1>3. CASE Replaying /\ Replay(r)
  <2>1. mode = "replay" /\ UNCHANGED <<tape, e_idx>>
    BY <1>3 DEF Replay, Replaying
  <2>2. CASE Awaits(r.type) /\ Expected.addr = r.addr
    <3>1. idx' = idx + 1 /\ Broadcast /\ mode' = mode
      BY <1>3, <2>2 DEF Replay
    <3>2. idx < Len(tape)
      BY <2>2 DEF Awaits, Exhausted, TapeTypes
    <3>3. thread' \in Places /\ (thread \in {"slept"} => thread' = "settle")
          /\ (Holds' => Holds)
      BY <3>1 DEF Broadcast, TapeTypes, Places, Holds
    <3> QED
      BY <2>1, <3>1, <3>2, <3>3 DEF TapeTypes
  <2>3. CASE ~(Awaits(r.type) /\ Expected.addr = r.addr)
    <3>1. mode' = "diverged" /\ UNCHANGED <<idx, thread>>
      BY <1>3, <2>3 DEF Replay
    <3> QED
      BY <2>1, <3>1 DEF TapeTypes, Holds
  <2> QED
    BY <2>2, <2>3
<1> QED
  BY <1>1, <1>2, <1>3

\* The programs of the handlers, and the frames of the stack.
LEMMA ProgramsAre ==
  /\ Main \in Seq(Instructions) /\ Len(Main) \in Nat
  /\ \A v \in Vectors : Handler[v] \in Seq(Instructions) /\ Len(Handler[v]) \in Nat
  /\ \A f \in StackFrames : f[1] \in Vectors /\ f[2] \in Nat /\ f[2] <= Len(Handler[f[1]])
BY ProgramAssumption DEF StackFrames

LEMMA TopFrame ==
  ASSUME stack \in Seq(StackFrames), stack # <<>>
  PROVE  /\ Last(stack) \in StackFrames /\ Last(stack)[1] \in Vectors
         /\ Last(stack)[2] \in Nat /\ Last(stack)[2] <= Len(Handler[Last(stack)[1]])
BY StackTop, ProgramsAre

\* The CPU's own state.
LEMMA CpuStep ==
  ASSUME TwinTypes, Cpu
  PROVE  CpuTypes'
<1>1. CASE Execute
  <2>1. At < Len(Program) /\ icount' = icount + 1 /\ Advance /\ UNCHANGED <<nvic, irqs, others>>
    BY <1>1 DEF Execute, raised
  <2>2. CASE stack = <<>>
    <3>1. pc' = pc + 1 /\ stack' = stack /\ pc < Len(Main)
      BY <2>1, <2>2 DEF Advance, InHandler, At, Program
    <3> QED
      BY <2>1, <3>1, ProgramsAre DEF TwinTypes, CpuTypes
  <2>3. CASE stack # <<>>
    <3> DEFINE v == Last(stack)[1]
               q == Last(stack)[2]
    <3>1. v \in Vectors /\ q \in Nat /\ stack \in Seq(StackFrames)
      BY <2>3, TopFrame DEF TwinTypes, CpuTypes
    <3>2. /\ stack' = Append(Front(stack), <<v, q + 1>>)
          /\ pc' = pc /\ q < Len(Handler[v])
      BY <2>1, <2>3 DEF Advance, InHandler, At, Program
    <3> HIDE DEF v, q
    <3>3. <<v, q + 1>> \in StackFrames
      <4>1. q + 1 \in Nat /\ q + 1 <= Len(Handler[v])
        BY <3>1, <3>2, ProgramsAre
      <4> QED
        BY <3>1, <4>1 DEF StackFrames
    <3>4. stack' \in Seq(StackFrames)
      BY <2>3, <3>1, <3>2, <3>3, StackReplace
    <3> QED
      BY <2>1, <3>2, <3>4 DEF TwinTypes, CpuTypes
  <2> QED
    BY <2>2, <2>3
<1>2. CASE Idle
  BY <1>2 DEF Idle, TwinTypes, CpuTypes, raised
<1>3. ASSUME NEW v \in Vectors, TakeIrq(v)
      PROVE  CpuTypes'
  <2>1. /\ nvic' = nvic \ {v} /\ stack' = Append(stack, <<v, 0>>)
        /\ UNCHANGED <<pc, icount, irqs, others>>
    BY <1>3 DEF TakeIrq, raised
  <2>2. <<v, 0>> \in StackFrames
    BY ProgramsAre DEF StackFrames
  <2>3. stack' \in Seq(StackFrames)
    BY <2>1, <2>2, StackPush DEF TwinTypes, CpuTypes
  <2> QED
    BY <2>1, <2>3 DEF TwinTypes, CpuTypes
<1>4. CASE ReturnIrq
  <2>1. stack # <<>> /\ stack' = Front(stack) /\ UNCHANGED <<pc, icount, nvic, irqs, others>>
    BY <1>4 DEF ReturnIrq, InHandler, raised
  <2>2. stack' \in Seq(StackFrames)
    BY <2>1, StackTop DEF TwinTypes, CpuTypes
  <2> QED
    BY <2>1, <2>2 DEF TwinTypes, CpuTypes
<1> QED
  BY <1>1, <1>2, <1>3, <1>4 DEF Cpu

\* What the CPU does to the tape, whichever step it takes: nothing, or the
\* event of one record.
LEMMA CpuEvent ==
  ASSUME TwinTypes, Cpu
  PROVE  TapeTypes'
<1>0. mode # "diverged" /\ mode \in {"record", "replay", "diverged"} /\ icount \in Nat
  BY DEF Cpu, Execute, Idle, TakeIrq, ReturnIrq, TwinTypes, CpuTypes, TapeTypes
<1>1. CASE Execute
  <2>1. NoEvent \/ Access(AccessedRegister)
    BY <1>1 DEF Execute
  <2>2. AccessedRegister \in Nat
    <3>1. CASE stack = <<>>
      BY <3>1 DEF AccessedRegister, At, InHandler, TwinTypes, CpuTypes
    <3>2. CASE stack # <<>>
      <4>1. Last(stack)[1] \in Nat /\ Last(stack)[2] \in Nat
        BY <3>2, TopFrame, VectorAssumption DEF TwinTypes, CpuTypes
      <4> QED
        BY <3>2, <4>1 DEF AccessedRegister, At, InHandler
    <3> QED
      BY <3>1, <3>2
  <2>3. Record("MMIO", AccessedRegister) \in TapeRecords
    BY <1>0, <2>2 DEF Record, TapeRecords, Records
  <2>4. \/ Replaying /\ Replay(Record("MMIO", AccessedRegister))
        \/ mode = "record" /\ Log(Record("MMIO", AccessedRegister))
        \/ NoEvent
    BY <1>0, <2>1 DEF Access, Replaying
  <2> QED
    BY <2>3, <2>4, EventTypes DEF TwinTypes
<1>2. ASSUME NEW v \in Vectors, NEW type \in {"TAKEN", "SERVED"}, IrqEvent(type, v)
      PROVE  TapeTypes'
  <2>1. Record(type, v) \in TapeRecords
    BY <1>0, VectorAssumption DEF Record, TapeRecords, Records
  <2>2. \/ Replaying /\ Replay(Record(type, v))
        \/ mode = "record" /\ Log(Record(type, v))
        \/ NoEvent
    BY <1>0, <1>2 DEF IrqEvent, Replaying
  <2> QED
    BY <2>1, <2>2, EventTypes DEF TwinTypes
<1>3. ASSUME NEW v \in Vectors, TakeIrq(v)
      PROVE  TapeTypes'
  BY <1>2, <1>3 DEF TakeIrq
<1>4. CASE ReturnIrq
  <2>1. Last(stack)[1] \in Vectors
    <3>1. stack # <<>>
      BY <1>4 DEF ReturnIrq, InHandler
    <3> QED
      BY <3>1, TopFrame DEF TwinTypes, CpuTypes
  <2>2. IrqEvent("SERVED", Last(stack)[1])
    BY <1>4 DEF ReturnIrq
  <2> QED
    BY <1>2, <2>1, <2>2
<1>5. CASE Idle
  BY <1>5, EventTypes DEF Idle, TwinTypes, TapeTypes, Holds
<1> QED
  BY <1>1, <1>3, <1>4, <1>5 DEF Cpu

\* Every action keeps the variables in their range.
LEMMA TwinTypesStep ==
  ASSUME TwinTypes, [TwinNext]_twinVars
  PROVE  TwinTypes'
<1>1. CASE Cpu
  BY <1>1, CpuStep, CpuEvent DEF Cpu, TwinTypes
<1>2. ASSUME NEW v \in Lines, HardwareIrq(v)
      PROVE  TwinTypes'
  <2>1. /\ nvic' = nvic \cup {v} /\ irqs' = irqs + 1 /\ irqs < MaxIrqs
        /\ UNCHANGED <<mode, tape, idx, pc, stack, icount, others, thread, e_idx>>
    BY <1>2 DEF HardwareIrq, cpu
  <2>2. CpuTypes'
    BY <2>1, BoundAssumption DEF TwinTypes, CpuTypes, Vectors
  <2>3. TapeTypes'
    BY <2>1 DEF TwinTypes, TapeTypes, Holds
  <2> QED
    BY <2>2, <2>3 DEF TwinTypes
<1>6. ASSUME NEW v \in Others, OtherIrq(v)
      PROVE  TwinTypes'
  <2>1. /\ nvic' = nvic \cup {v} /\ others' = others + 1 /\ others < MaxOthers
        /\ UNCHANGED <<mode, tape, idx, pc, stack, icount, irqs, thread, e_idx>>
    BY <1>6 DEF OtherIrq, cpu
  <2>2. CpuTypes'
    BY <2>1, BoundAssumption DEF TwinTypes, CpuTypes, Vectors
  <2>3. TapeTypes'
    BY <2>1 DEF TwinTypes, TapeTypes, Holds
  <2> QED
    BY <2>2, <2>3 DEF TwinTypes
<1>3. CASE Convert
  <2>1. /\ mode = "record" /\ mode' = "replay" /\ tape' = Filtered(tape)
        /\ pc' = 0 /\ icount' = 0 /\ idx' = 0 /\ thread' = "look"
        /\ UNCHANGED <<stack, nvic, irqs, others, e_idx>>
    BY <1>3 DEF Convert, raised
  <2>2. tape' \in Seq(TapeRecords)
    <3>1. PICK out \in Seq(TapeRecords) : Makes(tape, out)
      BY <2>1 DEF TwinTypes, TapeTypes
    <3> QED
      BY <2>1, <3>1, MakesFiltered
  <2>3. e_idx = 0
    BY <2>1 DEF TwinTypes, TapeTypes
  <2>4. CpuTypes'
    BY <2>1, ProgramsAre DEF TwinTypes, CpuTypes
  <2>5. TapeTypes'
    BY <2>1, <2>2, <2>3 DEF TapeTypes, Holds, Places
  <2> QED
    BY <2>4, <2>5 DEF TwinTypes
<1>4. CASE Thread
  <2>1. /\ UNCHANGED <<mode, tape, idx, pc, stack, icount, irqs, others>>
        /\ thread' \in Places \ {"off"} /\ thread # "off"
    BY <1>4 DEF Thread, Look, Time, Confirm, Raise, Settle, ThreadTo, Stay, cpu, raised, Places
  <2>2. /\ Holds' => \/ Awaits("TAKEN") /\ e_idx' = idx
                     \/ Holds /\ e_idx' = e_idx
        /\ e_idx' \in {e_idx, idx}
    BY <1>4 DEF Thread, Look, Time, Confirm, Raise, Settle, ThreadTo, Stay, Holds
  <2>3. nvic' = nvic \/ (Holds /\ nvic' = nvic \cup {RaisedVector})
    BY <1>4 DEF Thread, Look, Time, Confirm, Raise, Settle, ThreadTo, Stay, Holds
  <2>4. nvic' \subseteq Vectors
    <3>1. Holds => RaisedVector \in Vectors
      BY DEF RaisedVector, TwinTypes, TapeTypes, TapeRecords
    <3> QED
      BY <2>3, <3>1 DEF TwinTypes, CpuTypes
  <2>5. CpuTypes'
    BY <2>1, <2>4 DEF TwinTypes, CpuTypes
  <2>6. TapeTypes'
    <3>1. Awaits("TAKEN") => idx < Len(tape) /\ tape[idx + 1].type = "TAKEN"
      BY DEF Awaits, Exhausted, Expected, TwinTypes, TapeTypes
    <3>2. Holds' => e_idx' < Len(tape) /\ tape[e_idx' + 1].type = "TAKEN"
      BY <2>2, <3>1 DEF TwinTypes, TapeTypes
    <3>3. mode # "record"
      BY <2>1 DEF TwinTypes, TapeTypes
    <3>4. e_idx' \in 0 .. Len(tape)
      BY <2>2 DEF TwinTypes, TapeTypes
    <3> QED
      BY <2>1, <3>2, <3>3, <3>4 DEF TwinTypes, TapeTypes
  <2> QED
    BY <2>5, <2>6 DEF TwinTypes
<1>5. CASE UNCHANGED twinVars
  <2>1. CpuTypes'
    BY <1>5 DEF twinVars, cpu, raised, TwinTypes, CpuTypes
  <2>2. TapeTypes'
    BY <1>5 DEF twinVars, cpu, TwinTypes, TapeTypes, Holds
  <2> QED
    BY <2>1, <2>2 DEF TwinTypes
<1> QED
  BY <1>1, <1>2, <1>3, <1>4, <1>5, <1>6 DEF TwinNext, Over

LEMMA TwinTypesInitially == TwinInit => TwinTypes
<1> SUFFICES ASSUME TwinInit PROVE TwinTypes
  OBVIOUS
<1>1. tape \in Seq(TapeRecords) /\ Makes(tape, <<>>) /\ <<>> \in Seq(TapeRecords)
  BY MakesNothing DEF TwinInit
<1>2. CpuTypes
  BY ProgramsAre, BoundAssumption DEF TwinInit, CpuTypes
<1>3. TapeTypes
  <2>1. /\ mode = "record" /\ idx = 0 /\ e_idx = 0 /\ thread = "off" /\ Len(tape) = 0
        /\ tape = <<>>
    BY DEF TwinInit
  <2>2. \E out \in Seq(TapeRecords) : Makes(tape, out)
    BY <1>1, <2>1
  <2>3. ~Holds /\ thread \in Places
    BY <2>1 DEF Holds, Places
  <2> QED
    BY <1>1, <2>1, <2>2, <2>3 DEF TapeTypes
<1> QED
  BY <1>2, <1>3 DEF TwinTypes

\* Every variable of the recording and of the replay keeps its range, and the
\* thread holds a record of an interrupt whenever it reads one.
THEOREM TwinTypesAlways == TwinSpec => []TwinTypes
<1>1. TwinTypes /\ [TwinNext]_twinVars => TwinTypes'
  BY TwinTypesStep
<1> QED
  BY <1>1, TwinTypesInitially, PTL DEF TwinSpec

\* The type invariant of TwintraceReplay.
THEOREM ReplayTypes == TwinSpec => []TwinTypeOK
<1>1. TwinTypes => TwinTypeOK
  <2> SUFFICES ASSUME TwinTypes PROVE TwinTypeOK
    OBVIOUS
  <2>1. tape \in Seq(Records)
    BY DEF TwinTypes, TapeTypes, TapeRecords
  <2>2. /\ stack \in Seq(Vectors \X Nat)
        /\ \A i \in 1 .. Len(stack) : stack[i][2] <= Len(Handler[stack[i][1]])
    BY DEF TwinTypes, CpuTypes, StackFrames
  <2> QED
    BY <2>1, <2>2 DEF TwinTypes, CpuTypes, TapeTypes, Places, TwinTypeOK
<1> QED
  BY <1>1, TwinTypesAlways, PTL

-----------------------------------------------------------------------------
(* TwintraceReplay: what either run leaves on the tape.                     *)
(*                                                                         *)
(* A view of a run is the firmware and, above it, the handlers of Lines     *)
(* that are running, each with its place.  Places of one program with no    *)
(* access between them are the same to the tape.                            *)

\* The replay the theorems are about: the tape holds the interrupts of the traced
\* devices and no others, all these have the model, nothing else raises them, and
\* the handlers of everything else keep off the traced registers.
Followable ==
  /\ Targets = Lines /\ Registered = Lines
  /\ Lines \cap Others = {} /\ SysTick \notin Lines
  /\ \A v \in Others : \A q \in 1 .. Len(Handler[v]) : Handler[v][q] # "mmio"

\* Program 0 is the firmware's.
Prog(v)        == IF v = 0 THEN Main ELSE Handler[v]
IsAccess(v, q) == q < Len(Prog(v)) /\ Prog(v)[q + 1] = "mmio"
RegisterOf(v, q) == (IF v = 0 THEN 0 ELSE v * 100) + q

Same(v, a, b) ==
  \A q \in Nat : (a <= q /\ q < b) \/ (b <= q /\ q < a) => ~IsAccess(v, q)

\* base is how many instructions of the threads below had been executed when the
\* handler began, done how many handlers that have ended executed.
Threads == [vec : Lines \cup {0}, at : Nat, base : Nat]
Views   == [d : Nat, f : [Nat -> Threads], done : Nat]
Top(p)  == p.f[p.d]

\* At p the event of record e takes place, and leads to t.
Event(p, e, t) ==
  \/ /\ e.type = "MMIO" /\ t.d = p.d /\ t.done = p.done
     /\ \E q \in Nat :
          /\ Same(Top(p).vec, Top(p).at, q) /\ IsAccess(Top(p).vec, q)
          /\ e.addr = RegisterOf(Top(p).vec, q)
          /\ t.f = [p.f EXCEPT ![p.d] = [vec |-> Top(p).vec, at |-> q + 1,
                                         base |-> Top(p).base]]
  \/ /\ e.type = "TAKEN" /\ e.addr \in Lines /\ t.d = p.d + 1 /\ t.done = p.done
     /\ \E n \in Nat :
          t.f = [p.f EXCEPT ![p.d + 1] = [vec |-> e.addr, at |-> 0, base |-> n]]
  \/ /\ e.type = "SERVED" /\ p.d > 0 /\ e.addr = Top(p).vec
     /\ Same(Top(p).vec, Top(p).at, Len(Prog(Top(p).vec)))
     /\ t.d = p.d - 1 /\ t.f = p.f /\ t.done = p.done + Len(Prog(Top(p).vec))

\* Where only Lines interrupt: an interrupt was taken at such a place of the thread
\* below it, and its count is what had been executed.
Due(p, e, t) ==
  e.type = "TAKEN" =>
    \E q \in Nat : /\ Same(Top(p).vec, Top(p).at, q)
                   /\ Top(p).vec # 0 => q <= Len(Prog(Top(p).vec))
                   /\ Top(t).base = Top(p).base + q
                   /\ e.icount = p.done + Top(t).base

\* The views between the records of a tape.
IsPath(path, out) ==
  /\ path \in [Nat -> Views]
  /\ path[0].d = 0 /\ path[0].done = 0
  /\ path[0].f[0] = [vec |-> 0, at |-> 0, base |-> 0]
  /\ \A k \in 1 .. Len(out) : Event(path[k - 1], out[k], path[k])

AllDue(path, out) == \A k \in 1 .. Len(out) : Due(path[k - 1], out[k], path[k])

\* A run with the firmware at place m and these handlers has the view p: r[i] of
\* the lowest i handlers are of Lines.
Tracks(p, m, stk, r) ==
  /\ r[0] = 0 /\ r[Len(stk)] = p.d
  /\ p.f[0].vec = 0 /\ Same(0, p.f[0].at, m)
  /\ \A i \in 1 .. Len(stk) :
       /\ r[i] = IF stk[i][1] \in Lines THEN r[i - 1] + 1 ELSE r[i - 1]
       /\ stk[i][1] \in Lines => /\ p.f[r[i]].vec = stk[i][1]
                                 /\ Same(stk[i][1], p.f[r[i]].at, stk[i][2])
  /\ \A i, j \in 0 .. Len(stk) : i <= j => r[i] <= r[j]

\* Where only Lines interrupt: b[i] is how many instructions the firmware and the
\* lowest i handlers have executed.  No handler began earlier than in the view, nor
\* later, in the recorded run.
Counts(p, m, stk, r, b, ic, run) ==
  /\ b[0] = m /\ p.f[0].base = 0
  /\ ic = p.done + b[Len(stk)]
  /\ \A i \in 1 .. Len(stk) :
       /\ stk[i][1] \in Lines /\ b[i] = b[i - 1] + stk[i][2]
       /\ p.f[r[i]].base <= b[i - 1]
       /\ run = "record" => p.f[r[i]].base = b[i - 1]

LEMMA SameTurns ==
  ASSUME NEW v, NEW a, NEW b, Same(v, a, b)
  PROVE  Same(v, b, a)
BY DEF Same

LEMMA SameJoins ==
  ASSUME NEW v, NEW a \in Nat, NEW b \in Nat, NEW c \in Nat, Same(v, a, b), Same(v, b, c)
  PROVE  Same(v, a, c)
<1>1. \A q \in Nat : (a <= q /\ q < c) \/ (c <= q /\ q < a) =>
        (a <= q /\ q < b) \/ (b <= q /\ q < a) \/ (b <= q /\ q < c) \/ (c <= q /\ q < b)
  OBVIOUS
<1> QED
  BY <1>1 DEF Same

LEMMA SameHere ==
  ASSUME NEW v, NEW a \in Nat
  PROVE  Same(v, a, a)
BY DEF Same

\* One instruction that is no access.
LEMMA SameNext ==
  ASSUME NEW v, NEW a \in Nat, ~IsAccess(v, a)
  PROVE  Same(v, a, a + 1)
<1>1. \A q \in Nat : (a <= q /\ q < a + 1) \/ (a + 1 <= q /\ q < a) => q = a
  OBVIOUS
<1> QED
  BY <1>1 DEF Same

\* Two accesses at the same place are one.
LEMMA SameAccess ==
  ASSUME NEW v, NEW a \in Nat, NEW b \in Nat, NEW c \in Nat,
         Same(v, a, b), Same(v, a, c), IsAccess(v, b)
  PROVE  b >= c /\ (IsAccess(v, c) => b = c)
<1>1. Same(v, b, c)
  BY SameTurns, SameJoins
<1>2. ~(b < c)
  BY <1>1 DEF Same
<1>3. IsAccess(v, c) => ~(c < b)
  BY <1>1 DEF Same
<1> QED
  BY <1>2, <1>3

\* At the end of a program nothing is left to access.
LEMMA NoneLeft ==
  ASSUME NEW v, NEW a \in Nat, Len(Prog(v)) \in Nat, Len(Prog(v)) <= a
  PROVE  ~IsAccess(v, a) /\ Same(v, Len(Prog(v)), a)
<1>1. \A q \in Nat : Len(Prog(v)) <= q => ~IsAccess(v, q)
  BY DEF IsAccess
<1> QED
  BY <1>1 DEF Same

\* The upmost thread of a run, when it is not a handler of Others.
Cur(m, stk) == IF stk = <<>> THEN [v |-> 0, q |-> m]
                             ELSE [v |-> Last(stk)[1], q |-> Last(stk)[2]]

LEMMA NoZero == 0 \notin Vectors /\ Lines \subseteq Vectors
BY VectorAssumption DEF Vectors

LEMMA LengthsAre ==
  \A v \in Lines \cup {0} : Len(Prog(v)) \in Nat
BY ProgramsAre, NoZero DEF Prog

LEMMA ViewsAre ==
  ASSUME NEW p \in Views
  PROVE  /\ p.d \in Nat /\ p.done \in Nat /\ Top(p) \in Threads
         /\ \A j \in Nat : /\ p.f[j] \in Threads /\ p.f[j].vec \in Lines \cup {0}
                           /\ p.f[j].at \in Nat /\ p.f[j].base \in Nat
         /\ Top(p).vec \in Lines \cup {0} /\ Top(p).at \in Nat /\ Top(p).base \in Nat
BY DEF Views, Threads, Top

\* The upmost thread is the upmost of the view.
LEMMA TopTracks ==
  ASSUME NEW p \in Views, NEW m \in Nat, NEW stk \in Seq(StackFrames),
         NEW r \in [Nat -> Nat], Tracks(p, m, stk, r), Cur(m, stk).v \in Lines \cup {0}
  PROVE  /\ Cur(m, stk).q \in Nat /\ Top(p).vec = Cur(m, stk).v
         /\ Same(Cur(m, stk).v, Top(p).at, Cur(m, stk).q)
         /\ (p.d = 0 <=> stk = <<>>)
<1>1. CASE stk = <<>>
  BY <1>1 DEF Tracks, Top, Cur
<1>2. CASE stk # <<>>
  <2> DEFINE n == Len(stk)
  <2>1. n \in Nat \ {0} /\ Last(stk) = stk[n] /\ Last(stk) \in StackFrames
    BY <1>2, StackTop
  <2>2. stk[n][1] \in Vectors /\ stk[n][2] \in Nat
    BY <2>1, ProgramsAre
  <2>3. Cur(m, stk).v = stk[n][1] /\ Cur(m, stk).q = stk[n][2]
    BY <1>2, <2>1 DEF Cur
  <2>4. stk[n][1] \in Lines
    <3>1. Cur(m, stk).v # 0
      BY <2>2, <2>3, NoZero
    <3> QED
      BY <2>3, <3>1
  <2>5. n \in 1 .. n /\ n - 1 \in Nat
    BY <2>1
  <2>6. \A i \in 1 .. n :
          /\ r[i] = IF stk[i][1] \in Lines THEN r[i - 1] + 1 ELSE r[i - 1]
          /\ stk[i][1] \in Lines => /\ p.f[r[i]].vec = stk[i][1]
                                    /\ Same(stk[i][1], p.f[r[i]].at, stk[i][2])
    BY DEF Tracks
  <2>7. r[n] = p.d
    BY DEF Tracks
  <2> HIDE DEF n
  <2>8. r[n] = r[n - 1] + 1 /\ r[n - 1] \in Nat
    BY <2>4, <2>5, <2>6
  <2>9. p.f[r[n]].vec = stk[n][1] /\ Same(stk[n][1], p.f[r[n]].at, stk[n][2])
    BY <2>4, <2>5, <2>6
  <2>10. Top(p).vec = Cur(m, stk).v /\ Same(Cur(m, stk).v, Top(p).at, Cur(m, stk).q)
    BY <2>3, <2>7, <2>9 DEF Top
  <2>11. p.d # 0
    <3>1. \A x \in Nat : x + 1 # 0
      OBVIOUS
    <3>2. r[n] # 0
      BY <2>8, <3>1
    <3> QED
      BY <2>7, <3>2
  <2> QED
    BY <1>2, <2>2, <2>3, <2>10, <2>11
<1> QED
  BY <1>1, <1>2
-----------------------------------------------------------------------------
(* TwintraceReplay: the steps of a run, and its view.                       *)

\* The upmost thread executes an instruction.
Advances(m, stk, m2, stk2) ==
  IF stk = <<>> THEN m2 = m + 1 /\ stk2 = stk
  ELSE m2 = m /\ stk2 = Append(Front(stk), <<Last(stk)[1], Last(stk)[2] + 1>>)

\* A stack of handlers.
LEMMA StackIs ==
  ASSUME NEW stk \in Seq(StackFrames)
  PROVE  /\ Len(stk) \in Nat /\ (stk = <<>> <=> Len(stk) = 0)
         /\ \A i \in 1 .. Len(stk) : /\ stk[i] \in StackFrames /\ stk[i][1] \in Vectors
                                     /\ stk[i][1] \in Nat /\ stk[i][2] \in Nat
         /\ stk # <<>> => /\ Last(stk) = stk[Len(stk)] /\ Len(stk) \in 1 .. Len(stk)
                          /\ Len(stk) - 1 \in 0 .. Len(stk)
<1>1. Len(stk) \in Nat /\ \A i \in 1 .. Len(stk) : stk[i] \in StackFrames
  OBVIOUS
<1>2. stk = <<>> <=> Len(stk) = 0
  OBVIOUS
<1>3. stk # <<>> => Last(stk) = stk[Len(stk)]
  BY StackTop
<1>4. \A i \in 1 .. Len(stk) : stk[i][1] \in Vectors /\ stk[i][1] \in Nat /\ stk[i][2] \in Nat
  BY <1>1, ProgramsAre, VectorAssumption
<1> QED
  BY <1>1, <1>2, <1>3, <1>4

LEMMA AdvanceFrames ==
  ASSUME NEW m \in Nat, NEW stk \in Seq(StackFrames), NEW m2, NEW stk2,
         Advances(m, stk, m2, stk2)
  PROVE  /\ Len(stk2) = Len(stk) /\ Len(stk) \in Nat /\ (stk2 = <<>> <=> stk = <<>>)
         /\ \A i \in 1 .. Len(stk) : stk2[i][1] = stk[i][1]
         /\ \A i \in 1 .. Len(stk) : i # Len(stk) => stk2[i] = stk[i]
         /\ stk # <<>> => /\ stk2[Len(stk)][2] = stk[Len(stk)][2] + 1
                          /\ stk[Len(stk)][1] = Last(stk)[1] /\ stk[Len(stk)][2] = Last(stk)[2]
<1>1. CASE stk = <<>>
  BY <1>1 DEF Advances
<1>2. CASE stk # <<>>
  <2> DEFINE x == <<Last(stk)[1], Last(stk)[2] + 1>>
             n == Len(stk)
             A == Nat \X Nat
  <2>1. n \in Nat \ {0} /\ Last(stk) = stk[n] /\ Last(stk)[1] \in Nat /\ Last(stk)[2] \in Nat
    BY <1>2, StackTop, ProgramsAre, VectorAssumption
  <2>2. stk \in Seq(A)
    <3>1. \A f \in StackFrames : f \in A
      BY VectorAssumption DEF StackFrames
    <3>2. \A i \in 1 .. Len(stk) : stk[i] \in A
      BY <3>1, StackIs
    <3> HIDE DEF A
    <3> QED
      BY <3>2
  <2>3. x \in A
    BY <2>1
  <2>4. stk2 = Append(Front(stk), x)
    BY <1>2 DEF Advances
  <2> HIDE DEF x, A
  <2>5. /\ Len(stk2) = n /\ stk2[n] = x
        /\ \A i \in 1 .. n - 1 : stk2[i] = stk[i]
    BY <1>2, <2>2, <2>3, <2>4, StackReplace
  <2>6. \A i \in 1 .. n : i # n => i \in 1 .. n - 1
    BY <2>1
  <2>7. x[1] = stk[n][1] /\ x[2] = stk[n][2] + 1
    BY <2>1 DEF x
  <2> HIDE DEF n
  <2>8. stk2 # <<>>
    BY <2>1, <2>5
  <2> QED
    BY <1>2, <2>1, <2>5, <2>6, <2>7, <2>8 DEF n
<1> QED
  BY <1>1, <1>2

\* What Tracks says of the number of handlers of Lines.
LEMMA Ranks ==
  ASSUME NEW p \in Views, NEW m \in Nat, NEW stk \in Seq(StackFrames),
         NEW r \in [Nat -> Nat], Tracks(p, m, stk, r)
  PROVE  /\ \A i \in 0 .. Len(stk) : r[i] \in Nat /\ r[i] <= p.d
         /\ stk # <<>> /\ Last(stk)[1] \in Lines =>
              \A i \in 0 .. Len(stk) : i # Len(stk) => r[i] + 1 <= p.d
         /\ stk # <<>> /\ Last(stk)[1] \notin Lines => r[Len(stk) - 1] = p.d
         /\ stk # <<>> /\ Last(stk)[1] \in Lines => r[Len(stk) - 1] + 1 = p.d
<1> DEFINE n == Len(stk)
<1>1. /\ n \in Nat /\ r[n] = p.d
      /\ \A i, j \in 0 .. n : i <= j => r[i] <= r[j]
      /\ \A i \in 1 .. n : r[i] = IF stk[i][1] \in Lines THEN r[i - 1] + 1 ELSE r[i - 1]
  BY DEF Tracks
<1>2. stk # <<>> => n \in 1 .. n /\ n - 1 \in 0 .. n /\ Last(stk) = stk[n]
  BY StackIs
<1> HIDE DEF n
<1>3. \A i \in 0 .. n : r[i] \in Nat /\ r[i] <= p.d
  <2>1. n \in 0 .. n /\ \A i \in 0 .. n : i <= n /\ i \in Nat
    BY <1>1
  <2> QED
    BY <1>1, <2>1
<1>4. ASSUME stk # <<>>
      PROVE  IF Last(stk)[1] \in Lines THEN r[n - 1] + 1 = p.d ELSE r[n - 1] = p.d
  BY <1>1, <1>2, <1>4
<1>5. ASSUME stk # <<>>, Last(stk)[1] \in Lines, NEW i \in 0 .. n, i # n
      PROVE  r[i] + 1 <= p.d
  <2>1. i <= n - 1 /\ n - 1 \in 0 .. n
    BY <1>1, <1>2, <1>5
  <2>2. r[i] <= r[n - 1] /\ r[n - 1] + 1 = p.d /\ r[i] \in Nat /\ r[n - 1] \in Nat
    BY <1>1, <1>3, <1>4, <1>5, <2>1
  <2>3. r[i] + 1 <= r[n - 1] + 1
    <3>1. \A x, y \in Nat : x <= y => x + 1 <= y + 1
      OBVIOUS
    <3> QED
      BY <2>2, <3>1
  <2> QED
    BY <2>2, <2>3
<1> QED
  BY <1>3, <1>4, <1>5 DEF n

LEMMA TracksAdvance ==
  ASSUME NEW p \in Views, NEW t \in Views, NEW m \in Nat, NEW stk \in Seq(StackFrames),
         NEW r \in [Nat -> Nat], NEW m2, NEW stk2,
         Tracks(p, m, stk, r), Advances(m, stk, m2, stk2),
         t.d = p.d, \A j \in Nat : t.f[j].vec = p.f[j].vec,
         \A j \in Nat : j # p.d \/ Cur(m, stk).v \notin Lines \cup {0} => t.f[j].at = p.f[j].at,
         Cur(m, stk).v \in Lines \cup {0} =>
           Same(Cur(m, stk).v, t.f[p.d].at, Cur(m, stk).q + 1)
  PROVE  Tracks(t, m2, stk2, r)
<1> DEFINE n == Len(stk)
           v == Cur(m, stk).v
           q == Cur(m, stk).q
<1>1. /\ n \in Nat /\ Len(stk2) = n /\ (stk2 = <<>> <=> stk = <<>>)
      /\ \A i \in 1 .. n : stk2[i][1] = stk[i][1]
      /\ \A i \in 1 .. n : i # n => stk2[i] = stk[i]
  <2>1. m \in Nat /\ stk \in Seq(StackFrames) /\ Advances(m, stk, m2, stk2)
    OBVIOUS
  <2>2. Len(stk2) = Len(stk) /\ Len(stk) \in Nat
    BY ONLY <2>1, AdvanceFrames
  <2>3. stk2 = <<>> <=> stk = <<>>
    BY ONLY <2>1, AdvanceFrames
  <2>4. \A i \in 1 .. Len(stk) : stk2[i][1] = stk[i][1]
    BY ONLY <2>1, AdvanceFrames
  <2>5. \A i \in 1 .. Len(stk) : i # Len(stk) => stk2[i] = stk[i]
    BY ONLY <2>1, AdvanceFrames
  <2> QED
    BY <2>2, <2>3, <2>4, <2>5
<1>2. stk # <<>> => /\ stk[n][1] = v /\ stk2[n][2] = q + 1 /\ v \in Vectors /\ m2 = m
                    /\ v # 0
  <2>1. stk # <<>> => v = Last(stk)[1] /\ q = Last(stk)[2]
    BY DEF Cur
  <2>2. stk # <<>> => Last(stk)[1] \in Vectors
    BY StackTop, ProgramsAre
  <2> QED
    <3>3. stk # <<>> => stk2[n][2] = stk[n][2] + 1 /\ stk[n][1] = Last(stk)[1]
                        /\ stk[n][2] = Last(stk)[2]
      BY AdvanceFrames
    <3> HIDE DEF n, v, q
    <3>1. stk # <<>> => stk[n][1] = v /\ stk2[n][2] = q + 1
      BY <2>1, <3>3
    <3>2. stk # <<>> => m2 = m
      BY DEF Advances
    <3> QED
      BY <2>1, <2>2, <3>1, <3>2, NoZero
<1>3. stk = <<>> => n = 0 /\ v = 0 /\ q = m /\ m2 = m + 1
  BY DEF Cur, Advances
<1>4. p.d \in Nat /\ r[n] = p.d /\ r[0] = 0
  BY ViewsAre DEF Tracks
<1>5. /\ \A i \in 1 .. n :
           /\ r[i] = IF stk[i][1] \in Lines THEN r[i - 1] + 1 ELSE r[i - 1]
           /\ stk[i][1] \in Lines => /\ p.f[r[i]].vec = stk[i][1]
                                     /\ Same(stk[i][1], p.f[r[i]].at, stk[i][2])
      /\ \A i, j \in 0 .. n : i <= j => r[i] <= r[j]
      /\ p.f[0].vec = 0 /\ Same(0, p.f[0].at, m)
  BY DEF Tracks
<1>6. Same(0, t.f[0].at, m2)
  <2>1. CASE stk = <<>>
    BY <1>3, <1>4, <2>1
  <2>2. CASE stk # <<>>
    <3>1. v \in Lines => p.d # 0
      BY <2>2, TopTracks
    <3>2. t.f[0].at = p.f[0].at
      BY <1>2, <2>2, <3>1
    <3> QED
      BY <1>2, <1>5, <2>2, <3>2
  <2> QED
    BY <2>1, <2>2
<1>7. ASSUME NEW i \in 1 .. n, stk[i][1] \in Lines
      PROVE  t.f[r[i]].vec = stk2[i][1] /\ Same(stk2[i][1], t.f[r[i]].at, stk2[i][2])
  <2>0. stk # <<>> /\ r[i] \in Nat
    BY <1>1, <1>7
  <2>1. t.f[r[i]].vec = stk2[i][1]
    BY <1>1, <1>5, <1>7, <2>0
  <2>2. CASE i = n
    BY <1>1, <1>2, <1>4, <1>7, <2>0, <2>1, <2>2
  <2>3. CASE i # n
    <3>1. v \in Lines => r[i] # p.d
      <4>1. Last(stk)[1] = v
        BY <2>0 DEF Cur
      <4>2. v \in Lines => r[i] + 1 <= p.d
        <5>1. i \in 0 .. n
          BY <1>1
        <5> QED
          BY <2>0, <2>3, <4>1, <5>1, Ranks
      <4> QED
        BY <1>4, <2>0, <4>2
    <3>2. t.f[r[i]].at = p.f[r[i]].at
      BY <1>2, <2>0, <3>1
    <3> QED
      BY <1>1, <1>5, <1>7, <2>1, <2>3, <3>2
  <2> QED
    BY <2>2, <2>3
<1> HIDE DEF n, v, q
<1>8. /\ Len(stk2) = n /\ r[n] = t.d /\ t.f[0].vec = 0
      /\ \A i, j \in 0 .. n : i <= j => r[i] <= r[j]
  BY <1>1, <1>4, <1>5
<1>9. \A i \in 1 .. n :
        /\ r[i] = IF stk2[i][1] \in Lines THEN r[i - 1] + 1 ELSE r[i - 1]
        /\ stk2[i][1] = stk[i][1]
  BY <1>1, <1>5
<1>10. \A i \in 1 .. n : stk2[i][1] \in Lines =>
          t.f[r[i]].vec = stk2[i][1] /\ Same(stk2[i][1], t.f[r[i]].at, stk2[i][2])
  BY <1>7, <1>9
<1> QED
  BY ONLY <1>4, <1>6, <1>8, <1>9, <1>10 DEF Tracks

\* No handler has begun or ended.
SameBases(p, t) == t.done = p.done /\ \A j \in Nat : t.f[j].base = p.f[j].base

LEMMA CountsAdvance ==
  ASSUME NEW p \in Views, NEW t \in Views, NEW m \in Nat, NEW stk \in Seq(StackFrames),
         NEW r \in [Nat -> Nat], NEW b \in [Nat -> Nat], NEW m2, NEW stk2,
         NEW ic \in Nat, NEW run,
         Advances(m, stk, m2, stk2), Counts(p, m, stk, r, b, ic, run),
         SameBases(p, t)
  PROVE  \E c \in [Nat -> Nat] : Counts(t, m2, stk2, r, c, ic + 1, run)
<1> DEFINE n == Len(stk)
           c == [b EXCEPT ![n] = b[n] + 1]
<1> HIDE DEF c
<1>1. /\ n \in Nat /\ Len(stk2) = n /\ (stk = <<>> <=> n = 0)
      /\ \A i \in 1 .. n : stk2[i][1] = stk[i][1]
      /\ \A i \in 1 .. n : i # n => stk2[i] = stk[i]
  <2>1. n \in Nat /\ (stk = <<>> <=> n = 0)
    BY StackIs
  <2>2. /\ Len(stk2) = n
        /\ \A i \in 1 .. n : stk2[i][1] = stk[i][1]
        /\ \A i \in 1 .. n : i # n => stk2[i] = stk[i]
    <3>1. m \in Nat /\ stk \in Seq(StackFrames) /\ Advances(m, stk, m2, stk2)
      OBVIOUS
    <3>2. Len(stk2) = Len(stk)
      BY ONLY <3>1, AdvanceFrames
    <3>3. \A i \in 1 .. Len(stk) : stk2[i][1] = stk[i][1]
      BY ONLY <3>1, AdvanceFrames
    <3>4. \A i \in 1 .. Len(stk) : i # Len(stk) => stk2[i] = stk[i]
      BY ONLY <3>1, AdvanceFrames
    <3> QED
      BY <3>2, <3>3, <3>4
  <2> QED
    BY <2>1, <2>2
<1> USE DEF c
<1>2. stk # <<>> => stk2[n][2] = stk[n][2] + 1 /\ m2 = m /\ stk[n][2] \in Nat
  <2>1. stk # <<>> => stk2[n][2] = stk[n][2] + 1
    BY AdvanceFrames
  <2>2. stk # <<>> => m2 = m
    BY DEF Advances
  <2>3. stk # <<>> => stk[n][2] \in Nat
    BY StackIs
  <2> QED
    BY <2>1, <2>2, <2>3
<1>3. stk = <<>> => m2 = m + 1
  BY DEF Advances
<1>4. p.done \in Nat
  BY ViewsAre
<1>0. t.done = p.done /\ \A j \in Nat : t.f[j].base = p.f[j].base
  BY DEF SameBases
<1>5. /\ b[0] = m /\ p.f[0].base = 0 /\ ic = p.done + b[n]
      /\ \A i \in 1 .. n :
           /\ stk[i][1] \in Lines /\ b[i] = b[i - 1] + stk[i][2]
           /\ p.f[r[i]].base <= b[i - 1] /\ (run = "record" => p.f[r[i]].base = b[i - 1])
  BY DEF Counts
<1> HIDE DEF n
<1>6. c \in [Nat -> Nat] /\ c[n] = b[n] + 1 /\ \A i \in Nat : i # n => c[i] = b[i]
  <2>1. b[n] + 1 \in Nat
    <3>1. \A x \in Nat : x + 1 \in Nat
      OBVIOUS
    <3>2. b[n] \in Nat
      BY <1>1
    <3> QED
      BY <3>1, <3>2
  <2> QED
    BY <1>1, <2>1
<1> HIDE DEF c
<1>7. c[0] = m2
  BY <1>1, <1>2, <1>3, <1>5, <1>6
<1>8. ic + 1 = t.done + c[n]
  <2> DEFINE x == b[n]
  <2>1. x \in Nat
    BY <1>1
  <2>2. ic = p.done + x /\ c[n] = x + 1
    BY <1>5, <1>6
  <2> HIDE DEF x
  <2> DEFINE y == p.done
  <2>3. y \in Nat /\ ic = y + x
    BY <1>4, <2>2
  <2> HIDE DEF y
  <2>4. ic + 1 = y + (x + 1)
    BY <2>1, <2>3
  <2> QED
    BY <1>0, <2>2, <2>4 DEF y
<1>9. ASSUME NEW i \in 1 .. n
      PROVE  /\ stk2[i][1] \in Lines /\ c[i] = c[i - 1] + stk2[i][2]
             /\ t.f[r[i]].base <= c[i - 1] /\ (run = "record" => t.f[r[i]].base = c[i - 1])
  <2>1. i - 1 \in Nat /\ i - 1 # n /\ r[i] \in Nat /\ i \in Nat
    <3>1. i \in Nat /\ i - 1 \in Nat /\ i - 1 # n
      BY <1>1
    <3> QED
      BY <3>1
  <2>2. c[i - 1] = b[i - 1] /\ b[i - 1] \in Nat
    BY <1>6, <2>1
  <2>3. t.f[r[i]].base = p.f[r[i]].base
    BY <1>0, <2>1
  <2>4. c[i] = c[i - 1] + stk2[i][2]
    <3>1. CASE i = n
      <4>1. stk2[n][2] = stk[n][2] + 1 /\ stk[n][2] \in Nat
        BY <1>1, <1>2, <3>1
      <4>2. b[n] = b[n - 1] + stk[n][2]
        BY <1>5, <3>1
      <4> DEFINE x == b[n - 1]
                 y == stk[n][2]
      <4>3. x \in Nat /\ c[n - 1] = x /\ c[n] = b[n] + 1 /\ b[n] = x + y /\ y \in Nat
            /\ stk2[n][2] = y + 1
        BY <1>6, <2>2, <3>1, <4>1, <4>2
      <4> HIDE DEF x, y
      <4>4. (x + y) + 1 = x + (y + 1)
        BY <4>3
      <4>5. c[n] = c[n - 1] + stk2[n][2]
        BY <4>3, <4>4
      <4> QED
        BY <3>1, <4>5
    <3>2. CASE i # n
      BY <1>1, <1>5, <1>6, <2>1, <2>2, <3>2
    <3> QED
      BY <3>1, <3>2
  <2>5. p.f[r[i]].base <= b[i - 1] /\ (run = "record" => p.f[r[i]].base = b[i - 1])
    BY <1>5
  <2>6. stk2[i][1] \in Lines
    BY <1>1, <1>5
  <2> QED
    BY <2>2, <2>3, <2>4, <2>5, <2>6
<1>10. t.f[0].base = 0
  BY <1>0, <1>5
<1>11. Counts(t, m2, stk2, r, c, ic + 1, run)
  BY <1>1, <1>7, <1>8, <1>9, <1>10 DEF Counts, n
<1> QED
  BY <1>6, <1>11
-----------------------------------------------------------------------------
(* TwintraceReplay: a handler begins and ends.                              *)

\* Numbers and functions on them.
LEMMA Bounds ==
  ASSUME NEW n \in Nat
  PROVE  /\ 0 \in 0 .. n /\ n \in 0 .. n /\ n \in Nat /\ n <= n + 1 /\ n <= n /\ n + 1 \in Nat
         /\ n + 1 \in 1 .. n + 1 /\ (n + 1) - 1 = n
         /\ \A i \in 0 .. n : i \in Nat /\ i <= n
         /\ \A i \in Nat : i <= n => i \in 0 .. n
         /\ \A i \in 1 .. n + 1 : i # n + 1 => i \in 1 .. n /\ i \in 0 .. n /\ i - 1 \in 0 .. n
         /\ \A i \in 0 .. n + 1 : i # n + 1 => i \in 0 .. n
         /\ \A i \in 0 .. n : i # n + 1
OBVIOUS

LEMMA Extended ==
  ASSUME NEW r \in [Nat -> Nat], NEW n \in Nat, NEW x \in Nat
  PROVE  /\ [r EXCEPT ![n + 1] = x] \in [Nat -> Nat]
         /\ [r EXCEPT ![n + 1] = x][n + 1] = x
         /\ \A i \in 0 .. n : [r EXCEPT ![n + 1] = x][i] = r[i]
OBVIOUS

LEMMA PushFrames ==
  ASSUME NEW stk \in Seq(StackFrames), NEW v \in Vectors
  PROVE  /\ <<v, 0>> \in StackFrames /\ Append(stk, <<v, 0>>) \in Seq(StackFrames)
         /\ Len(Append(stk, <<v, 0>>)) = Len(stk) + 1 /\ Len(stk) \in Nat
         /\ Append(stk, <<v, 0>>)[Len(stk) + 1] = <<v, 0>>
         /\ \A i \in 1 .. Len(stk) : Append(stk, <<v, 0>>)[i] = stk[i]
<1>1. <<v, 0>> \in StackFrames
  BY ProgramsAre DEF StackFrames
<1> QED
  BY <1>1, StackPush

\* t has the handlers of p.
SameFrames(p, t) == \A j \in 0 .. p.d : t.f[j] = p.f[j]

\* A handler of v begins in t, above the handlers of p.
Begins(p, t, v) ==
  /\ SameFrames(p, t)
  /\ IF v \in Lines THEN t.d = p.d + 1 /\ t.f[p.d + 1].vec = v /\ t.f[p.d + 1].at = 0
                    ELSE t.d = p.d

LEMMA TracksPush ==
  ASSUME NEW p \in Views, NEW t \in Views, NEW m \in Nat, NEW stk \in Seq(StackFrames),
         NEW r \in [Nat -> Nat], NEW v \in Vectors,
         Tracks(p, m, stk, r), Begins(p, t, v)
  PROVE  /\ [r EXCEPT ![Len(stk) + 1] = t.d] \in [Nat -> Nat]
         /\ Tracks(t, m, Append(stk, <<v, 0>>), [r EXCEPT ![Len(stk) + 1] = t.d])
<1> DEFINE n == Len(stk)
           new == Append(stk, <<v, 0>>)
           e == t.d
           s == [r EXCEPT ![n + 1] = e]
<1>1. /\ Len(new) = n + 1 /\ n \in Nat /\ new[n + 1] = <<v, 0>>
      /\ \A i \in 1 .. n : new[i] = stk[i]
  BY PushFrames
<1>2. p.d \in Nat /\ t.d \in Nat
  BY ViewsAre
<1>11. n \in Nat
  BY <1>1
<1>3. s \in [Nat -> Nat] /\ s[n + 1] = e /\ \A i \in 0 .. n : s[i] = r[i]
  <2>1. e \in Nat
    BY <1>2
  <2> HIDE DEF n, e
  <2> QED
    <3>1. r \in [Nat -> Nat]
      OBVIOUS
    <3>2. s \in [Nat -> Nat]
      BY ONLY <1>11, <2>1, <3>1, Extended
    <3>3. s[n + 1] = e
      BY ONLY <1>11, <2>1, <3>1, Extended
    <3>4. \A i \in 0 .. n : s[i] = r[i]
      BY ONLY <1>11, <2>1, <3>1, Extended
    <3> QED
      BY <3>2, <3>3, <3>4
<1>4. /\ r[0] = 0 /\ r[n] = p.d
      /\ p.f[0].vec = 0 /\ Same(0, p.f[0].at, m)
      /\ \A i \in 1 .. n :
           /\ r[i] = IF stk[i][1] \in Lines THEN r[i - 1] + 1 ELSE r[i - 1]
           /\ stk[i][1] \in Lines => /\ p.f[r[i]].vec = stk[i][1]
                                     /\ Same(stk[i][1], p.f[r[i]].at, stk[i][2])
      /\ \A i, j \in 0 .. n : i <= j => r[i] <= r[j]
  BY DEF Tracks
<1>5. \A i \in 0 .. n : r[i] \in 0 .. p.d /\ r[i] \in Nat /\ r[i] <= p.d
  <2>1. \A i \in 0 .. n : r[i] \in Nat /\ r[i] <= p.d
    BY Ranks
  <2> QED
    BY <1>2, <2>1, Bounds
<1>6. \A i \in 0 .. n : t.f[r[i]] = p.f[r[i]]
  BY <1>5 DEF Begins, SameFrames
<1> HIDE DEF n, new, s
<1>7. s[0] = 0 /\ s[Len(new)] = t.d /\ t.f[0].vec = 0 /\ Same(0, t.f[0].at, m)
  <2>1. 0 \in 0 .. n
    BY <1>1
  <2>2. s[0] = 0 /\ t.f[0] = p.f[0]
    BY <1>3, <1>4, <1>6, <2>1
  <2> QED
    BY <1>1, <1>3, <1>4, <2>2
<1>8. ASSUME NEW i \in 1 .. n + 1
      PROVE  /\ s[i] = IF new[i][1] \in Lines THEN s[i - 1] + 1 ELSE s[i - 1]
             /\ new[i][1] \in Lines => /\ t.f[s[i]].vec = new[i][1]
                                       /\ Same(new[i][1], t.f[s[i]].at, new[i][2])
  <2>1. CASE i = n + 1
    <3>1. i - 1 = n /\ n \in 0 .. n
      BY <1>11, <2>1, Bounds
    <3>2. s[i - 1] = p.d /\ s[i] = t.d /\ new[i][1] = v /\ new[i][2] = 0
      <4>1. new[i] = <<v, 0>>
        BY <1>1, <2>1
      <4>2. s[i - 1] = p.d
        BY <1>3, <1>4, <3>1
      <4>3. s[i] = e
        BY <1>3, <2>1
      <4> QED
        BY <4>1, <4>2, <4>3
    <3>3. Same(v, 0, 0)
      BY SameHere
    <3>4. v \in Lines => t.d = p.d + 1 /\ t.f[t.d].vec = v /\ t.f[t.d].at = 0
      BY DEF Begins
    <3>5. v \notin Lines => t.d = p.d
      BY DEF Begins
    <3>6. s[i] = IF new[i][1] \in Lines THEN s[i - 1] + 1 ELSE s[i - 1]
      BY ONLY <3>2, <3>4, <3>5
    <3>7. new[i][1] \in Lines => /\ t.f[s[i]].vec = new[i][1]
                                  /\ Same(new[i][1], t.f[s[i]].at, new[i][2])
      BY ONLY <3>2, <3>3, <3>4
    <3> QED
      BY <3>6, <3>7
  <2>2. CASE i # n + 1
    <3>1. i \in 1 .. n /\ i \in 0 .. n /\ i - 1 \in 0 .. n
      BY <1>11, <2>2, Bounds
    <3>2. s[i] = r[i] /\ s[i - 1] = r[i - 1] /\ new[i] = stk[i] /\ t.f[r[i]] = p.f[r[i]]
      BY <1>1, <1>3, <1>6, <3>1
    <3> QED
      BY <1>4, <3>1, <3>2
  <2> QED
    BY <2>1, <2>2
<1>9. ASSUME NEW i \in 0 .. n + 1, NEW j \in 0 .. n + 1, i <= j
      PROVE  s[i] <= s[j]
  <2>1. p.d <= t.d
    <3>1. p.d <= p.d + 1 /\ p.d <= p.d
      BY <1>2, Bounds
    <3> QED
      BY <3>1 DEF Begins
  <2>2. CASE j # n + 1
    <3>1. j \in 0 .. n
      BY <1>11, <2>2, Bounds
    <3>3. \A k \in Nat : \A x \in 0 .. k + 1 : \A y \in 0 .. k : x <= y => x \in 0 .. k
      OBVIOUS
    <3>2. i \in 0 .. n
      BY <1>9, <1>11, <3>1, <3>3
    <3> QED
      BY <1>3, <1>4, <1>9, <3>1, <3>2
  <2>3. CASE j = n + 1 /\ i # n + 1
    <3>1. i \in 0 .. n
      BY <1>11, <2>3, Bounds
    <3>2. s[i] <= p.d /\ s[i] \in Nat
      BY <1>3, <1>5, <3>1
    <3>3. \A x, y, z \in Nat : x <= y /\ y <= z => x <= z
      OBVIOUS
    <3>4. s[i] <= t.d
      BY <1>2, <2>1, <3>2, <3>3
    <3> QED
      BY <1>3, <2>3, <3>4
  <2>4. CASE j = n + 1 /\ i = n + 1
    <3>1. t.d <= t.d
      BY <1>2, Bounds
    <3> QED
      BY <1>3, <2>4, <3>1
  <2> QED
    BY <2>2, <2>3, <2>4
<1>10. Tracks(t, m, new, s)
  BY <1>1, <1>7, <1>8, <1>9 DEF Tracks
<1> QED
  BY <1>3, <1>10 DEF n, new, s

LEMMA CountsPush ==
  ASSUME NEW p \in Views, NEW t \in Views, NEW m \in Nat, NEW stk \in Seq(StackFrames),
         NEW r \in [Nat -> Nat], NEW b \in [Nat -> Nat], NEW v \in Lines,
         NEW ic \in Nat, NEW run,
         Tracks(p, m, stk, r), Begins(p, t, v), Counts(p, m, stk, r, b, ic, run),
         t.done = p.done, t.f[p.d + 1].base <= b[Len(stk)],
         run = "record" => t.f[p.d + 1].base = b[Len(stk)]
  PROVE  \E c \in [Nat -> Nat] : Counts(t, m, Append(stk, <<v, 0>>),
                                        [r EXCEPT ![Len(stk) + 1] = t.d], c, ic, run)
<1> DEFINE n == Len(stk)
           new == Append(stk, <<v, 0>>)
           e == t.d
           top == b[n]
           s == [r EXCEPT ![n + 1] = e]
           c == [b EXCEPT ![n + 1] = top]
<1>0. v \in Vectors
  BY NoZero
<1>1. /\ Len(new) = n + 1 /\ n \in Nat /\ new[n + 1] = <<v, 0>>
      /\ \A i \in 1 .. n : new[i] = stk[i]
  BY <1>0, PushFrames
<1>2. p.d \in Nat /\ t.d \in Nat
  BY ViewsAre
<1>13. n \in Nat
  BY <1>1
<1>3. s[n + 1] = e /\ \A i \in 0 .. n : s[i] = r[i]
  <2>1. e \in Nat
    BY <1>2
  <2> HIDE DEF n, e
  <2> QED
    <3>1. r \in [Nat -> Nat]
      OBVIOUS
    <3>2. s[n + 1] = e
      BY ONLY <1>13, <2>1, <3>1, Extended
    <3>3. \A i \in 0 .. n : s[i] = r[i]
      BY ONLY <1>13, <2>1, <3>1, Extended
    <3> QED
      BY <3>2, <3>3
<1>4. c \in [Nat -> Nat] /\ c[n + 1] = b[n] /\ \A i \in 0 .. n : c[i] = b[i]
  <2>1. top \in Nat
    BY <1>13
  <2> HIDE DEF n, top
  <2>2. c \in [Nat -> Nat] /\ c[n + 1] = top /\ \A i \in 0 .. n : c[i] = b[i]
    <3>1. b \in [Nat -> Nat]
      OBVIOUS
    <3>2. c \in [Nat -> Nat]
      BY ONLY <1>13, <2>1, <3>1, Extended
    <3>3. c[n + 1] = top
      BY ONLY <1>13, <2>1, <3>1, Extended
    <3>4. \A i \in 0 .. n : c[i] = b[i]
      BY ONLY <1>13, <2>1, <3>1, Extended
    <3> QED
      BY <3>2, <3>3, <3>4
  <2> QED
    BY <2>2 DEF top
<1>5. /\ b[0] = m /\ p.f[0].base = 0 /\ ic = p.done + b[n]
      /\ \A i \in 1 .. n :
           /\ stk[i][1] \in Lines /\ b[i] = b[i - 1] + stk[i][2]
           /\ p.f[r[i]].base <= b[i - 1] /\ (run = "record" => p.f[r[i]].base = b[i - 1])
  BY DEF Counts
<1>6. \A i \in 0 .. n : t.f[r[i]] = p.f[r[i]]
  <2>1. \A i \in 0 .. n : r[i] \in Nat /\ r[i] <= p.d
    BY Ranks
  <2>2. \A i \in 0 .. n : r[i] \in 0 .. p.d
    BY <1>2, <2>1, Bounds
  <2> QED
    BY <2>2 DEF Begins, SameFrames
<1>7. t.f[0] = p.f[0]
  <2>1. 0 \in 0 .. p.d
    BY <1>2, Bounds
  <2> QED
    BY <2>1 DEF Begins, SameFrames
<1>8. t.d = p.d + 1
  BY DEF Begins
<1>12. t.f[t.d].base <= b[n] /\ (run = "record" => t.f[t.d].base = b[n])
  BY <1>8
<1> HIDE DEF n, new, s, c
<1>9. ASSUME NEW i \in 1 .. n + 1
      PROVE  /\ new[i][1] \in Lines /\ c[i] = c[i - 1] + new[i][2]
             /\ t.f[s[i]].base <= c[i - 1]
             /\ (run = "record" => t.f[s[i]].base = c[i - 1])
  <2>1. CASE i = n + 1
    <3>1. i - 1 = n /\ n \in 0 .. n /\ n \in Nat
      BY <1>13, <2>1, Bounds
    <3>2. c[i - 1] = b[n] /\ c[i] = b[n] /\ new[i][1] = v /\ new[i][2] = 0 /\ s[i] = t.d
      <4>1. new[i] = <<v, 0>>
        BY <1>1, <2>1
      <4>2. s[i] = e
        BY <1>3, <2>1
      <4>3. c[i] = b[n] /\ c[i - 1] = b[n]
        BY <1>4, <2>1, <3>1
      <4> QED
        BY <4>1, <4>2, <4>3
    <3>3. b[n] = b[n] + 0
      <4>1. \A x \in Nat : x = x + 0
        OBVIOUS
      <4>2. b[n] \in Nat
        BY <3>1
      <4> QED
        BY <4>1, <4>2
    <3> QED
      BY <1>12, <3>2, <3>3
  <2>2. CASE i # n + 1
    <3>1. i \in 1 .. n /\ i \in 0 .. n /\ i - 1 \in 0 .. n
      BY <1>13, <2>2, Bounds
    <3>2. /\ s[i] = r[i] /\ new[i] = stk[i] /\ t.f[r[i]] = p.f[r[i]]
          /\ c[i] = b[i] /\ c[i - 1] = b[i - 1]
      BY <1>1, <1>3, <1>4, <1>6, <3>1
    <3> QED
      BY <1>5, <3>1, <3>2
  <2> QED
    BY <2>1, <2>2
<1>10. c[0] = m /\ t.f[0].base = 0 /\ ic = t.done + c[n + 1]
  <2>1. 0 \in 0 .. n
    BY <1>13, Bounds
  <2> QED
    BY <1>4, <1>5, <1>7, <2>1
<1>11. Counts(t, m, new, s, c, ic, run)
  BY <1>1, <1>9, <1>10 DEF Counts
<1> QED
  BY <1>4, <1>11 DEF n, new, s

\* The upmost handler ends, in a view t.
LEMMA PopFrames ==
  ASSUME NEW stk \in Seq(StackFrames), stk # <<>>
  PROVE  /\ Front(stk) \in Seq(StackFrames) /\ Len(Front(stk)) \in Nat
         /\ Len(stk) = Len(Front(stk)) + 1 /\ Len(stk) \in Nat
         /\ Len(Front(stk)) = Len(stk) - 1
         /\ \A i \in 1 .. Len(Front(stk)) : Front(stk)[i] = stk[i]
         /\ Last(stk) = stk[Len(stk)]
<1> DEFINE n == Len(stk)
           k == Len(Front(stk))
<1>1. /\ n \in Nat \ {0} /\ k = n - 1 /\ Front(stk) \in Seq(StackFrames)
      /\ \A i \in 1 .. n - 1 : Front(stk)[i] = stk[i]
      /\ Last(stk) = stk[n]
  BY StackTop
<1> HIDE DEF n, k
<1>2. k \in Nat /\ n = k + 1 /\ \A i \in 1 .. k : Front(stk)[i] = stk[i]
  BY <1>1
<1> QED
  BY <1>1, <1>2 DEF n, k

Ends(p, t, v) == t.f = p.f /\ (IF v \in Lines THEN p.d = t.d + 1 ELSE p.d = t.d)

LEMMA TracksPop ==
  ASSUME NEW p \in Views, NEW t \in Views, NEW m \in Nat, NEW stk \in Seq(StackFrames),
         stk # <<>>, NEW r \in [Nat -> Nat],
         Tracks(p, m, stk, r), Ends(p, t, Last(stk)[1])
  PROVE  Tracks(t, m, Front(stk), r)
<1> DEFINE k == Len(Front(stk))
           old == Front(stk)
<1>1. /\ k \in Nat /\ Len(stk) = k + 1 /\ Len(stk) - 1 = k
      /\ \A i \in 1 .. k : old[i] = stk[i]
  BY PopFrames
<1>2. /\ r[0] = 0
      /\ p.f[0].vec = 0 /\ Same(0, p.f[0].at, m)
      /\ \A i \in 1 .. k + 1 :
           /\ r[i] = IF stk[i][1] \in Lines THEN r[i - 1] + 1 ELSE r[i - 1]
           /\ stk[i][1] \in Lines => /\ p.f[r[i]].vec = stk[i][1]
                                     /\ Same(stk[i][1], p.f[r[i]].at, stk[i][2])
      /\ \A i, j \in 0 .. k + 1 : i <= j => r[i] <= r[j]
  BY <1>1 DEF Tracks
<1>3. r[k] = t.d
  <2>1. IF Last(stk)[1] \in Lines THEN r[k] + 1 = p.d ELSE r[k] = p.d
    <3>1. IF Last(stk)[1] \in Lines THEN r[Len(stk) - 1] + 1 = p.d
                                    ELSE r[Len(stk) - 1] = p.d
      BY Ranks
    <3> QED
      BY <1>1, <3>1
  <2>2. IF Last(stk)[1] \in Lines THEN p.d = t.d + 1 ELSE p.d = t.d
    BY DEF Ends
  <2>3. r[k] \in Nat /\ t.d \in Nat
    BY <1>1, ViewsAre
  <2>4. \A x, y \in Nat : x + 1 = y + 1 => x = y
    OBVIOUS
  <2>5. CASE Last(stk)[1] \in Lines
    BY <2>1, <2>2, <2>3, <2>4, <2>5
  <2>6. CASE Last(stk)[1] \notin Lines
    BY <2>1, <2>2, <2>6
  <2> QED
    BY <2>5, <2>6
<1>4. t.f = p.f
  BY DEF Ends
<1> HIDE DEF k, old
<1>5. 1 .. k \subseteq 1 .. k + 1 /\ 0 .. k \subseteq 0 .. k + 1
  <2>1. k \in Nat
    BY <1>1
  <2> QED
    BY ONLY <2>1
<1>6. /\ \A i \in 1 .. k :
           /\ r[i] = IF old[i][1] \in Lines THEN r[i - 1] + 1 ELSE r[i - 1]
           /\ old[i][1] \in Lines => /\ t.f[r[i]].vec = old[i][1]
                                     /\ Same(old[i][1], t.f[r[i]].at, old[i][2])
      /\ \A i, j \in 0 .. k : i <= j => r[i] <= r[j]
  BY <1>1, <1>2, <1>4, <1>5
<1>7. Len(old) = k
  BY DEF k, old
<1>8. Tracks(t, m, old, r)
  BY <1>2, <1>3, <1>4, <1>6, <1>7 DEF Tracks
<1> QED
  BY <1>8 DEF old

LEMMA CountsPop ==
  ASSUME NEW p \in Views, NEW t \in Views, NEW m \in Nat, NEW stk \in Seq(StackFrames),
         stk # <<>>, NEW r \in [Nat -> Nat], NEW b \in [Nat -> Nat],
         NEW ic \in Nat, NEW run,
         Counts(p, m, stk, r, b, ic, run),
         t.f = p.f, t.done = p.done + Last(stk)[2]
  PROVE  Counts(t, m, Front(stk), r, b, ic, run)
<1> DEFINE k == Len(Front(stk))
           old == Front(stk)
<1>1. /\ k \in Nat /\ Len(stk) = k + 1 /\ Last(stk) = stk[k + 1]
      /\ \A i \in 1 .. k : old[i] = stk[i]
  BY PopFrames
<1>2. /\ b[0] = m /\ p.f[0].base = 0 /\ ic = p.done + b[k + 1]
      /\ \A i \in 1 .. k + 1 :
           /\ stk[i][1] \in Lines /\ b[i] = b[i - 1] + stk[i][2]
           /\ p.f[r[i]].base <= b[i - 1] /\ (run = "record" => p.f[r[i]].base = b[i - 1])
  BY <1>1 DEF Counts
<1>3. stk[k + 1][2] \in Nat
  <2>1. Len(stk) \in 1 .. Len(stk)
    BY StackIs
  <2>2. stk[Len(stk)][2] \in Nat
    BY <2>1, StackIs
  <2> QED
    BY <1>1, <2>2
<1>8. p.done \in Nat
  BY ViewsAre
<1> HIDE DEF k, old
<1>4. ic = t.done + b[k]
  <2>1. k + 1 \in 1 .. k + 1 /\ (k + 1) - 1 = k
    BY <1>1
  <2>2. b[k + 1] = b[k] + stk[k + 1][2]
    BY <1>2, <2>1
  <2> DEFINE x == b[k]
             y == stk[k + 1][2]
             z == p.done
  <2>3. x \in Nat /\ y \in Nat /\ z \in Nat
    BY <1>1, <1>3, <1>8
  <2>4. ic = z + (x + y) /\ t.done = z + y
    BY <1>1, <1>2, <2>2
  <2> HIDE DEF x, y, z
  <2>5. z + (x + y) = (z + y) + x
    BY <2>3
  <2>6. ic = t.done + x
    BY <2>4, <2>5
  <2> QED
    BY <2>6 DEF x
<1>5. 1 .. k \subseteq 1 .. k + 1
  <2>1. k \in Nat
    BY <1>1
  <2> QED
    BY ONLY <2>1
<1>6. \A i \in 1 .. k :
           /\ old[i][1] \in Lines /\ b[i] = b[i - 1] + old[i][2]
           /\ t.f[r[i]].base <= b[i - 1] /\ (run = "record" => t.f[r[i]].base = b[i - 1])
  BY <1>1, <1>2, <1>5
<1>7. Len(old) = k
  BY DEF k, old
<1>9. Counts(t, m, old, r, b, ic, run)
  BY <1>2, <1>4, <1>6, <1>7 DEF Counts
<1> QED
  BY <1>9 DEF old
-----------------------------------------------------------------------------
(* TwintraceReplay: the events of a run, and the records of its view.       *)

\* The upmost thread is of Lines, or the firmware.
OnTape(m, stk) == Cur(m, stk).v \in Lines \cup {0}
AtAccess(m, stk) == OnTape(m, stk) /\ IsAccess(Cur(m, stk).v, Cur(m, stk).q)
AtEnd(m, stk) ==
  stk # <<>> /\ OnTape(m, stk) /\ Cur(m, stk).q = Len(Prog(Cur(m, stk).v))

\* The run of the tape is over.
Finishes(p) == p.d = 0 /\ Same(0, p.f[0].at, Len(Main))

\* An access of a run is an event at its view.
LEMMA AccessHappens ==
  ASSUME NEW p \in Views, NEW m \in Nat, NEW stk \in Seq(StackFrames),
         NEW r \in [Nat -> Nat], Tracks(p, m, stk, r), AtAccess(m, stk),
         NEW e, e.type = "MMIO", e.addr = RegisterOf(Cur(m, stk).v, Cur(m, stk).q)
  PROVE  \E t \in Views : Event(p, e, t)
<1> DEFINE v == Cur(m, stk).v
           q == Cur(m, stk).q
           z == Top(p).base
           w == [vec |-> v, at |-> q + 1, base |-> z]
           g == [p.f EXCEPT ![p.d] = w]
           t == [d |-> p.d, f |-> g, done |-> p.done]
<1>1. /\ q \in Nat /\ Top(p).vec = v /\ Same(v, Top(p).at, q)
      /\ v \in Lines \cup {0} /\ IsAccess(v, q)
  BY TopTracks DEF AtAccess, OnTape
<1>2. p.d \in Nat /\ p.done \in Nat /\ z \in Nat /\ p.f \in [Nat -> Threads]
  BY ViewsAre DEF Views
<1>3. e.addr = RegisterOf(v, q)
  OBVIOUS
<1> HIDE DEF v, q, z
<1>4. w \in Threads
  <2>1. v \in Lines \cup {0} /\ q + 1 \in Nat /\ z \in Nat
    BY <1>1, <1>2
  <2> QED
    BY ONLY <2>1 DEF Threads
<1>5. g \in [Nat -> Threads]
  <2> HIDE DEF w
  <2> QED
    BY <1>2, <1>4
<1>6. t \in Views
  <2> HIDE DEF g
  <2> QED
    BY <1>2, <1>5 DEF Views
<1>7. t.d = p.d /\ t.done = p.done /\ t.f = g
  OBVIOUS
<1>8. g = [p.f EXCEPT ![p.d] = [vec |-> Top(p).vec, at |-> q + 1, base |-> Top(p).base]]
  BY <1>1 DEF z
<1> HIDE DEF t, g
<1>9. Event(p, e, t)
  BY <1>1, <1>3, <1>7, <1>8 DEF Event
<1> QED
  BY <1>6, <1>9

\* Where a run makes an access, an access record is of this access, and leads to
\* the view of the run after it.
LEMMA AccessFollows ==
  ASSUME NEW p \in Views, NEW t \in Views, NEW m \in Nat, NEW stk \in Seq(StackFrames),
         NEW r \in [Nat -> Nat], NEW m2, NEW stk2,
         Tracks(p, m, stk, r), AtAccess(m, stk), Advances(m, stk, m2, stk2),
         NEW e, e.type = "MMIO", Event(p, e, t)
  PROVE  /\ e.addr = RegisterOf(Cur(m, stk).v, Cur(m, stk).q)
         /\ Tracks(t, m2, stk2, r) /\ SameBases(p, t)
<1> DEFINE v == Cur(m, stk).v
           q == Cur(m, stk).q
<1>1. /\ q \in Nat /\ Top(p).vec = v /\ Same(v, Top(p).at, q)
      /\ v \in Lines \cup {0} /\ IsAccess(v, q)
  BY TopTracks DEF AtAccess, OnTape
<1>2. p.d \in Nat /\ Top(p).at \in Nat /\ p.f \in [Nat -> Threads]
  BY ViewsAre DEF Views
<1>3. PICK k \in Nat :
        /\ Same(Top(p).vec, Top(p).at, k) /\ IsAccess(Top(p).vec, k)
        /\ e.addr = RegisterOf(Top(p).vec, k)
        /\ t.f = [p.f EXCEPT ![p.d] = [vec |-> Top(p).vec, at |-> k + 1,
                                       base |-> Top(p).base]]
  BY DEF Event
<1>4. t.d = p.d /\ t.done = p.done
  BY DEF Event
<1>5. k = q
  <2> HIDE DEF v, q
  <2>1. Same(v, Top(p).at, k) /\ IsAccess(v, k)
    BY <1>1, <1>3
  <2> QED
    BY <1>1, <1>2, <2>1, SameAccess
<1>6. /\ t.f[p.d] = [vec |-> Top(p).vec, at |-> k + 1, base |-> Top(p).base]
      /\ \A j \in Nat : j # p.d => t.f[j] = p.f[j]
  BY <1>2, <1>3
<1>10. /\ t.f[p.d].vec = Top(p).vec /\ t.f[p.d].base = Top(p).base
       /\ t.f[p.d].at = k + 1
  BY <1>6
<1>7. \A j \in Nat : /\ t.f[j].vec = p.f[j].vec /\ t.f[j].base = p.f[j].base
                     /\ j # p.d => t.f[j].at = p.f[j].at
  <2>1. t.f[p.d].vec = p.f[p.d].vec /\ t.f[p.d].base = p.f[p.d].base
    BY <1>10 DEF Top
  <2> QED
    BY <1>6, <2>1
<1>8. Same(v, t.f[p.d].at, q + 1)
  <2>1. t.f[p.d].at = q + 1 /\ q + 1 \in Nat
    <3>1. q \in Nat /\ k = q
      BY <1>1, <1>5
    <3> HIDE DEF q
    <3>2. q + 1 \in Nat
      BY <3>1
    <3>3. t.f[p.d].at = q + 1
      BY <1>10, <3>1
    <3> QED
      BY <3>2, <3>3
  <2> QED
    BY <2>1, SameHere
<1>9. Tracks(t, m2, stk2, r)
  <2>1. /\ p \in Views /\ t \in Views /\ m \in Nat /\ stk \in Seq(StackFrames)
        /\ r \in [Nat -> Nat] /\ Tracks(p, m, stk, r) /\ Advances(m, stk, m2, stk2)
    OBVIOUS
  <2>2. t.d = p.d /\ \A j \in Nat : t.f[j].vec = p.f[j].vec
    BY <1>4, <1>7
  <2>3. \A j \in Nat :
          j # p.d \/ Cur(m, stk).v \notin Lines \cup {0} => t.f[j].at = p.f[j].at
    BY <1>1, <1>7
  <2>4. Cur(m, stk).v \in Lines \cup {0} =>
          Same(Cur(m, stk).v, t.f[p.d].at, Cur(m, stk).q + 1)
    BY <1>8
  <2> QED
    BY ONLY <2>1, <2>2, <2>3, <2>4, TracksAdvance
<1> QED
  BY <1>1, <1>3, <1>4, <1>5, <1>7, <1>9 DEF SameBases

\* Where a run makes an access, no record of a return comes, and not the tape's end.
LEMMA AccessIsNext ==
  ASSUME NEW p \in Views, NEW m \in Nat, NEW stk \in Seq(StackFrames),
         NEW r \in [Nat -> Nat], Tracks(p, m, stk, r), AtAccess(m, stk)
  PROVE  /\ ~Finishes(p)
         /\ \A e, t : Event(p, e, t) => e.type \in {"MMIO", "TAKEN"}
<1> DEFINE v == Cur(m, stk).v
           q == Cur(m, stk).q
<1>1. /\ q \in Nat /\ Top(p).vec = v /\ Same(v, Top(p).at, q)
      /\ v \in Lines \cup {0} /\ IsAccess(v, q) /\ (p.d = 0 <=> stk = <<>>)
  BY TopTracks DEF AtAccess, OnTape
<1>2. Top(p).at \in Nat /\ Len(Prog(v)) \in Nat
  BY <1>1, ViewsAre, LengthsAre
<1> HIDE DEF v, q
<1>3. ~Same(v, Top(p).at, Len(Prog(v)))
  <2> SUFFICES ASSUME Same(v, Top(p).at, Len(Prog(v))) PROVE FALSE
    OBVIOUS
  <2>1. q >= Len(Prog(v))
    BY <1>1, <1>2, SameAccess
  <2>2. q < Len(Prog(v))
    BY <1>1 DEF IsAccess
  <2> DEFINE k == Len(Prog(v))
  <2>3. k \in Nat /\ q >= k /\ q < k
    BY <1>2, <2>1, <2>2
  <2> HIDE DEF k
  <2> QED
    BY <1>1, <2>3
<1>4. ASSUME Finishes(p)
      PROVE  FALSE
  <2>1. v = 0
    BY <1>1, <1>4 DEF Finishes, Cur, v
  <2>2. Prog(v) = Main /\ Top(p) = p.f[0]
    BY <1>4, <2>1 DEF Prog, Top, Finishes
  <2> QED
    BY <1>3, <1>4, <2>1, <2>2 DEF Finishes
<1>5. ASSUME NEW e, NEW t, Event(p, e, t)
      PROVE  e.type \in {"MMIO", "TAKEN"}
  BY <1>1, <1>3, <1>5 DEF Event
<1> QED
  BY <1>4, <1>5

\* Where a handler of Lines returns, no record of an access comes, and not the
\* tape's end.
LEMMA EndIsNext ==
  ASSUME NEW p \in Views, NEW m \in Nat, NEW stk \in Seq(StackFrames),
         NEW r \in [Nat -> Nat], Tracks(p, m, stk, r), AtEnd(m, stk)
  PROVE  /\ ~Finishes(p)
         /\ \A e, t : Event(p, e, t) => e.type \in {"SERVED", "TAKEN"}
<1> DEFINE v == Cur(m, stk).v
           q == Cur(m, stk).q
<1>1. /\ q \in Nat /\ Top(p).vec = v /\ Same(v, Top(p).at, q)
      /\ v \in Lines \cup {0} /\ q = Len(Prog(v)) /\ p.d # 0
  BY TopTracks DEF AtEnd, OnTape
<1>2. Top(p).at \in Nat
  BY ViewsAre
<1> HIDE DEF v, q
<1>3. \A k \in Nat : Same(v, Top(p).at, k) => ~IsAccess(v, k)
  <2> SUFFICES ASSUME NEW k \in Nat, Same(v, Top(p).at, k), IsAccess(v, k)
               PROVE  FALSE
    OBVIOUS
  <2>1. k >= q
    BY <1>1, <1>2, SameAccess
  <2>2. k < q
    BY <1>1 DEF IsAccess
  <2> QED
    BY <1>1, <2>1, <2>2
<1>4. ASSUME NEW e, NEW t, Event(p, e, t)
      PROVE  e.type \in {"SERVED", "TAKEN"}
  <2>1. e.type # "MMIO"
    BY <1>1, <1>3, <1>4 DEF Event
  <2> QED
    BY <1>4, <2>1 DEF Event
<1> QED
  BY <1>1, <1>4 DEF Finishes

\* A return of a run is an event at its view.
LEMMA ServedHappens ==
  ASSUME NEW p \in Views, NEW m \in Nat, NEW stk \in Seq(StackFrames),
         NEW r \in [Nat -> Nat], Tracks(p, m, stk, r), AtEnd(m, stk),
         NEW e, e.type = "SERVED", e.addr = Cur(m, stk).v
  PROVE  \E t \in Views : Event(p, e, t)
<1> DEFINE v == Cur(m, stk).v
           q == Cur(m, stk).q
           x == p.d
           y == p.done
           t == [d |-> x - 1, f |-> p.f, done |-> y + q]
<1>1. /\ q \in Nat /\ Top(p).vec = v /\ Same(v, Top(p).at, q)
      /\ q = Len(Prog(v)) /\ x # 0 /\ e.addr = v
  BY TopTracks DEF AtEnd, OnTape
<1>2. x \in Nat /\ y \in Nat /\ p.f \in [Nat -> Threads]
  BY ViewsAre DEF Views
<1> HIDE DEF v, q
<1>3. x > 0 /\ x - 1 \in Nat /\ y + q \in Nat
  <2> HIDE DEF x, y
  <2> QED
    BY <1>1, <1>2
<1>4. t \in Views /\ t.d = x - 1 /\ t.f = p.f /\ t.done = y + q
  BY <1>2, <1>3 DEF Views
<1>5. Event(p, e, t)
  <2> HIDE DEF t
  <2> QED
    BY <1>1, <1>3, <1>4 DEF Event
<1> QED
  BY <1>4, <1>5

\* Where a handler returns, a record of a return is of this return.
LEMMA ServedFollows ==
  ASSUME NEW p \in Views, NEW t \in Views, NEW m \in Nat, NEW stk \in Seq(StackFrames),
         NEW r \in [Nat -> Nat], Tracks(p, m, stk, r), AtEnd(m, stk),
         NEW e, e.type = "SERVED", Event(p, e, t)
  PROVE  /\ e.addr = Cur(m, stk).v /\ Tracks(t, m, Front(stk), r)
         /\ t.f = p.f /\ t.done = p.done + Last(stk)[2]
<1> DEFINE v == Cur(m, stk).v
           q == Cur(m, stk).q
<1>1. /\ Top(p).vec = v /\ v \in Lines \cup {0} /\ q = Len(Prog(v)) /\ stk # <<>>
      /\ v = Last(stk)[1] /\ q = Last(stk)[2]
  BY TopTracks DEF AtEnd, OnTape, Cur
<1>2. e.addr = v /\ t.d = p.d - 1 /\ t.f = p.f /\ t.done = p.done + q /\ p.d > 0
  BY <1>1 DEF Event
<1>3. v \in Lines
  <2>1. Last(stk) \in StackFrames
    BY <1>1, StackTop
  <2>2. Last(stk)[1] \in Vectors
    BY <2>1, ProgramsAre
  <2>3. v # 0
    BY <1>1, <2>2, NoZero
  <2> QED
    BY <1>1, <2>3
<1>4. p.d = t.d + 1
  <2>1. \A x, y \in Nat : y = x - 1 => x = y + 1
    OBVIOUS
  <2>2. p.d \in Nat /\ t.d \in Nat
    BY ViewsAre
  <2> QED
    BY <1>2, <2>1, <2>2
<1>5. Ends(p, t, Last(stk)[1])
  BY <1>1, <1>2, <1>3, <1>4 DEF Ends
<1>6. Tracks(t, m, Front(stk), r)
  BY <1>1, <1>5, TracksPop
<1> QED
  BY <1>1, <1>2, <1>6

\* An interrupt of Lines can be taken at any view, at any count.
LEMMA TakenHappens ==
  ASSUME NEW p \in Views, NEW e, e.type = "TAKEN", e.addr \in Lines, NEW n \in Nat
  PROVE  \E t \in Views : Event(p, e, t) /\ t.f[p.d + 1].base = n
<1> DEFINE x == p.d
           w == [vec |-> e.addr, at |-> 0, base |-> n]
           g == [p.f EXCEPT ![x + 1] = w]
           t == [d |-> x + 1, f |-> g, done |-> p.done]
<1>1. x \in Nat /\ p.done \in Nat /\ p.f \in [Nat -> Threads]
  BY ViewsAre DEF Views
<1>2. x + 1 \in Nat
  <2> HIDE DEF x
  <2> QED
    BY <1>1
<1>3. w \in Threads /\ w.base = n
  BY DEF Threads
<1>4. g \in [Nat -> Threads] /\ g[x + 1] = w
  <2> HIDE DEF w, x
  <2> QED
    BY <1>1, <1>2, <1>3
<1>5. t \in Views /\ t.d = x + 1 /\ t.f = g /\ t.done = p.done
  <2> HIDE DEF g
  <2> QED
    BY <1>1, <1>2, <1>4 DEF Views
<1>6. g = [p.f EXCEPT ![p.d + 1] = [vec |-> e.addr, at |-> 0, base |-> n]]
  OBVIOUS
<1> HIDE DEF t, g
<1>7. Event(p, e, t)
  BY <1>5, <1>6 DEF Event
<1> QED
  BY <1>3, <1>4, <1>5, <1>7

\* A record of an interrupt begins its handler.
LEMMA TakenFollows ==
  ASSUME NEW p \in Views, NEW t \in Views, NEW e, e.type = "TAKEN", Event(p, e, t)
  PROVE  e.addr \in Lines /\ Begins(p, t, e.addr) /\ t.done = p.done /\ t.d = p.d + 1
<1> DEFINE x == p.d
<1>1. e.addr \in Lines /\ t.d = x + 1 /\ t.done = p.done
  BY DEF Event
<1>2. PICK n \in Nat : t.f = [p.f EXCEPT ![x + 1] = [vec |-> e.addr, at |-> 0, base |-> n]]
  BY DEF Event
<1>3. x \in Nat /\ p.f \in [Nat -> Threads]
  BY ViewsAre DEF Views
<1>4. \A j \in 0 .. x : j \in Nat /\ j # x + 1
  BY <1>3, Bounds
<1>5. x + 1 \in Nat
  <2> HIDE DEF x
  <2> QED
    BY <1>3
<1>6. /\ t.f[x + 1] = [vec |-> e.addr, at |-> 0, base |-> n]
      /\ \A j \in 0 .. x : t.f[j] = p.f[j]
  <2> HIDE DEF x
  <2> QED
    BY <1>2, <1>3, <1>4, <1>5
<1>7. t.f[x + 1].vec = e.addr /\ t.f[x + 1].at = 0
  BY <1>6
<1> QED
  BY <1>1, <1>6, <1>7 DEF Begins, SameFrames
-----------------------------------------------------------------------------
(* TwintraceReplay: the counts, where only Lines interrupt.                 *)

\* What had been executed when the upmost thread of the view began, and since.
TopCount(p, m, stk) == Top(p).base + Cur(m, stk).q

Exactly(p, m, stk, b) == TopCount(p, m, stk) = b[Len(stk)]

\* The upmost thread began at the count under it.
LEMMA TopCounts ==
  ASSUME NEW p \in Views, NEW m \in Nat, NEW stk \in Seq(StackFrames),
         NEW r \in [Nat -> Nat], NEW b \in [Nat -> Nat], NEW ic \in Nat, NEW run,
         Tracks(p, m, stk, r), Counts(p, m, stk, r, b, ic, run)
  PROVE  /\ OnTape(m, stk) /\ b[Len(stk)] \in Nat /\ ic = p.done + b[Len(stk)]
         /\ Cur(m, stk).q \in Nat
         /\ TopCount(p, m, stk) <= b[Len(stk)]
         /\ run = "record" => Exactly(p, m, stk, b)
<1> DEFINE n == Len(stk)
           q == Cur(m, stk).q
<1>1. /\ b[0] = m /\ p.f[0].base = 0 /\ ic = p.done + b[n]
      /\ \A i \in 1 .. n :
           /\ stk[i][1] \in Lines /\ b[i] = b[i - 1] + stk[i][2]
           /\ p.f[r[i]].base <= b[i - 1] /\ (run = "record" => p.f[r[i]].base = b[i - 1])
  BY DEF Counts
<1>2. n \in Nat /\ (stk = <<>> <=> n = 0) /\ r[n] = p.d /\ r[0] = 0
  BY StackIs DEF Tracks
<1>3. b[n] \in Nat
  BY <1>2
<1>4. CASE stk = <<>>
  <2>1. q = m /\ n = 0 /\ Cur(m, stk).v = 0 /\ Top(p).base = 0
    BY <1>1, <1>2, <1>4 DEF Cur, Top
  <2>2. \A x \in Nat : 0 + x = x /\ x <= x
    OBVIOUS
  <2>3. 0 + q = b[n] /\ b[n] <= b[n]
    BY <1>1, <2>1, <2>2
  <2> QED
    BY <1>1, <1>3, <2>1, <2>3 DEF OnTape, TopCount, Exactly
<1>5. CASE stk # <<>>
  <2>1. n \in 1 .. n /\ Last(stk) = stk[n] /\ n - 1 \in 0 .. n
    BY <1>5, StackIs
  <2>2. stk[n][2] \in Nat /\ q = stk[n][2] /\ Cur(m, stk).v = stk[n][1]
    BY <1>5, <2>1, StackIs DEF Cur
  <2> HIDE DEF n, q
  <2>3. /\ stk[n][1] \in Lines /\ b[n] = b[n - 1] + q
        /\ p.f[r[n]].base <= b[n - 1] /\ (run = "record" => p.f[r[n]].base = b[n - 1])
    BY <1>1, <2>1, <2>2
  <2>4. p.f[r[n]] = Top(p)
    BY <1>2 DEF Top
  <2>5. b[n - 1] \in Nat /\ Top(p).base \in Nat /\ q \in Nat
    <3>1. n - 1 \in Nat
      BY <2>1
    <3> QED
      BY <2>2, <3>1, ViewsAre
  <2>6. \A x, y, z \in Nat : x <= y => x + z <= y + z
    OBVIOUS
  <2>7. Top(p).base + q <= b[n]
    BY <2>3, <2>4, <2>5, <2>6
  <2>8. run = "record" => Top(p).base + q = b[n]
    BY <2>3, <2>4
  <2>9. OnTape(m, stk)
    BY <2>2, <2>3 DEF OnTape
  <2> QED
    BY <1>1, <1>3, <2>5, <2>7, <2>8, <2>9 DEF n, q, TopCount, Exactly
<1> QED
  BY <1>4, <1>5

\* An interrupt that the recorded run takes is due.
LEMMA TakenIsDue ==
  ASSUME NEW p \in Views, NEW t \in Views, NEW m \in Nat, NEW stk \in Seq(StackFrames),
         NEW r \in [Nat -> Nat], NEW b \in [Nat -> Nat], NEW ic \in Nat, NEW run,
         Tracks(p, m, stk, r), Counts(p, m, stk, r, b, ic, run), run = "record",
         NEW e, e.icount = ic, t.d = p.d + 1, t.f[p.d + 1].base = b[Len(stk)]
  PROVE  Due(p, e, t)
<1> DEFINE v == Cur(m, stk).v
           q == Cur(m, stk).q
<1>1. /\ OnTape(m, stk) /\ ic = p.done + b[Len(stk)] /\ q \in Nat
      /\ Top(p).base + q = b[Len(stk)]
  <2>1. OnTape(m, stk)
    BY TopCounts
  <2>2. ic = p.done + b[Len(stk)]
    BY DEF Counts
  <2>3. Cur(m, stk).q \in Nat
    BY TopCounts
  <2>4. TopCount(p, m, stk) = b[Len(stk)]
    <3>1. /\ p \in Views /\ m \in Nat /\ stk \in Seq(StackFrames) /\ r \in [Nat -> Nat]
          /\ b \in [Nat -> Nat] /\ ic \in Nat /\ Tracks(p, m, stk, r)
          /\ Counts(p, m, stk, r, b, ic, run)
      OBVIOUS
    <3>2. run = "record" => Exactly(p, m, stk, b)
      BY ONLY <3>1, TopCounts
    <3> QED
      BY <3>2 DEF Exactly
  <2> QED
    BY <2>1, <2>2, <2>3, <2>4 DEF TopCount
<1>2. /\ Top(p).vec = v /\ Same(v, Top(p).at, q) /\ v \in Lines \cup {0}
  BY <1>1, TopTracks DEF OnTape
<1>3. Top(t).base = b[Len(stk)]
  BY DEF Top
<1>4. v # 0 => q <= Len(Prog(v))
  <2>1. CASE stk = <<>>
    BY <2>1 DEF Cur
  <2>2. CASE stk # <<>>
    <3>1. Last(stk) \in StackFrames /\ v = Last(stk)[1] /\ q = Last(stk)[2]
      BY <2>2, StackTop DEF Cur
    <3>2. q <= Len(Handler[v]) /\ v \in Vectors
      BY <3>1, ProgramsAre
    <3> QED
      BY <3>2, NoZero DEF Prog
  <2> QED
    BY <2>1, <2>2
<1> HIDE DEF v, q
<1> QED
  BY <1>1, <1>2, <1>3, <1>4 DEF Due

\* Where a run comes to an access, or to the end of a handler, with an interrupt the
\* next record, its count is past.
LEMMA CountIsPast ==
  ASSUME NEW p \in Views, NEW t \in Views, NEW m \in Nat, NEW stk \in Seq(StackFrames),
         NEW r \in [Nat -> Nat], NEW b \in [Nat -> Nat], NEW ic \in Nat, NEW run,
         Tracks(p, m, stk, r), Counts(p, m, stk, r, b, ic, run),
         AtAccess(m, stk) \/ AtEnd(m, stk),
         NEW e, e.type = "TAKEN", Due(p, e, t)
  PROVE  ic >= e.icount
<1> DEFINE v == Cur(m, stk).v
           q == Cur(m, stk).q
           n == Len(stk)
<1>1. /\ OnTape(m, stk) /\ ic = p.done + b[n] /\ q \in Nat /\ b[n] \in Nat
      /\ Top(p).base + q <= b[n]
  <2>1. OnTape(m, stk)
    BY TopCounts
  <2>2. ic = p.done + b[Len(stk)]
    BY DEF Counts
  <2>3. Cur(m, stk).q \in Nat /\ b[Len(stk)] \in Nat
    BY TopCounts
  <2>4. TopCount(p, m, stk) <= b[Len(stk)]
    BY TopCounts
  <2> QED
    BY <2>1, <2>2, <2>3, <2>4 DEF TopCount
<1>2. /\ Top(p).vec = v /\ Same(v, Top(p).at, q) /\ v \in Lines \cup {0}
      /\ p.d = 0 <=> stk = <<>>
  BY <1>1, TopTracks DEF OnTape
<1>3. Top(p).at \in Nat /\ Top(p).base \in Nat /\ p.done \in Nat
  BY ViewsAre
<1>4. PICK k \in Nat : /\ Same(Top(p).vec, Top(p).at, k)
                       /\ Top(p).vec # 0 => k <= Len(Prog(Top(p).vec))
                       /\ Top(t).base = Top(p).base + k
                       /\ e.icount = p.done + Top(t).base
  BY DEF Due
<1>5. AtAccess(m, stk) => IsAccess(v, q)
  BY DEF AtAccess
<1>6. AtEnd(m, stk) => stk # <<>> /\ q = Len(Prog(v)) /\ v # 0
  <2>1. stk # <<>> => v # 0
    <3>1. stk # <<>> => Last(stk) \in StackFrames /\ v = Last(stk)[1]
      BY StackTop DEF Cur
    <3> QED
      BY <3>1, ProgramsAre, NoZero
  <2> QED
    BY <2>1 DEF AtEnd
<1> HIDE DEF v, q, n
<1>7. k <= q
  <2>1. CASE AtAccess(m, stk)
    <3>1. q >= k
      BY <1>1, <1>2, <1>3, <1>4, <1>5, <2>1, SameAccess
    <3> QED
      BY <1>1, <3>1
  <2>2. CASE AtEnd(m, stk)
    BY <1>2, <1>4, <1>6, <2>2
  <2> QED
    BY <2>1, <2>2
<1>8. \A w, x, y, z, u \in Nat :
        x <= y /\ z + y <= u => w + (z + x) <= w + u
  OBVIOUS
<1>9. p.done + (Top(p).base + k) <= p.done + b[n]
  <2> DEFINE w == p.done
             z == Top(p).base
             u == b[n]
  <2>1. w \in Nat /\ z \in Nat /\ u \in Nat /\ k \in Nat /\ q \in Nat /\ k <= q /\ z + q <= u
    BY <1>1, <1>3, <1>4, <1>7
  <2> HIDE DEF w, z, u
  <2>2. w + (z + k) <= w + u
    BY <1>8, <2>1
  <2> QED
    BY <2>2 DEF w, z, u
<1>10. e.icount <= ic
  BY <1>1, <1>4, <1>9
<1>11. e.icount \in Nat
  <2> DEFINE w == p.done
             z == Top(p).base
  <2>1. w \in Nat /\ z \in Nat /\ k \in Nat /\ e.icount = w + (z + k)
    BY <1>3, <1>4
  <2> HIDE DEF w, z
  <2> QED
    BY <2>1
<1>12. \A x, y \in Nat : x <= y => y >= x
  OBVIOUS
<1> QED
  BY <1>10, <1>11, <1>12

\* An interrupt that is taken past its count finds as much executed as it had.
LEMMA BaseFits ==
  ASSUME NEW p \in Views, NEW t \in Views, NEW ic \in Nat, NEW n \in Nat,
         NEW e, e.type = "TAKEN", Due(p, e, t), t.d = p.d + 1,
         ic = p.done + n, ic >= e.icount
  PROVE  t.f[p.d + 1].base <= n
<1> DEFINE x == Top(t).base
           y == p.done
<1>1. x \in Nat /\ y \in Nat
  BY ViewsAre
<1>2. e.icount = y + x
  BY DEF Due
<1>3. y + n >= y + x
  BY <1>2
<1>4. t.f[p.d + 1].base = x
  BY DEF Top
<1> HIDE DEF x, y
<1>5. x <= n
  BY <1>1, <1>3
<1> QED
  BY <1>4, <1>5
-----------------------------------------------------------------------------
(* TwintraceReplay: the CPU's steps.                                        *)

\* The firmware at its place m; past its end it idles.
IsPlace(m, at) == at = IF m <= Len(Main) THEN m ELSE Len(Main)

\* The run has the view p: with the counts, where nothing but Lines interrupts.
OnView(p, run) ==
  \E m \in Nat, r \in [Nat -> Nat] :
    /\ IsPlace(m, pc) /\ Tracks(p, m, stack, r)
    /\ others = 0 =>
         /\ nvic \subseteq Lines
         /\ \E b \in [Nat -> Nat] : Counts(p, m, stack, r, b, icount, run)

\* The instruction the CPU is at, as the view sees it.
LEMMA AtPlace ==
  ASSUME TwinTypes, NEW m \in Nat, IsPlace(m, pc), At < Len(Program)
  PROVE  /\ Cur(m, stack).q = At /\ At \in Nat /\ Cur(m, stack).v \in Vectors \cup {0}
         /\ Prog(Cur(m, stack).v) = Program
         /\ IsAccess(Cur(m, stack).v, Cur(m, stack).q) <=> Instruction = "mmio"
         /\ AccessedRegister = RegisterOf(Cur(m, stack).v, Cur(m, stack).q)
<1> USE DEF TwinTypes, CpuTypes
<1>1. CASE stack = <<>>
  <2>1. Cur(m, stack).v = 0 /\ Cur(m, stack).q = m /\ At = pc /\ Program = Main
    BY <1>1 DEF Cur, At, Program, InHandler
  <2>2. m = pc
    BY <2>1, ProgramsAre DEF IsPlace
  <2>3. Prog(0) = Main
    BY DEF Prog
  <2>4. AccessedRegister = 0 + pc /\ RegisterOf(0, m) = 0 + m
    BY <1>1, <2>1 DEF AccessedRegister, InHandler, RegisterOf
  <2> QED
    BY <2>1, <2>2, <2>3, <2>4 DEF IsAccess, Instruction
<1>2. CASE stack # <<>>
  <2>1. /\ Cur(m, stack).v = Last(stack)[1] /\ Cur(m, stack).q = Last(stack)[2]
        /\ At = Last(stack)[2] /\ Program = Handler[Last(stack)[1]]
    BY <1>2 DEF Cur, At, Program, InHandler
  <2>2. Last(stack)[1] \in Vectors /\ Last(stack)[2] \in Nat
    BY <1>2, TopFrame
  <2>3. Last(stack)[1] # 0
    BY <2>2, NoZero
  <2>4. Prog(Last(stack)[1]) = Handler[Last(stack)[1]]
    BY <2>3 DEF Prog
  <2>5. AccessedRegister = RegisterOf(Last(stack)[1], Last(stack)[2])
    BY <1>2, <2>1, <2>3 DEF AccessedRegister, InHandler, RegisterOf
  <2> QED
    BY <2>1, <2>2, <2>4, <2>5 DEF IsAccess, Instruction
<1> QED
  BY <1>1, <1>2

\* Executing takes the upmost thread one place on.
LEMMA ExecuteAdvances ==
  ASSUME TwinTypes, NEW m \in Nat, IsPlace(m, pc), At < Len(Program), Advance
  PROVE  \E m2 \in Nat : IsPlace(m2, pc') /\ Advances(m, stack, m2, stack')
<1> USE DEF TwinTypes, CpuTypes
<1>1. CASE stack = <<>>
  <2>1. pc' = pc + 1 /\ stack' = stack /\ pc < Len(Main)
    BY <1>1 DEF Advance, InHandler, At, Program
  <2>2. m = pc
    BY <2>1, ProgramsAre DEF IsPlace
  <2>3. IsPlace(m + 1, pc')
    BY <2>1, <2>2, ProgramsAre DEF IsPlace
  <2>4. Advances(m, stack, m + 1, stack')
    BY <1>1, <2>1 DEF Advances
  <2> QED
    BY <2>3, <2>4
<1>2. CASE stack # <<>>
  <2>1. pc' = pc /\ stack' = Append(Front(stack), <<Last(stack)[1], Last(stack)[2] + 1>>)
    BY <1>2 DEF Advance, InHandler, At
  <2>2. Advances(m, stack, m, stack')
    BY <1>2, <2>1 DEF Advances
  <2> QED
    BY <2>1, <2>2
<1> QED
  BY <1>1, <1>2

\* An instruction that is no access of Lines or of the firmware keeps the view.
LEMMA QuietAdvance ==
  ASSUME TwinTypes, NEW p \in Views, NEW run, NEW m \in Nat, NEW r \in [Nat -> Nat],
         NEW m2 \in Nat, IsPlace(m2, pc'), Advances(m, stack, m2, stack'),
         Tracks(p, m, stack, r), ~AtAccess(m, stack),
         others' = others, icount' = icount + 1, nvic' = nvic,
         others = 0 => /\ nvic \subseteq Lines
                       /\ \E b \in [Nat -> Nat] : Counts(p, m, stack, r, b, icount, run)
  PROVE  OnView(p, run)'
<1> DEFINE v == Cur(m, stack).v
           q == Cur(m, stack).q
           stk2 == stack'
           ic == icount
<1>1. stack \in Seq(StackFrames) /\ ic \in Nat
  BY DEF TwinTypes, CpuTypes
<1>2. v \in Lines \cup {0} => Same(v, p.f[p.d].at, q + 1)
  <2> SUFFICES ASSUME v \in Lines \cup {0} PROVE Same(v, p.f[p.d].at, q + 1)
    OBVIOUS
  <2>1. q \in Nat /\ Same(v, Top(p).at, q)
    BY <1>1, TopTracks
  <2>2. ~IsAccess(v, q)
    BY DEF AtAccess, OnTape
  <2> HIDE DEF v, q
  <2>3. Same(v, q, q + 1)
    BY <2>1, <2>2, SameNext
  <2>4. q + 1 \in Nat /\ Top(p).at \in Nat
    BY <2>1, ViewsAre
  <2>5. Same(v, Top(p).at, q + 1)
    BY <2>1, <2>3, <2>4, SameJoins
  <2> QED
    BY <2>5 DEF Top
<1>3. Advances(m, stack, m2, stk2)
  OBVIOUS
<1> HIDE DEF stk2, ic
<1>4. Tracks(p, m2, stk2, r)
  BY <1>1, <1>2, <1>3, TracksAdvance
<1>5. others = 0 => \E c \in [Nat -> Nat] : Counts(p, m2, stk2, r, c, ic + 1, run)
  <2> SUFFICES ASSUME others = 0
               PROVE  \E c \in [Nat -> Nat] : Counts(p, m2, stk2, r, c, ic + 1, run)
    OBVIOUS
  <2>1. PICK b \in [Nat -> Nat] : Counts(p, m, stack, r, b, ic, run)
    BY DEF ic
  <2>2. SameBases(p, p)
    BY DEF SameBases
  <2> QED
    BY <1>1, <1>3, <2>1, <2>2, CountsAdvance
<1>6. IsPlace(m2, pc') /\ Tracks(p, m2, stack', r)
  BY <1>4 DEF stk2
<1>7. others' = 0 => /\ nvic' \subseteq Lines
                     /\ \E c \in [Nat -> Nat] : Counts(p, m2, stack', r, c, icount', run)
  BY <1>5 DEF stk2, ic
<1> QED
  BY <1>6, <1>7 DEF OnView

LEMMA QuietExecute ==
  ASSUME TwinTypes, NEW p \in Views, NEW run, OnView(p, run),
         Execute, Instruction # "mmio" \/ (stack # <<>> /\ Last(stack)[1] \notin Lines)
  PROVE  OnView(p, run)'
<1>1. /\ At < Len(Program) /\ icount' = icount + 1 /\ Advance
      /\ nvic' = nvic /\ others' = others
  BY DEF Execute, raised
<1>2. PICK m \in Nat, r \in [Nat -> Nat] :
        /\ IsPlace(m, pc) /\ Tracks(p, m, stack, r)
        /\ others = 0 =>
             /\ nvic \subseteq Lines
             /\ \E b \in [Nat -> Nat] : Counts(p, m, stack, r, b, icount, run)
  BY DEF OnView
<1>3. PICK m2 \in Nat : IsPlace(m2, pc') /\ Advances(m, stack, m2, stack')
  BY <1>1, <1>2, ExecuteAdvances
<1>4. ~AtAccess(m, stack)
  <2>1. CASE Instruction # "mmio"
    <3>1. ~IsAccess(Cur(m, stack).v, Cur(m, stack).q)
      BY <1>1, <1>2, <2>1, AtPlace
    <3> QED
      BY <3>1 DEF AtAccess
  <2>2. CASE stack # <<>> /\ Last(stack)[1] \notin Lines
    <3>1. Last(stack)[1] # 0
      BY <2>2, TopFrame, NoZero DEF TwinTypes, CpuTypes
    <3> QED
      BY <2>2, <3>1 DEF AtAccess, OnTape, Cur
  <2> QED
    BY <2>1, <2>2
<1> QED
  BY <1>1, <1>2, <1>3, <1>4, QuietAdvance

LEMMA QuietIdle ==
  ASSUME TwinTypes, NEW p \in Views, NEW run, OnView(p, run), Idle
  PROVE  OnView(p, run)'
<1>1. /\ stack = <<>> /\ pc = Len(Main) /\ icount' = icount + 1
      /\ UNCHANGED <<pc, stack, nvic, others>>
  BY DEF Idle, InHandler, raised
<1>2. PICK m \in Nat, r \in [Nat -> Nat] :
        /\ IsPlace(m, pc) /\ Tracks(p, m, stack, r)
        /\ others = 0 =>
             /\ nvic \subseteq Lines
             /\ \E b \in [Nat -> Nat] : Counts(p, m, stack, r, b, icount, run)
  BY DEF OnView
<1>3. m >= Len(Main) /\ IsPlace(m + 1, pc') /\ m + 1 \in Nat
  <2> DEFINE k == Len(Main)
  <2>1. k \in Nat
    BY ProgramsAre
  <2>2. k = IF m <= k THEN m ELSE k
    BY <1>1, <1>2 DEF IsPlace
  <2>3. pc' = k
    BY <1>1
  <2> HIDE DEF k
  <2>4. m >= k /\ ~(m + 1 <= k)
    BY <2>1, <2>2
  <2> QED
    BY <2>3, <2>4 DEF IsPlace, k
<1>4. Advances(m, stack, m + 1, stack')
  BY <1>1 DEF Advances
<1>5. ~AtAccess(m, stack)
  <2>1. Prog(0) = Main /\ Len(Main) <= m
    BY <1>3, ProgramsAre DEF Prog
  <2>2. ~IsAccess(0, m)
    BY <2>1, ProgramsAre, NoneLeft
  <2> QED
    BY <1>1, <2>2 DEF AtAccess, Cur
<1>6. others' = others /\ nvic' = nvic
  BY <1>1
<1> QED
  BY <1>1, <1>2, <1>3, <1>4, <1>5, <1>6, QuietAdvance

\* A handler that is not of Lines leaves the view alone when it begins and ends.
LEMMA QuietTake ==
  ASSUME TwinTypes, NEW p \in Views, NEW run, OnView(p, run),
         NEW v \in Vectors \ Lines, TakeIrq(v)
  PROVE  OnView(p, run)'
<1>1. /\ stack' = Append(stack, <<v, 0>>) /\ v \in nvic
      /\ UNCHANGED <<pc, icount, others>>
  BY DEF TakeIrq, CanTake, raised
<1>2. PICK m \in Nat, r \in [Nat -> Nat] :
        /\ IsPlace(m, pc) /\ Tracks(p, m, stack, r)
        /\ others = 0 => nvic \subseteq Lines
  BY DEF OnView
<1>3. stack \in Seq(StackFrames)
  BY DEF TwinTypes, CpuTypes
<1>4. Begins(p, p, v)
  BY DEF Begins, SameFrames
<1>5. \E s \in [Nat -> Nat] : Tracks(p, m, Append(stack, <<v, 0>>), s)
  BY <1>2, <1>3, <1>4, TracksPush
<1>6. others # 0
  BY <1>1, <1>2
<1> QED
  BY <1>1, <1>2, <1>5, <1>6 DEF OnView

LEMMA QuietReturn ==
  ASSUME TwinTypes, NEW p \in Views, NEW run, OnView(p, run),
         ReturnIrq, Last(stack)[1] \notin Lines
  PROVE  OnView(p, run)'
<1>1. /\ stack # <<>> /\ stack' = Front(stack)
      /\ UNCHANGED <<pc, icount, others, nvic>>
  BY DEF ReturnIrq, InHandler, raised
<1>2. PICK m \in Nat, r \in [Nat -> Nat] :
        /\ IsPlace(m, pc) /\ Tracks(p, m, stack, r)
        /\ others = 0 => \E b \in [Nat -> Nat] : Counts(p, m, stack, r, b, icount, run)
  BY DEF OnView
<1>3. stack \in Seq(StackFrames)
  BY DEF TwinTypes, CpuTypes
<1>4. Ends(p, p, Last(stack)[1])
  BY DEF Ends
<1>5. Tracks(p, m, Front(stack), r)
  BY <1>1, <1>2, <1>3, <1>4, TracksPop
<1>6. others # 0
  <2> SUFFICES ASSUME others = 0 PROVE FALSE
    OBVIOUS
  <2>1. PICK b \in [Nat -> Nat] : Counts(p, m, stack, r, b, icount, run)
    BY <1>2
  <2>2. Len(stack) \in 1 .. Len(stack) /\ Last(stack) = stack[Len(stack)]
    BY <1>1, <1>3, StackIs
  <2> QED
    BY <2>1, <2>2 DEF Counts
<1> QED
  BY <1>1, <1>2, <1>5, <1>6 DEF OnView
\* An access of Lines or of the firmware is the event of its view, whichever record
\* of an access comes next; where an interrupt comes next, it is late.
LEMMA AccessView ==
  ASSUME TwinTypes, NEW p \in Views, NEW run, OnView(p, run),
         Execute, Instruction = "mmio", stack = <<>> \/ Last(stack)[1] \in Lines
  PROVE  /\ ~Finishes(p)
         /\ \E t \in Views : Event(p, Record("MMIO", AccessedRegister), t)
         /\ \A e : \A t \in Views : Event(p, e, t) =>
              /\ e.type \in {"MMIO", "TAKEN"}
              /\ e.type = "MMIO" => e.addr = AccessedRegister /\ OnView(t, run)'
              /\ e.type = "TAKEN" /\ others = 0 /\ Due(p, e, t) => icount >= e.icount
<1>1. /\ At < Len(Program) /\ icount' = icount + 1 /\ Advance
      /\ nvic' = nvic /\ others' = others
  BY DEF Execute, raised
<1>2. PICK m \in Nat, r \in [Nat -> Nat] :
        /\ IsPlace(m, pc) /\ Tracks(p, m, stack, r)
        /\ others = 0 =>
             /\ nvic \subseteq Lines
             /\ \E b \in [Nat -> Nat] : Counts(p, m, stack, r, b, icount, run)
  BY DEF OnView
<1>3. PICK m2 \in Nat : IsPlace(m2, pc') /\ Advances(m, stack, m2, stack')
  BY <1>1, <1>2, ExecuteAdvances
<1>4. stack \in Seq(StackFrames) /\ icount \in Nat
  BY DEF TwinTypes, CpuTypes
<1>5. AtAccess(m, stack)
  <2>1. IsAccess(Cur(m, stack).v, Cur(m, stack).q)
    BY <1>1, <1>2, AtPlace
  <2>2. Cur(m, stack).v \in Lines \cup {0}
    BY DEF Cur
  <2> QED
    BY <2>1, <2>2 DEF AtAccess, OnTape
<1>6. AccessedRegister = RegisterOf(Cur(m, stack).v, Cur(m, stack).q)
  BY <1>1, <1>2, AtPlace
<1>7. ~Finishes(p) /\ \A e, t : Event(p, e, t) => e.type \in {"MMIO", "TAKEN"}
  BY <1>2, <1>4, <1>5, AccessIsNext
<1>8. \E t \in Views : Event(p, Record("MMIO", AccessedRegister), t)
  <2> DEFINE e == Record("MMIO", AccessedRegister)
  <2>1. e.type = "MMIO" /\ e.addr = RegisterOf(Cur(m, stack).v, Cur(m, stack).q)
    BY <1>6 DEF Record
  <2> HIDE DEF e
  <2>2. \E t \in Views : Event(p, e, t)
    BY <1>2, <1>4, <1>5, <2>1, AccessHappens
  <2> QED
    BY <2>2 DEF e
<1>9. ASSUME NEW e, NEW t \in Views, Event(p, e, t), e.type = "MMIO"
      PROVE  e.addr = AccessedRegister /\ OnView(t, run)'
  <2> DEFINE stk2 == stack'
             ic == icount
  <2>1. Advances(m, stack, m2, stk2)
    BY <1>3
  <2>2. ic \in Nat
    BY <1>4
  <2> HIDE DEF stk2, ic
  <2>3. /\ e.addr = RegisterOf(Cur(m, stack).v, Cur(m, stack).q)
        /\ Tracks(t, m2, stk2, r) /\ SameBases(p, t)
    BY <1>2, <1>4, <1>5, <1>9, <2>1, AccessFollows
  <2>4. others = 0 => \E c \in [Nat -> Nat] : Counts(t, m2, stk2, r, c, ic + 1, run)
    <3> SUFFICES ASSUME others = 0
                 PROVE  \E c \in [Nat -> Nat] : Counts(t, m2, stk2, r, c, ic + 1, run)
      OBVIOUS
    <3>1. PICK b \in [Nat -> Nat] : Counts(p, m, stack, r, b, ic, run)
      BY <1>2 DEF ic
    <3> QED
      BY <1>4, <2>1, <2>2, <2>3, <3>1, CountsAdvance
  <2>5. Tracks(t, m2, stack', r)
    BY <2>3 DEF stk2
  <2>6. others' = 0 => /\ nvic' \subseteq Lines
                       /\ \E c \in [Nat -> Nat] : Counts(t, m2, stack', r, c, icount', run)
    BY <1>1, <1>2, <2>4 DEF stk2, ic
  <2>7. OnView(t, run)'
    BY <1>3, <2>5, <2>6 DEF OnView
  <2> QED
    BY <1>6, <2>3, <2>7
<1>10. ASSUME NEW e, NEW t \in Views, e.type = "TAKEN", others = 0, Due(p, e, t)
       PROVE  icount >= e.icount
  <2>1. PICK b \in [Nat -> Nat] : Counts(p, m, stack, r, b, icount, run)
    BY <1>2, <1>10
  <2> QED
    BY <1>2, <1>4, <1>5, <1>10, <2>1, CountIsPast
<1> QED
  BY <1>7, <1>8, <1>9, <1>10

\* So is the return of a handler of Lines.
LEMMA ReturnView ==
  ASSUME TwinTypes, NEW p \in Views, NEW run, OnView(p, run),
         ReturnIrq, Last(stack)[1] \in Lines
  PROVE  /\ ~Finishes(p)
         /\ \E t \in Views : Event(p, Record("SERVED", Last(stack)[1]), t)
         /\ \A e : \A t \in Views : Event(p, e, t) =>
              /\ e.type \in {"SERVED", "TAKEN"}
              /\ e.type = "SERVED" => e.addr = Last(stack)[1] /\ OnView(t, run)'
              /\ e.type = "TAKEN" /\ others = 0 /\ Due(p, e, t) => icount >= e.icount
<1>1. /\ stack # <<>> /\ At = Len(Program) /\ stack' = Front(stack)
      /\ UNCHANGED <<pc, icount, nvic, others>>
  BY DEF ReturnIrq, InHandler, raised
<1>2. PICK m \in Nat, r \in [Nat -> Nat] :
        /\ IsPlace(m, pc) /\ Tracks(p, m, stack, r)
        /\ others = 0 =>
             /\ nvic \subseteq Lines
             /\ \E b \in [Nat -> Nat] : Counts(p, m, stack, r, b, icount, run)
  BY DEF OnView
<1>3. stack \in Seq(StackFrames) /\ icount \in Nat
  BY DEF TwinTypes, CpuTypes
<1>4. Cur(m, stack).v = Last(stack)[1] /\ Cur(m, stack).q = Last(stack)[2]
  BY <1>1 DEF Cur
<1>5. AtEnd(m, stack)
  <2>1. Last(stack)[1] # 0
    BY <1>1, TopFrame, NoZero DEF TwinTypes, CpuTypes
  <2>2. Last(stack)[2] = Len(Prog(Last(stack)[1]))
    BY <1>1, <2>1 DEF At, Program, InHandler, Prog
  <2> QED
    BY <1>1, <1>4, <2>2 DEF AtEnd, OnTape
<1>7. ~Finishes(p) /\ \A e, t : Event(p, e, t) => e.type \in {"SERVED", "TAKEN"}
  BY <1>2, <1>3, <1>5, EndIsNext
<1>8. \E t \in Views : Event(p, Record("SERVED", Last(stack)[1]), t)
  <2> DEFINE e == Record("SERVED", Last(stack)[1])
  <2>1. e.type = "SERVED" /\ e.addr = Cur(m, stack).v
    BY <1>4 DEF Record
  <2> HIDE DEF e
  <2>2. \E t \in Views : Event(p, e, t)
    BY <1>2, <1>3, <1>5, <2>1, ServedHappens
  <2> QED
    BY <2>2 DEF e
<1>9. ASSUME NEW e, NEW t \in Views, Event(p, e, t), e.type = "SERVED"
      PROVE  e.addr = Last(stack)[1] /\ OnView(t, run)'
  <2>1. /\ e.addr = Cur(m, stack).v /\ Tracks(t, m, Front(stack), r)
        /\ t.f = p.f /\ t.done = p.done + Last(stack)[2]
    BY <1>2, <1>3, <1>5, <1>9, ServedFollows
  <2>2. others = 0 => \E b \in [Nat -> Nat] : Counts(t, m, Front(stack), r, b, icount, run)
    <3> SUFFICES ASSUME others = 0
                 PROVE  \E b \in [Nat -> Nat] : Counts(t, m, Front(stack), r, b, icount, run)
      OBVIOUS
    <3>1. PICK b \in [Nat -> Nat] : Counts(p, m, stack, r, b, icount, run)
      BY <1>2
    <3>2. Counts(t, m, Front(stack), r, b, icount, run)
      BY <1>1, <1>3, <2>1, <3>1, CountsPop
    <3> QED
      BY <3>2
  <2>3. OnView(t, run)'
    BY <1>1, <1>2, <2>1, <2>2 DEF OnView
  <2> QED
    BY <1>4, <2>1, <2>3
<1>10. ASSUME NEW e, NEW t \in Views, e.type = "TAKEN", others = 0, Due(p, e, t)
       PROVE  icount >= e.icount
  <2>1. PICK b \in [Nat -> Nat] : Counts(p, m, stack, r, b, icount, run)
    BY <1>2, <1>10
  <2> QED
    BY <1>2, <1>3, <1>5, <1>10, <2>1, CountIsPast
<1> QED
  BY <1>7, <1>8, <1>9, <1>10

\* The recorded run takes an interrupt of Lines.
LEMMA TakeRecords ==
  ASSUME TwinTypes, NEW p \in Views, OnView(p, "record"), NEW v \in Lines, TakeIrq(v)
  PROVE  \E t \in Views : /\ Event(p, Record("TAKEN", v), t) /\ OnView(t, "record")'
                          /\ others = 0 => Due(p, Record("TAKEN", v), t)
<1> DEFINE run == "record"
           e == Record("TAKEN", v)
           ic == icount
           stk2 == stack'
<1>1. /\ stk2 = Append(stack, <<v, 0>>) /\ nvic' = nvic \ {v}
      /\ UNCHANGED <<pc, icount, others>>
  BY DEF TakeIrq, raised
<1>2. /\ e.type = "TAKEN" /\ e.addr = v /\ e.icount = ic
      /\ stack \in Seq(StackFrames) /\ ic \in Nat /\ v \in Vectors
  BY NoZero DEF Record, TwinTypes, CpuTypes
<1>3. run = "record"
  OBVIOUS
<1>4. PICK m \in Nat, r \in [Nat -> Nat] :
        /\ IsPlace(m, pc) /\ Tracks(p, m, stack, r)
        /\ others = 0 =>
             /\ nvic \subseteq Lines
             /\ \E b \in [Nat -> Nat] : Counts(p, m, stack, r, b, ic, run)
  BY DEF OnView
<1> HIDE DEF run, e, ic, stk2
<1>5. CASE others # 0
  <2>1. PICK t \in Views : Event(p, e, t)
    BY <1>2, TakenHappens
  <2>2. Begins(p, t, v)
    BY <1>2, <2>1, TakenFollows
  <2>3. \E s \in [Nat -> Nat] : Tracks(t, m, stk2, s)
    BY <1>1, <1>2, <1>4, <2>2, TracksPush
  <2>4. OnView(t, run)'
    BY <1>1, <1>4, <1>5, <2>3 DEF OnView, stk2
  <2> QED
    BY <1>3, <1>5, <2>1, <2>4 DEF e
<1>6. CASE others = 0
  <2>1. PICK b \in [Nat -> Nat] : Counts(p, m, stack, r, b, ic, run)
    BY <1>4, <1>6
  <2> DEFINE n == b[Len(stack)]
             s(t) == [r EXCEPT ![Len(stack) + 1] = t.d]
  <2>2. n \in Nat
    BY <1>2, StackIs
  <2>3. PICK t \in Views : Event(p, e, t) /\ t.f[p.d + 1].base = n
    <3> HIDE DEF n
    <3> QED
      BY <1>2, <2>2, TakenHappens
  <2>4. Begins(p, t, v) /\ t.done = p.done /\ t.d = p.d + 1
    BY <1>2, <2>3, TakenFollows
  <2>5. s(t) \in [Nat -> Nat] /\ Tracks(t, m, stk2, s(t))
    BY <1>1, <1>2, <1>4, <2>4, TracksPush
  <2>6. \E c \in [Nat -> Nat] : Counts(t, m, stk2, s(t), c, ic, run)
    <3>1. n <= n
      BY <2>2
    <3>2. t.f[p.d + 1].base <= b[Len(stack)]
      BY <2>3, <3>1
    <3>3. \E c \in [Nat -> Nat] : Counts(t, m, Append(stack, <<v, 0>>), s(t), c, ic, run)
      BY <1>2, <1>4, <2>1, <2>3, <2>4, <3>2, CountsPush
    <3> QED
      BY <1>1, <3>3
  <2>7. Due(p, e, t)
    BY <1>2, <1>3, <1>4, <2>1, <2>3, <2>4, TakenIsDue
  <2> HIDE DEF s
  <2>8. OnView(t, run)'
    BY <1>1, <1>4, <1>6, <2>5, <2>6 DEF OnView, stk2, ic
  <2> QED
    BY <1>3, <2>3, <2>7, <2>8 DEF e
<1> QED
  BY <1>5, <1>6

\* The replay takes the interrupt its record wants, past its count.
LEMMA TakeReplays ==
  ASSUME TwinTypes, NEW p \in Views, NEW run, run # "record", OnView(p, run),
         NEW v \in Lines, TakeIrq(v),
         NEW e, NEW t \in Views, Event(p, e, t), e.type = "TAKEN", e.addr = v,
         others = 0 => Due(p, e, t) /\ icount >= e.icount
  PROVE  OnView(t, run)'
<1> DEFINE ic == icount
           stk2 == stack'
<1>1. /\ stk2 = Append(stack, <<v, 0>>) /\ nvic' = nvic \ {v}
      /\ UNCHANGED <<pc, icount, others>>
  BY DEF TakeIrq, raised
<1>2. stack \in Seq(StackFrames) /\ ic \in Nat /\ v \in Vectors
  BY NoZero DEF TwinTypes, CpuTypes
<1>4. PICK m \in Nat, r \in [Nat -> Nat] :
        /\ IsPlace(m, pc) /\ Tracks(p, m, stack, r)
        /\ others = 0 =>
             /\ nvic \subseteq Lines
             /\ \E b \in [Nat -> Nat] : Counts(p, m, stack, r, b, ic, run)
  BY DEF OnView
<1>10. others = 0 => Due(p, e, t) /\ ic >= e.icount
  OBVIOUS
<1> HIDE DEF ic, stk2
<1>5. Begins(p, t, v) /\ t.done = p.done /\ t.d = p.d + 1
  BY TakenFollows
<1> DEFINE u == [r EXCEPT ![Len(stack) + 1] = t.d]
<1>6. u \in [Nat -> Nat] /\ Tracks(t, m, stk2, u)
  BY <1>1, <1>2, <1>4, <1>5, TracksPush
<1>7. others = 0 => \E c \in [Nat -> Nat] : Counts(t, m, stk2, u, c, ic, run)
  <2> SUFFICES ASSUME others = 0
               PROVE  \E c \in [Nat -> Nat] : Counts(t, m, stk2, u, c, ic, run)
    OBVIOUS
  <2>1. PICK b \in [Nat -> Nat] : Counts(p, m, stack, r, b, ic, run)
    BY <1>4
  <2> DEFINE n == b[Len(stack)]
  <2>2. n \in Nat /\ ic = p.done + n
    BY <1>2, <2>1, StackIs DEF Counts
  <2>3. t.f[p.d + 1].base <= n
    <3> HIDE DEF n, u
    <3> QED
      BY <1>2, <1>5, <1>10, <2>2, BaseFits
  <2>4. \E c \in [Nat -> Nat] : Counts(t, m, Append(stack, <<v, 0>>), u, c, ic, run)
    BY <1>2, <1>4, <1>5, <2>1, <2>3, CountsPush
  <2> QED
    BY <1>1, <2>4
<1> HIDE DEF u
<1>8. OnView(t, run)'
  BY <1>1, <1>4, <1>6, <1>7 DEF OnView, stk2, ic
<1> QED
  BY <1>8
-----------------------------------------------------------------------------
(* TwintraceReplay: the invariant of both runs.                             *)

\* The recorded run has the last view of the tape that is made of its log.
Recorded ==
  mode = "record" =>
    \E out \in Seq(TapeRecords), path \in [Nat -> Views] :
      /\ Makes(tape, out) /\ IsPath(path, out)
      /\ others = 0 => AllDue(path, out)
      /\ OnView(path[Len(out)], "record")

\* The replay has the view of the tape before its next record.
Replayed ==
  mode = "replay" =>
    \E out \in Seq(TapeRecords), path \in [Nat -> Views] : \E k \in 0 .. Len(out) :
      /\ out = tape /\ k = idx /\ IsPath(path, out)
      /\ others = 0 => AllDue(path, out)
      /\ Finishes(path[Len(out)]) /\ OnView(path[k], "replay")

\* The thread has raised nothing but the next record, which it looks at, and
\* nothing before its count.
Raises ==
  mode = "replay" =>
    /\ nvic \cap Lines # {} =>
         /\ thread \in {"settle", "slept"} /\ e_idx = idx /\ Awaits("TAKEN")
         /\ nvic \cap Lines = {Expected.addr}
    /\ thread \in {"time", "confirm", "raise"} =>
         e_idx = idx /\ Awaits("TAKEN") /\ nvic \cap Lines = {}
    /\ nvic \cap Lines # {} \/ thread \in {"confirm", "raise"} =>
         icount >= Expected.icount

Follows == TwinTypes /\ Recorded /\ Replayed /\ Raises

\* One more record makes one more view.
LEMMA PathGrows ==
  ASSUME NEW out \in Seq(TapeRecords), NEW path, IsPath(path, out),
         NEW e \in TapeRecords, NEW t \in Views, Event(path[Len(out)], e, t)
  PROVE  \E more : /\ IsPath(more, Append(out, e)) /\ more[Len(Append(out, e))] = t
                   /\ AllDue(path, out) /\ Due(path[Len(out)], e, t) =>
                        AllDue(more, Append(out, e))
<1> DEFINE n == Len(out)
           new == Append(out, e)
           more == [path EXCEPT ![n + 1] = t]
<1>1. /\ n \in Nat /\ Len(new) = n + 1 /\ new[n + 1] = e
      /\ \A k \in 1 .. n : new[k] = out[k]
  OBVIOUS
<1>2. /\ path \in [Nat -> Views]
      /\ path[0].d = 0 /\ path[0].done = 0
      /\ path[0].f[0] = [vec |-> 0, at |-> 0, base |-> 0]
      /\ \A k \in 1 .. n : Event(path[k - 1], out[k], path[k])
  BY DEF IsPath
<1> HIDE DEF n, new
<1>3. more \in [Nat -> Views] /\ more[n + 1] = t /\ \A k \in 0 .. n : more[k] = path[k]
  BY <1>1, <1>2
<1> HIDE DEF more
<1>4. \A k \in 1 .. n + 1 : \/ k = n + 1 /\ k - 1 = n /\ n \in 0 .. n
                            \/ k \in 1 .. n /\ k \in 0 .. n /\ k - 1 \in 0 .. n
  BY <1>1
<1>5. 0 \in 0 .. n
  BY <1>1
<1>6. \A k \in 1 .. n + 1 : Event(more[k - 1], new[k], more[k])
  <2> SUFFICES ASSUME NEW k \in 1 .. n + 1 PROVE Event(more[k - 1], new[k], more[k])
    OBVIOUS
  <2>1. CASE k = n + 1 /\ k - 1 = n /\ n \in 0 .. n
    <3>1. more[k - 1] = path[n] /\ new[k] = e /\ more[k] = t
      BY <1>1, <1>3, <2>1
    <3> QED
      BY <3>1 DEF n
  <2>2. CASE k \in 1 .. n /\ k \in 0 .. n /\ k - 1 \in 0 .. n
    <3>1. more[k - 1] = path[k - 1] /\ new[k] = out[k] /\ more[k] = path[k]
      BY <1>1, <1>3, <2>2
    <3> QED
      BY <1>2, <2>2, <3>1
  <2> QED
    BY <1>4, <2>1, <2>2
<1>7. IsPath(more, new)
  <2>1. more[0] = path[0]
    BY <1>3, <1>5
  <2> QED
    BY <1>1, <1>2, <1>3, <1>6, <2>1 DEF IsPath
<1>8. ASSUME AllDue(path, out), Due(path[n], e, t)
      PROVE  AllDue(more, new)
  <2> SUFFICES ASSUME NEW k \in 1 .. n + 1 PROVE Due(more[k - 1], new[k], more[k])
    BY <1>1 DEF AllDue
  <2>1. CASE k = n + 1 /\ k - 1 = n /\ n \in 0 .. n
    <3>1. more[k - 1] = path[n] /\ new[k] = e /\ more[k] = t
      BY <1>1, <1>3, <2>1
    <3> QED
      BY <1>8, <3>1
  <2>2. CASE k \in 1 .. n /\ k \in 0 .. n /\ k - 1 \in 0 .. n
    <3>1. more[k - 1] = path[k - 1] /\ new[k] = out[k] /\ more[k] = path[k]
      BY <1>1, <1>3, <2>2
    <3>2. Due(path[k - 1], out[k], path[k])
      BY <1>8, <2>2 DEF AllDue, n
    <3> QED
      BY <3>1, <3>2
  <2> QED
    BY <1>4, <2>1, <2>2
<1>9. more[Len(new)] = t
  BY <1>1, <1>3
<1> QED
  BY <1>7, <1>8, <1>9 DEF n, new

\* A step of the CPU makes an event of the tape, or leaves every view alone.
Quiet == /\ \A p \in Views : \A run : OnView(p, run) => OnView(p, run)'
         /\ \/ NoEvent
            \/ mode = "record" /\ \E e \in TapeRecords : ~Kept(e) /\ Log(e)

Emits(e) == /\ mode = "record" => Log(e)
            /\ mode = "replay" => Replay(e)

AccessStep == /\ Execute /\ Instruction = "mmio" /\ (stack = <<>> \/ Last(stack)[1] \in Lines)
              /\ Record("MMIO", AccessedRegister) \in TapeRecords
              /\ Emits(Record("MMIO", AccessedRegister))
ReturnStep == /\ ReturnIrq /\ Last(stack)[1] \in Lines
              /\ Record("SERVED", Last(stack)[1]) \in TapeRecords
              /\ Emits(Record("SERVED", Last(stack)[1]))
TakeStep(v) == /\ TakeIrq(v) /\ v \in nvic /\ nvic' = nvic \ {v}
               /\ Record("TAKEN", v) \in TapeRecords /\ Emits(Record("TAKEN", v))

LEMMA QuietIrq ==
  ASSUME Followable, TwinTypes, NEW v \in Vectors \ Lines,
         NEW type \in {"TAKEN", "SERVED"}, IrqEvent(type, v), mode # "diverged"
  PROVE  NoEvent \/ (mode = "record" /\ \E e \in TapeRecords : ~Kept(e) /\ Log(e))
<1>1. Record(type, v) \in TapeRecords
  BY VectorAssumption DEF Record, TapeRecords, Records, TwinTypes, CpuTypes
<1>2. ~Kept(Record(type, v))
  BY DEF Kept, Record, Followable
<1>3. mode \in {"record", "replay"}
  BY DEF TwinTypes, TapeTypes
<1> QED
  BY <1>1, <1>2, <1>3 DEF IrqEvent, Replaying, Followable

LEMMA LineIrq ==
  ASSUME Followable, TwinTypes, NEW v \in Lines,
         NEW type \in {"TAKEN", "SERVED"}, IrqEvent(type, v), mode # "diverged"
  PROVE  Record(type, v) \in TapeRecords /\ Emits(Record(type, v))
<1>1. v \in Vectors
  BY NoZero
<1>2. Record(type, v) \in TapeRecords
  BY <1>1, VectorAssumption DEF Record, TapeRecords, Records, TwinTypes, CpuTypes
<1> QED
  BY <1>2 DEF IrqEvent, Replaying, Followable, Emits

LEMMA CpuCases ==
  ASSUME Followable, TwinTypes, Cpu
  PROVE  /\ others' = others /\ irqs' = irqs /\ icount' >= icount
         /\ \/ Quiet /\ nvic' \cap Lines = nvic \cap Lines
            \/ AccessStep /\ nvic' = nvic
            \/ ReturnStep /\ nvic' = nvic
            \/ \E v \in Lines : TakeStep(v)
<1>0. mode # "diverged" /\ others' = others /\ irqs' = irqs /\ icount' >= icount
  BY DEF Cpu, Execute, Idle, TakeIrq, ReturnIrq, TwinTypes, CpuTypes, raised
<1>1. CASE Execute
  <2>1. nvic' = nvic
    BY <1>1 DEF Execute
  <2>2. CASE Instruction # "mmio"
    <3>1. NoEvent
      BY <1>1, <2>2 DEF Execute
    <3>2. \A p \in Views : \A run : OnView(p, run) => OnView(p, run)'
      BY <1>1, <2>2, QuietExecute
    <3> QED
      BY <1>0, <2>1, <3>1, <3>2 DEF Quiet
  <2>3. CASE Instruction = "mmio"
    <3>1. stack = <<>> \/ Last(stack)[1] \in Lines
      <4> SUFFICES ASSUME stack # <<>>, Last(stack)[1] \notin Lines PROVE FALSE
        OBVIOUS
      <4> DEFINE v == Last(stack)[1]
                 q == Last(stack)[2]
      <4>1. v \in Vectors /\ q \in Nat
        BY TopFrame DEF TwinTypes, CpuTypes
      <4>2. q < Len(Handler[v]) /\ Handler[v][q + 1] = "mmio"
        BY <1>1, <2>3 DEF Execute, At, Program, InHandler, Instruction
      <4> HIDE DEF q
      <4>3. q + 1 \in 1 .. Len(Handler[v])
        BY <4>1, <4>2, ProgramsAre
      <4>4. v \in Others
        BY <4>1 DEF Vectors
      <4> QED
        BY <4>2, <4>3, <4>4 DEF Followable
    <3>2. AccessedRegister \in Nat
      <4>1. CASE stack = <<>>
        BY <4>1 DEF AccessedRegister, At, InHandler, TwinTypes, CpuTypes
      <4>2. CASE stack # <<>>
        <5>1. Last(stack)[1] \in Nat /\ Last(stack)[2] \in Nat
          BY <4>2, TopFrame, VectorAssumption DEF TwinTypes, CpuTypes
        <5> QED
          BY <4>2, <5>1 DEF AccessedRegister, At, InHandler
      <4> QED
        BY <4>1, <4>2
    <3>3. Record("MMIO", AccessedRegister) \in TapeRecords
      BY <3>2 DEF Record, TapeRecords, Records, TwinTypes, CpuTypes
    <3>4. Emits(Record("MMIO", AccessedRegister))
      BY <1>1, <2>3 DEF Execute, Access, Replaying, Emits
    <3> QED
      BY <1>0, <1>1, <2>1, <2>3, <3>1, <3>3, <3>4 DEF AccessStep
  <2> QED
    BY <1>0, <2>2, <2>3
<1>2. CASE Idle
  <2>1. NoEvent /\ nvic' = nvic
    BY <1>2 DEF Idle, NoEvent
  <2> QED
    BY <1>0, <1>2, <2>1, QuietIdle DEF Quiet
<1>3. ASSUME NEW v \in Vectors, TakeIrq(v)
      PROVE  \/ Quiet /\ nvic' \cap Lines = nvic \cap Lines
             \/ \E w \in Lines : TakeStep(w)
  <2>1. nvic' = nvic \ {v} /\ v \in nvic /\ IrqEvent("TAKEN", v)
    BY <1>3 DEF TakeIrq, CanTake
  <2>2. CASE v \in Lines
    BY <1>0, <1>3, <2>1, <2>2, LineIrq DEF TakeStep
  <2>3. CASE v \notin Lines
    <3>1. nvic' \cap Lines = nvic \cap Lines
      BY <2>1, <2>3
    <3>2. NoEvent \/ (mode = "record" /\ \E e \in TapeRecords : ~Kept(e) /\ Log(e))
      BY <1>0, <2>1, <2>3, QuietIrq
    <3>3. \A p \in Views : \A run : OnView(p, run) => OnView(p, run)'
      BY <1>3, <2>3, QuietTake
    <3> QED
      BY <3>1, <3>2, <3>3 DEF Quiet
  <2> QED
    BY <2>2, <2>3
<1>4. CASE ReturnIrq
  <2> DEFINE v == Last(stack)[1]
  <2>1. nvic' = nvic /\ IrqEvent("SERVED", v)
    BY <1>4 DEF ReturnIrq
  <2>2. v \in Vectors
    BY <1>4, TopFrame DEF ReturnIrq, InHandler, TwinTypes, CpuTypes
  <2>3. CASE v \in Lines
    BY <1>0, <1>4, <2>1, <2>3, LineIrq DEF ReturnStep
  <2>4. CASE v \notin Lines
    <3>2. NoEvent \/ (mode = "record" /\ \E e \in TapeRecords : ~Kept(e) /\ Log(e))
      BY <1>0, <2>1, <2>2, <2>4, QuietIrq
    <3>3. \A p \in Views : \A run : OnView(p, run) => OnView(p, run)'
      BY <1>4, <2>4, QuietReturn
    <3> QED
      BY <1>0, <2>1, <3>2, <3>3 DEF Quiet
  <2> QED
    BY <1>0, <2>3, <2>4
<1> QED
  BY <1>0, <1>1, <1>2, <1>3, <1>4 DEF Cpu
\* Adding to what is pending, or an interrupt of Others, leaves every view alone.
LEMMA RaiseKeepsView ==
  ASSUME NEW p \in Views, NEW run, OnView(p, run), UNCHANGED <<pc, stack, icount>>,
         others' # 0 \/ (others' = others /\ nvic' \subseteq nvic \cup Lines)
  PROVE  OnView(p, run)'
<1>1. PICK m \in Nat, r \in [Nat -> Nat] :
        /\ IsPlace(m, pc) /\ Tracks(p, m, stack, r)
        /\ others = 0 =>
             /\ nvic \subseteq Lines
             /\ \E b \in [Nat -> Nat] : Counts(p, m, stack, r, b, icount, run)
  BY DEF OnView
<1>2. others' = 0 => /\ nvic' \subseteq Lines
                     /\ \E b \in [Nat -> Nat] : Counts(p, m, stack, r, b, icount', run)
  BY <1>1
<1> QED
  BY <1>1, <1>2 DEF OnView

\* A new view for a new record, in the recorded run.
LEMMA RecordsOne ==
  ASSUME TwinTypes, Recorded, mode = "record", mode' = "record", others' = others,
         NEW e \in TapeRecords, Log(e), Kept(e),
         \A p \in Views : OnView(p, "record") =>
           \E t \in Views : /\ Event(p, e, t) /\ OnView(t, "record")'
                            /\ others = 0 => Due(p, e, t)
  PROVE  Recorded'
<1>1. PICK out \in Seq(TapeRecords), path \in [Nat -> Views] :
        /\ Makes(tape, out) /\ IsPath(path, out)
        /\ others = 0 => AllDue(path, out)
        /\ OnView(path[Len(out)], "record")
  BY DEF Recorded
<1>2. path[Len(out)] \in Views
  BY <1>1
<1>3. PICK t \in Views : /\ Event(path[Len(out)], e, t) /\ OnView(t, "record")'
                         /\ others = 0 => Due(path[Len(out)], e, t)
  BY <1>1, <1>2
<1>4. PICK more : /\ IsPath(more, Append(out, e)) /\ more[Len(Append(out, e))] = t
                  /\ AllDue(path, out) /\ Due(path[Len(out)], e, t) =>
                       AllDue(more, Append(out, e))
  BY <1>1, <1>3, PathGrows
<1> DEFINE new == Append(out, e)
<1>5. new \in Seq(TapeRecords)
  BY <1>1, StackPush
<1>6. Makes(tape', new)
  <2>1. tape' = Append(tape, e) /\ tape \in Seq(TapeRecords)
    BY DEF Log, TwinTypes, TapeTypes
  <2> QED
    BY <1>1, <2>1, MakesMore
<1>7. IsPath(more, new) /\ more \in [Nat -> Views] /\ more[Len(new)] = t
  BY <1>4 DEF IsPath
<1>8. others' = 0 => AllDue(more, new)
  BY <1>1, <1>3, <1>4
<1> HIDE DEF new
<1>9. OnView(more[Len(new)], "record")'
  <2>1. OnView(t, "record")'
    BY <1>3
  <2> QED
    BY <1>7, <2>1
<1> QED
  BY <1>5, <1>6, <1>7, <1>8, <1>9 DEF Recorded

LEMMA RecordedStep ==
  ASSUME Followable, TwinTypes, Recorded, [TwinNext]_twinVars
  PROVE  Recorded'
<1> SUFFICES ASSUME mode' = "record" PROVE Recorded'
  BY DEF Recorded
<1>1. CASE Cpu
  <2>1. /\ others' = others
        /\ \/ Quiet
           \/ AccessStep
           \/ ReturnStep
           \/ \E v \in Lines : TakeStep(v)
    BY <1>1, CpuCases
  <2>2. mode = "record"
    BY <1>1 DEF Cpu, Execute, Idle, TakeIrq, ReturnIrq, NoEvent, Access, IrqEvent, Log, Replay,
                Replaying
  <2>3. CASE Quiet
    <3>1. PICK out \in Seq(TapeRecords), path \in [Nat -> Views] :
            /\ Makes(tape, out) /\ IsPath(path, out)
            /\ others = 0 => AllDue(path, out)
            /\ OnView(path[Len(out)], "record")
      BY <2>2 DEF Recorded
    <3>2. path[Len(out)] \in Views
      BY <3>1
    <3>3. OnView(path[Len(out)], "record")'
      BY <2>3, <3>1, <3>2 DEF Quiet
    <3>4. Makes(tape', out)
      <4>1. CASE NoEvent
        BY <3>1, <4>1 DEF NoEvent
      <4>2. ASSUME NEW e \in TapeRecords, ~Kept(e), Log(e)
            PROVE  Makes(tape', out)
        <5>1. tape' = Append(tape, e) /\ tape \in Seq(TapeRecords)
          BY <4>2 DEF Log, TwinTypes, TapeTypes
        <5> QED
          BY <3>1, <4>2, <5>1, MakesMore
      <4> QED
        BY <2>3, <4>1, <4>2 DEF Quiet
    <3> QED
      BY <2>1, <3>1, <3>3, <3>4 DEF Recorded
  <2>4. CASE AccessStep
    <3> DEFINE e == Record("MMIO", AccessedRegister)
    <3>1. e \in TapeRecords /\ Log(e) /\ Kept(e)
      BY <2>2, <2>4 DEF AccessStep, Emits, Kept, Record
    <3>2. ASSUME NEW p \in Views, OnView(p, "record")
          PROVE  \E t \in Views : /\ Event(p, e, t) /\ OnView(t, "record")'
                                  /\ others = 0 => Due(p, e, t)
      <4>1. PICK t \in Views : Event(p, e, t)
        BY <2>4, <3>2, AccessView DEF AccessStep
      <4>2. e.type = "MMIO"
        BY DEF Record
      <4>3. OnView(t, "record")'
        BY <2>4, <3>2, <4>1, <4>2, AccessView DEF AccessStep
      <4>4. Due(p, e, t)
        BY <4>2 DEF Due
      <4> QED
        BY <4>1, <4>3, <4>4
    <3> HIDE DEF e
    <3> QED
      BY <2>1, <2>2, <3>1, <3>2, RecordsOne
  <2>5. CASE ReturnStep
    <3> DEFINE e == Record("SERVED", Last(stack)[1])
    <3>1. e \in TapeRecords /\ Log(e) /\ Kept(e)
      BY <2>2, <2>5 DEF ReturnStep, Emits, Kept, Record, Followable
    <3>2. ASSUME NEW p \in Views, OnView(p, "record")
          PROVE  \E t \in Views : /\ Event(p, e, t) /\ OnView(t, "record")'
                                  /\ others = 0 => Due(p, e, t)
      <4>1. PICK t \in Views : Event(p, e, t)
        BY <2>5, <3>2, ReturnView DEF ReturnStep
      <4>2. e.type = "SERVED"
        BY DEF Record
      <4>3. OnView(t, "record")'
        BY <2>5, <3>2, <4>1, <4>2, ReturnView DEF ReturnStep
      <4>4. Due(p, e, t)
        BY <4>2 DEF Due
      <4> QED
        BY <4>1, <4>3, <4>4
    <3> HIDE DEF e
    <3> QED
      BY <2>1, <2>2, <3>1, <3>2, RecordsOne
  <2>6. ASSUME NEW v \in Lines, TakeStep(v)
        PROVE  Recorded'
    <3> DEFINE e == Record("TAKEN", v)
    <3>1. e \in TapeRecords /\ Log(e) /\ Kept(e)
      BY <2>2, <2>6 DEF TakeStep, Emits, Kept, Record, Followable
    <3>2. ASSUME NEW p \in Views, OnView(p, "record")
          PROVE  \E t \in Views : /\ Event(p, e, t) /\ OnView(t, "record")'
                                  /\ others = 0 => Due(p, e, t)
      BY <2>6, <3>2, TakeRecords DEF TakeStep
    <3> HIDE DEF e
    <3> QED
      BY <2>1, <2>2, <3>1, <3>2, RecordsOne
  <2> QED
    BY <2>1, <2>3, <2>4, <2>5, <2>6
<1>2. ASSUME UNCHANGED <<mode, tape, pc, stack, icount>>,
             others' # 0 \/ (others' = others /\ nvic' \subseteq nvic \cup Lines),
             others = 0 \/ others' # 0
      PROVE  Recorded'
  <2>1. PICK out \in Seq(TapeRecords), path \in [Nat -> Views] :
          /\ Makes(tape, out) /\ IsPath(path, out)
          /\ others = 0 => AllDue(path, out)
          /\ OnView(path[Len(out)], "record")
    BY <1>2 DEF Recorded
  <2>2. path[Len(out)] \in Views
    BY <2>1
  <2>3. OnView(path[Len(out)], "record")'
    BY <1>2, <2>1, <2>2, RaiseKeepsView
  <2>4. Makes(tape', out)
    BY <1>2, <2>1
  <2>5. others' = 0 => AllDue(path, out)
    BY <1>2, <2>1
  <2> QED
    BY <2>1, <2>3, <2>4, <2>5 DEF Recorded
<1>3. ASSUME NEW v \in Lines, HardwareIrq(v)
      PROVE  Recorded'
  BY <1>2, <1>3 DEF HardwareIrq, cpu
<1>4. ASSUME NEW v \in Others, OtherIrq(v)
      PROVE  Recorded'
  <2>1. others' = others + 1 /\ others \in Nat
    BY <1>4 DEF OtherIrq, TwinTypes, CpuTypes
  <2>2. others' # 0
    BY <2>1
  <2> QED
    BY <1>2, <1>4, <2>2 DEF OtherIrq, cpu
<1>5. CASE Convert
  BY <1>5 DEF Convert
<1>6. CASE Thread
  <2>1. mode = "record" /\ thread = "off"
    BY <1>6 DEF Thread, Look, Time, Confirm, Raise, Settle, ThreadTo, TwinTypes, TapeTypes
  <2> QED
    BY <1>6, <2>1 DEF Thread, Look, Time, Confirm, Raise, Settle
<1>7. CASE UNCHANGED twinVars
  BY <1>2, <1>7 DEF twinVars, cpu, raised
<1> QED
  BY <1>1, <1>3, <1>4, <1>5, <1>6, <1>7 DEF TwinNext, Over
-----------------------------------------------------------------------------
(* TwintraceReplay: the replay goes along the tape.                         *)

LEMMA StartsThere ==
  ASSUME NEW p \in Views, p.d = 0, p.done = 0, p.f[0] = [vec |-> 0, at |-> 0, base |-> 0]
  PROVE  \E r \in [Nat -> Nat] :
           /\ Tracks(p, 0, <<>>, r)
           /\ \A run : \E b \in [Nat -> Nat] : Counts(p, 0, <<>>, r, b, 0, run)
<1> DEFINE r == [i \in Nat |-> 0]
<1>1. r \in [Nat -> Nat] /\ r[0] = 0 /\ Len(<<>>) = 0
  OBVIOUS
<1>2. p.f[0].vec = 0 /\ p.f[0].at = 0 /\ p.f[0].base = 0
  OBVIOUS
<1>3. Same(0, 0, 0)
  BY SameHere
<1>4. \A i, j \in 0 .. 0 : i <= j => r[i] <= r[j]
  BY <1>1
<1>5. 0 = 0 + 0
  OBVIOUS
<1> HIDE DEF r
<1>6. Tracks(p, 0, <<>>, r)
  BY <1>1, <1>2, <1>3, <1>4 DEF Tracks
<1>7. ASSUME NEW run
      PROVE  Counts(p, 0, <<>>, r, r, 0, run)
  BY <1>1, <1>2, <1>5 DEF Counts
<1> QED
  BY <1>1, <1>6, <1>7

\* The record the replay expects is the event of its view.
LEMMA ExpectedEvent ==
  ASSUME NEW out \in Seq(TapeRecords), NEW path \in [Nat -> Views], NEW k \in 0 .. Len(out),
         out = tape, k = idx, IsPath(path, out), ~Exhausted
  PROVE  /\ k + 1 \in 0 .. Len(out) /\ path[k] \in Views /\ path[k + 1] \in Views
         /\ Event(path[k], Expected, path[k + 1])
         /\ AllDue(path, out) => Due(path[k], Expected, path[k + 1])
<1>1. k < Len(out) /\ k \in Nat /\ Len(out) \in Nat /\ Expected = out[k + 1]
  BY DEF Exhausted, Expected
<1>2. k + 1 \in 1 .. Len(out) /\ (k + 1) - 1 = k /\ k + 1 \in Nat /\ k + 1 \in 0 .. Len(out)
  BY <1>1
<1>3. Event(path[k], out[k + 1], path[k + 1])
  <2>1. \A j \in 1 .. Len(out) : Event(path[j - 1], out[j], path[j])
    BY DEF IsPath
  <2>2. Event(path[(k + 1) - 1], out[k + 1], path[k + 1])
    BY <1>2, <2>1
  <2> QED
    BY <1>2, <2>2
<1>4. AllDue(path, out) => Due(path[k], out[k + 1], path[k + 1])
  <2>1. AllDue(path, out) => Due(path[(k + 1) - 1], out[k + 1], path[k + 1])
    BY <1>2 DEF AllDue
  <2> QED
    BY <1>2, <2>1
<1> QED
  BY <1>1, <1>2, <1>3, <1>4

\* An access or a return of the replay is the next record, unless that is an
\* interrupt, which is then late.
LEMMA ReplaysOne ==
  ASSUME TwinTypes, Replayed, mode = "replay", others' = others,
         NEW e \in TapeRecords, Replay(e),
         \A p \in Views : OnView(p, "replay") =>
           /\ ~Finishes(p)
           /\ \A x : \A t \in Views : Event(p, x, t) =>
                /\ x.type \in {e.type, "TAKEN"}
                /\ x.type = e.type => x.addr = e.addr /\ OnView(t, "replay")'
                /\ x.type = "TAKEN" /\ others = 0 /\ Due(p, x, t) => icount >= x.icount
  PROVE  /\ Replayed'
         /\ mode' = "diverged" =>
              Awaits("TAKEN") /\ (others = 0 => icount >= Expected.icount)
<1>1. PICK out \in Seq(TapeRecords), path \in [Nat -> Views] : \E k \in 0 .. Len(out) :
        /\ out = tape /\ k = idx /\ IsPath(path, out)
        /\ others = 0 => AllDue(path, out)
        /\ Finishes(path[Len(out)]) /\ OnView(path[k], "replay")
  BY DEF Replayed
<1>2. PICK k \in 0 .. Len(out) :
        /\ out = tape /\ k = idx /\ IsPath(path, out)
        /\ others = 0 => AllDue(path, out)
        /\ Finishes(path[Len(out)]) /\ OnView(path[k], "replay")
  BY <1>1
<1>3. path[k] \in Views
  BY <1>2
<1>4. ~Exhausted
  <2>1. ~Finishes(path[k])
    BY <1>2, <1>3
  <2>2. k # Len(out)
    BY <1>2, <2>1
  <2> QED
    BY <1>2, <2>2 DEF Exhausted
<1>5. /\ k + 1 \in 0 .. Len(out) /\ path[k + 1] \in Views
      /\ Event(path[k], Expected, path[k + 1])
      /\ AllDue(path, out) => Due(path[k], Expected, path[k + 1])
  BY <1>2, <1>4, ExpectedEvent
<1>6. /\ Expected.type \in {e.type, "TAKEN"}
      /\ Expected.type = e.type => Expected.addr = e.addr /\ OnView(path[k + 1], "replay")'
      /\ Expected.type = "TAKEN" /\ others = 0 /\ Due(path[k], Expected, path[k + 1]) =>
           icount >= Expected.icount
  BY <1>2, <1>3, <1>5
<1>7. CASE Expected.type = e.type
  <2>1. idx' = idx + 1 /\ mode' = mode /\ tape' = tape
    BY <1>4, <1>6, <1>7 DEF Replay, Awaits
  <2> DEFINE j == k + 1
  <2>2. j \in 0 .. Len(out) /\ j = idx' /\ out = tape'
    BY <1>2, <1>5, <2>1
  <2>3. OnView(path[j], "replay")'
    BY <1>6, <1>7
  <2> HIDE DEF j
  <2>4. Replayed'
    BY <1>2, <2>2, <2>3 DEF Replayed
  <2> QED
    BY <2>1, <2>4
<1>8. CASE Expected.type # e.type
  <2>1. mode' = "diverged"
    BY <1>4, <1>8 DEF Replay, Awaits
  <2>2. Awaits("TAKEN") /\ Expected.type = "TAKEN"
    BY <1>4, <1>6, <1>8 DEF Awaits
  <2>3. others = 0 => icount >= Expected.icount
    BY <1>2, <1>5, <1>6, <2>2
  <2> QED
    BY <2>1, <2>2, <2>3 DEF Replayed
<1> QED
  BY <1>7, <1>8

LEMMA CpuReplays ==
  ASSUME Followable, Follows, mode = "replay", Cpu
  PROVE  /\ Replayed'
         /\ mode' = "diverged" =>
              Awaits("TAKEN") /\ (others = 0 => icount >= Expected.icount)
<1> USE DEF Follows
<1>1. /\ others' = others
      /\ \/ Quiet
         \/ AccessStep
         \/ ReturnStep
         \/ \E v \in Lines : TakeStep(v)
  BY CpuCases
<1>2. CASE Quiet
  <2>1. PICK out \in Seq(TapeRecords), path \in [Nat -> Views] : \E k \in 0 .. Len(out) :
          /\ out = tape /\ k = idx /\ IsPath(path, out)
          /\ others = 0 => AllDue(path, out)
          /\ Finishes(path[Len(out)]) /\ OnView(path[k], "replay")
    BY DEF Replayed
  <2>2. PICK k \in 0 .. Len(out) :
          /\ out = tape /\ k = idx /\ IsPath(path, out)
          /\ others = 0 => AllDue(path, out)
          /\ Finishes(path[Len(out)]) /\ OnView(path[k], "replay")
    BY <2>1
  <2>3. path[k] \in Views
    BY <2>2
  <2>4. OnView(path[k], "replay")'
    BY <1>2, <2>2, <2>3 DEF Quiet
  <2>5. UNCHANGED <<mode, tape, idx>>
    BY <1>2 DEF Quiet, NoEvent
  <2> QED
    BY <1>1, <2>2, <2>4, <2>5 DEF Replayed
<1>3. CASE AccessStep
  <2> DEFINE e == Record("MMIO", AccessedRegister)
  <2>1. e \in TapeRecords /\ Replay(e) /\ e.type = "MMIO" /\ e.addr = AccessedRegister
    BY <1>3 DEF AccessStep, Emits, Record
  <2>2. ASSUME NEW p \in Views, OnView(p, "replay")
        PROVE  /\ ~Finishes(p)
               /\ \A x : \A t \in Views : Event(p, x, t) =>
                    /\ x.type \in {e.type, "TAKEN"}
                    /\ x.type = e.type => x.addr = e.addr /\ OnView(t, "replay")'
                    /\ x.type = "TAKEN" /\ others = 0 /\ Due(p, x, t) => icount >= x.icount
    <3> HIDE DEF e
    <3> QED
      BY <1>3, <2>1, <2>2, AccessView DEF AccessStep
  <2> HIDE DEF e
  <2> QED
    BY <1>1, <2>1, <2>2, ReplaysOne
<1>4. CASE ReturnStep
  <2> DEFINE e == Record("SERVED", Last(stack)[1])
  <2>1. e \in TapeRecords /\ Replay(e) /\ e.type = "SERVED" /\ e.addr = Last(stack)[1]
    BY <1>4 DEF ReturnStep, Emits, Record
  <2>2. ASSUME NEW p \in Views, OnView(p, "replay")
        PROVE  /\ ~Finishes(p)
               /\ \A x : \A t \in Views : Event(p, x, t) =>
                    /\ x.type \in {e.type, "TAKEN"}
                    /\ x.type = e.type => x.addr = e.addr /\ OnView(t, "replay")'
                    /\ x.type = "TAKEN" /\ others = 0 /\ Due(p, x, t) => icount >= x.icount
    <3> HIDE DEF e
    <3> QED
      BY <1>4, <2>1, <2>2, ReturnView DEF ReturnStep
  <2> HIDE DEF e
  <2> QED
    BY <1>1, <2>1, <2>2, ReplaysOne
<1>5. ASSUME NEW v \in Lines, TakeStep(v)
      PROVE  Replayed' /\ mode' = mode
  <2> DEFINE e == Record("TAKEN", v)
  <2>1. v \in nvic \cap Lines /\ Replay(e) /\ TakeIrq(v)
    BY <1>5 DEF TakeStep, Emits
  <2>2. e.type = "TAKEN" /\ e.addr = v
    BY DEF Record
  <2>3. Awaits("TAKEN") /\ Expected.addr = v /\ icount >= Expected.icount
    BY <2>1 DEF Raises
  <2>4. ~Exhausted /\ Expected.type = "TAKEN"
    BY <2>3 DEF Awaits
  <2>5. idx' = idx + 1 /\ mode' = mode /\ tape' = tape
    BY <2>1, <2>2, <2>3 DEF Replay
  <2>6. PICK out \in Seq(TapeRecords), path \in [Nat -> Views] : \E k \in 0 .. Len(out) :
          /\ out = tape /\ k = idx /\ IsPath(path, out)
          /\ others = 0 => AllDue(path, out)
          /\ Finishes(path[Len(out)]) /\ OnView(path[k], "replay")
    BY DEF Replayed
  <2>7. PICK k \in 0 .. Len(out) :
          /\ out = tape /\ k = idx /\ IsPath(path, out)
          /\ others = 0 => AllDue(path, out)
          /\ Finishes(path[Len(out)]) /\ OnView(path[k], "replay")
    BY <2>6
  <2>8. /\ k + 1 \in 0 .. Len(out) /\ path[k] \in Views /\ path[k + 1] \in Views
        /\ Event(path[k], Expected, path[k + 1])
        /\ AllDue(path, out) => Due(path[k], Expected, path[k + 1])
    BY <2>4, <2>7, ExpectedEvent
  <2> DEFINE j == k + 1
             p == path[k]
             t == path[j]
  <2>9. /\ j \in 0 .. Len(out) /\ j = idx' /\ out = tape'
        /\ p \in Views /\ t \in Views /\ OnView(p, "replay") /\ Event(p, Expected, t)
        /\ others = 0 => Due(p, Expected, t) /\ icount >= Expected.icount
    BY <2>3, <2>5, <2>7, <2>8
  <2>10. OnView(t, "replay")'
    <3> HIDE DEF p, t, j
    <3>1. "replay" # "record"
      OBVIOUS
    <3> DEFINE x == Expected
    <3>2. /\ Event(p, x, t) /\ x.type = "TAKEN" /\ x.addr = v
          /\ others = 0 => Due(p, x, t) /\ icount >= x.icount
      BY <2>3, <2>4, <2>9
    <3> HIDE DEF x
    <3> QED
      BY <2>1, <2>9, <3>1, <3>2, TakeReplays
  <2>11. others' = 0 => AllDue(path, out)
    BY <1>1, <2>7
  <2> HIDE DEF j, p, e
  <2>12. OnView(path[j], "replay")'
    BY <2>10
  <2> QED
    BY <2>5, <2>7, <2>9, <2>11, <2>12 DEF Replayed
<1> QED
  BY <1>1, <1>2, <1>3, <1>4, <1>5 DEF Quiet, NoEvent

\* The replay begins at the first view, and the tape ends where the recorded run did.
LEMMA ConvertReplays ==
  ASSUME Followable, Follows, Convert
  PROVE  Replayed'
<1> USE DEF Follows
<1>1. /\ mode = "record" /\ stack = <<>> /\ pc = Len(Main) /\ nvic = {}
      /\ tape' = Filtered(tape) /\ pc' = 0 /\ icount' = 0 /\ idx' = 0
      /\ UNCHANGED <<stack, nvic, others>>
  BY DEF Convert, Finished, InHandler, raised
<1>2. PICK out \in Seq(TapeRecords), path \in [Nat -> Views] :
        /\ Makes(tape, out) /\ IsPath(path, out)
        /\ others = 0 => AllDue(path, out)
        /\ OnView(path[Len(out)], "record")
  BY <1>1 DEF Recorded
<1>3. tape' = out /\ Len(out) \in Nat
  BY <1>1, <1>2, MakesFiltered
<1> DEFINE p == path[Len(out)]
<1>4. p \in Views
  BY <1>2, <1>3
<1>5. Finishes(p)
  <2>1. PICK m \in Nat, r \in [Nat -> Nat] : IsPlace(m, pc) /\ Tracks(p, m, stack, r)
    BY <1>2 DEF OnView
  <2> DEFINE k == Len(Main)
             a == p.f[0].at
  <2>2. k \in Nat /\ a \in Nat /\ k = Len(Prog(0))
    BY <1>4, ProgramsAre, ViewsAre DEF Prog
  <2>3. p.d = 0 /\ Same(0, a, m)
    BY <1>1, <2>1 DEF Tracks
  <2>4. k <= m
    <3>1. k = IF m <= k THEN m ELSE k
      BY <1>1, <2>1 DEF IsPlace
    <3> HIDE DEF k
    <3> QED
      BY <2>2, <3>1
  <2> HIDE DEF k, a
  <2>5. Same(0, k, m)
    <3>1. Len(Prog(0)) \in Nat /\ Len(Prog(0)) <= m
      BY <2>2, <2>4
    <3>2. Same(0, Len(Prog(0)), m)
      BY <3>1, NoneLeft
    <3> QED
      BY <2>2, <3>2
  <2>6. Same(0, m, k)
    BY <2>5, SameTurns
  <2>7. Same(0, a, k)
    BY <2>2, <2>3, <2>6, SameJoins
  <2> QED
    BY <2>3, <2>7 DEF Finishes, k, a
<1> HIDE DEF p
<1>6. OnView(path[0], "replay")'
  <2> DEFINE o == path[0]
  <2>1. o \in Views /\ o.d = 0 /\ o.done = 0 /\ o.f[0] = [vec |-> 0, at |-> 0, base |-> 0]
    BY <1>2 DEF IsPath
  <2> HIDE DEF o
  <2>2. PICK r \in [Nat -> Nat] :
          /\ Tracks(o, 0, <<>>, r)
          /\ \A run : \E b \in [Nat -> Nat] : Counts(o, 0, <<>>, r, b, 0, run)
    BY <2>1, StartsThere
  <2>3. IsPlace(0, pc') /\ stack' = <<>> /\ icount' = 0 /\ nvic' \subseteq Lines
    BY <1>1, ProgramsAre DEF IsPlace
  <2>4. \E b \in [Nat -> Nat] : Counts(o, 0, <<>>, r, b, 0, "replay")
    BY <2>2
  <2>5. OnView(o, "replay")'
    BY <2>2, <2>3, <2>4 DEF OnView
  <2> QED
    BY <2>5 DEF o
<1>7. 0 \in 0 .. Len(out)
  BY <1>3
<1> QED
  BY <1>1, <1>2, <1>3, <1>5, <1>6, <1>7 DEF Replayed, p
LEMMA ReplayedStep ==
  ASSUME Followable, Follows, [TwinNext]_twinVars
  PROVE  Replayed'
<1> USE DEF Follows
<1> SUFFICES ASSUME mode' = "replay" PROVE Replayed'
  BY DEF Replayed
<1>1. CASE Cpu
  <2>1. mode = "replay"
    BY <1>1 DEF Cpu, Execute, Idle, TakeIrq, ReturnIrq, NoEvent, Access, IrqEvent, Log, Replay,
                Replaying, TwinTypes, TapeTypes
  <2> QED
    BY <1>1, <2>1, CpuReplays
<1>2. CASE Convert
  BY <1>2, ConvertReplays
<1>3. ASSUME UNCHANGED <<mode, tape, idx, pc, stack, icount>>,
             others' # 0 \/ (others' = others /\ nvic' \subseteq nvic \cup Lines)
      PROVE  Replayed'
  <2>1. PICK out \in Seq(TapeRecords), path \in [Nat -> Views] : \E k \in 0 .. Len(out) :
          /\ out = tape /\ k = idx /\ IsPath(path, out)
          /\ others = 0 => AllDue(path, out)
          /\ Finishes(path[Len(out)]) /\ OnView(path[k], "replay")
    BY <1>3 DEF Replayed
  <2>2. PICK k \in 0 .. Len(out) :
          /\ out = tape /\ k = idx /\ IsPath(path, out)
          /\ others = 0 => AllDue(path, out)
          /\ Finishes(path[Len(out)]) /\ OnView(path[k], "replay")
    BY <2>1
  <2>3. path[k] \in Views
    BY <2>2
  <2>4. OnView(path[k], "replay")'
    BY <1>3, <2>2, <2>3, RaiseKeepsView
  <2>5. others' = 0 => AllDue(path, out)
    BY <1>3, <2>2
  <2> QED
    BY <1>3, <2>2, <2>4, <2>5 DEF Replayed
<1>4. ASSUME NEW v \in Lines, HardwareIrq(v)
      PROVE  Replayed'
  BY <1>4 DEF HardwareIrq
<1>5. ASSUME NEW v \in Others, OtherIrq(v)
      PROVE  Replayed'
  <2>1. others' = others + 1 /\ others \in Nat
    BY <1>5 DEF OtherIrq, TwinTypes, CpuTypes
  <2>2. others' # 0
    BY <2>1
  <2> QED
    BY <1>3, <1>5, <2>2 DEF OtherIrq, cpu
<1>6. CASE Thread
  <2>1. UNCHANGED <<mode, tape, idx, pc, stack, icount, others>>
    BY <1>6 DEF Thread, Look, Time, Confirm, Raise, Settle, ThreadTo, cpu, raised
  <2>2. CASE Raise
    <3>1. thread = "raise" /\ nvic' = nvic \cup {RaisedVector} /\ mode = "replay"
      BY <2>1, <2>2 DEF Raise
    <3>2. e_idx = idx /\ Awaits("TAKEN")
      BY <3>1 DEF Raises
    <3>3. PICK out \in Seq(TapeRecords), path \in [Nat -> Views] : \E k \in 0 .. Len(out) :
            out = tape /\ k = idx /\ IsPath(path, out)
      BY <3>1 DEF Replayed
    <3>4. PICK k \in 0 .. Len(out) : out = tape /\ k = idx /\ IsPath(path, out)
      BY <3>3
    <3>5. ~Exhausted /\ Expected.type = "TAKEN" /\ RaisedVector = Expected.addr
      BY <3>2 DEF Awaits, RaisedVector, Expected
    <3>6. Event(path[k], Expected, path[k + 1]) /\ path[k] \in Views /\ path[k + 1] \in Views
      BY <3>4, <3>5, ExpectedEvent
    <3>7. RaisedVector \in Lines
      BY <3>5, <3>6, TakenFollows
    <3> QED
      BY <1>3, <2>1, <3>1, <3>7
  <2>3. CASE ~Raise
    <3>1. nvic' = nvic
      BY <1>6, <2>3 DEF Thread, Look, Time, Confirm, Settle, ThreadTo
    <3> QED
      BY <1>3, <2>1, <3>1
  <2> QED
    BY <2>2, <2>3
<1>7. CASE UNCHANGED twinVars
  BY <1>3, <1>7 DEF twinVars, cpu, raised
<1> QED
  BY <1>1, <1>2, <1>4, <1>5, <1>6, <1>7 DEF TwinNext, Over

\* The CPU goes on from the record of a pending interrupt only by taking it.
LEMMA CpuRaises ==
  ASSUME Followable, TwinTypes, Raises, Cpu, mode = "replay", mode' = "replay"
  PROVE  Raises'
<1>0. /\ thread \in Places /\ icount \in Nat /\ icount' \in Nat /\ idx \in Nat
      /\ tape \in Seq(TapeRecords) /\ idx <= Len(tape)
  BY CpuStep DEF TwinTypes, TapeTypes, CpuTypes
<1>1. /\ icount' >= icount
      /\ \/ Quiet /\ nvic' \cap Lines = nvic \cap Lines
         \/ AccessStep /\ nvic' = nvic
         \/ ReturnStep /\ nvic' = nvic
         \/ \E v \in Lines : TakeStep(v)
  BY CpuCases
<1>2. CASE Quiet /\ nvic' \cap Lines = nvic \cap Lines
  <2>1. UNCHANGED <<tape, idx, thread, e_idx>>
    BY <1>2 DEF Quiet, NoEvent
  <2>2. /\ Expected' = Expected /\ (Awaits("TAKEN")' <=> Awaits("TAKEN"))
    BY <2>1 DEF Expected, Awaits, Exhausted
  <2>3. Awaits("TAKEN") => Expected.icount \in Nat
    <3>1. Awaits("TAKEN") => idx < Len(tape)
      BY <1>0 DEF Awaits, Exhausted
    <3>2. Awaits("TAKEN") => Expected \in TapeRecords
      BY <1>0, <3>1 DEF Expected
    <3> QED
      BY <3>2 DEF TapeRecords, Records
  <2>4. Awaits("TAKEN") /\ icount >= Expected.icount => icount' >= Expected.icount
    <3> DEFINE c == Expected.icount
               n == icount'
    <3>1. icount \in Nat /\ n \in Nat /\ n >= icount /\ (Awaits("TAKEN") => c \in Nat)
      BY <1>0, <1>1, <2>3
    <3> HIDE DEF c, n
    <3>2. Awaits("TAKEN") /\ icount >= c => n >= c
      BY <3>1
    <3> QED
      BY <3>2 DEF c, n
  <2> QED
    BY <1>2, <2>1, <2>2, <2>4 DEF Raises
<1>3. ASSUME NEW e, e.type # "TAKEN", Replay(e), nvic' = nvic
      PROVE  Raises'
  <2>1. idx' = idx + 1 /\ Broadcast /\ Awaits(e.type) /\ UNCHANGED <<tape, e_idx>>
    BY <1>3 DEF Replay
  <2>2. ~Awaits("TAKEN")
    BY <1>3, <2>1 DEF Awaits
  <2>3. nvic \cap Lines = {} /\ thread \notin {"time", "confirm", "raise"}
    BY <2>2 DEF Raises
  <2>4. thread' \notin {"time", "confirm", "raise"}
    BY <2>1, <2>3 DEF Broadcast
  <2> QED
    BY <1>3, <2>3, <2>4 DEF Raises
<1>4. CASE AccessStep /\ nvic' = nvic
  <2> DEFINE e == Record("MMIO", AccessedRegister)
  <2>1. e.type # "TAKEN" /\ Replay(e)
    BY <1>4 DEF AccessStep, Emits, Record
  <2> HIDE DEF e
  <2> QED
    BY <1>3, <1>4, <2>1
<1>5. CASE ReturnStep /\ nvic' = nvic
  <2> DEFINE e == Record("SERVED", Last(stack)[1])
  <2>1. e.type # "TAKEN" /\ Replay(e)
    BY <1>5 DEF ReturnStep, Emits, Record
  <2> HIDE DEF e
  <2> QED
    BY <1>3, <1>5, <2>1
<1>6. ASSUME NEW v \in Lines, TakeStep(v)
      PROVE  Raises'
  <2>1. v \in nvic /\ nvic' = nvic \ {v} /\ Replay(Record("TAKEN", v))
    BY <1>6 DEF TakeStep, Emits
  <2>2. nvic \cap Lines = {Expected.addr} /\ thread \in {"settle", "slept"}
    BY <2>1 DEF Raises
  <2>3. nvic' \cap Lines = {}
    BY <2>1, <2>2
  <2>4. Broadcast
    BY <2>1 DEF Replay
  <2>5. thread' \notin {"time", "confirm", "raise"}
    BY <2>2, <2>4 DEF Broadcast
  <2> QED
    BY <2>3, <2>5 DEF Raises
<1> QED
  BY <1>1, <1>2, <1>4, <1>5, <1>6

LEMMA RaisesStep ==
  ASSUME Followable, TwinTypes, Raises, [TwinNext]_twinVars
  PROVE  Raises'
<1> SUFFICES ASSUME mode' = "replay" PROVE Raises'
  BY DEF Raises
<1>1. CASE Cpu
  <2>1. mode = "replay"
    BY <1>1 DEF Cpu, Execute, Idle, TakeIrq, ReturnIrq, NoEvent, Access, IrqEvent, Log, Replay,
                Replaying, TwinTypes, TapeTypes
  <2> QED
    BY <1>1, <2>1, CpuRaises
<1>2. CASE Convert
  <2>1. nvic' = {} /\ thread' = "look"
    BY <1>2 DEF Convert, Finished
  <2> QED
    BY <2>1 DEF Raises
<1>3. ASSUME NEW v \in Others, OtherIrq(v)
      PROVE  Raises'
  <2>1. nvic' \cap Lines = nvic \cap Lines
    BY <1>3 DEF OtherIrq, Followable
  <2>2. UNCHANGED <<mode, tape, idx, icount, thread, e_idx>>
    BY <1>3 DEF OtherIrq, cpu
  <2>3. Expected' = Expected /\ (Awaits("TAKEN")' <=> Awaits("TAKEN"))
    BY <2>2 DEF Expected, Awaits, Exhausted
  <2> QED
    BY <2>1, <2>2, <2>3 DEF Raises
<1>4. ASSUME NEW v \in Lines, HardwareIrq(v)
      PROVE  Raises'
  BY <1>4 DEF HardwareIrq
<1>5. CASE Thread
  <2>1. UNCHANGED <<mode, tape, idx, icount>>
    BY <1>5 DEF Thread, Look, Time, Confirm, Raise, Settle, ThreadTo, cpu
  <2>2. Expected' = Expected /\ (Awaits("TAKEN")' <=> Awaits("TAKEN"))
    BY <2>1 DEF Expected, Awaits, Exhausted
  <2>3. CASE Look
    <3>1. nvic' = nvic /\ nvic \cap Lines = {}
      BY <2>1, <2>3 DEF Look, ThreadTo, Raises
    <3>2. /\ thread' \notin {"confirm", "raise"}
          /\ thread' = "time" => e_idx' = idx /\ Awaits("TAKEN")
      BY <2>3 DEF Look, ThreadTo
    <3> QED
      BY <2>1, <2>2, <3>1, <3>2 DEF Raises
  <2>4. CASE Time
    <3>1. /\ nvic' = nvic /\ nvic \cap Lines = {} /\ e_idx = idx /\ Awaits("TAKEN")
          /\ e_idx' = e_idx
      BY <2>1, <2>4 DEF Time, ThreadTo, Raises, Stay
    <3>2. IsTime /\ thread' = "confirm"
      BY <2>4, <3>1 DEF Time, ThreadTo
    <3>3. icount >= Expected.icount
      BY <3>1, <3>2 DEF IsTime, Expected
    <3> QED
      BY <2>1, <2>2, <3>1, <3>2, <3>3 DEF Raises
  <2>5. CASE Confirm
    <3>1. /\ nvic' = nvic /\ nvic \cap Lines = {} /\ e_idx = idx /\ Awaits("TAKEN")
          /\ e_idx' = e_idx /\ icount >= Expected.icount
      BY <2>1, <2>5 DEF Confirm, ThreadTo, Raises, Stay
    <3>2. thread' = "raise"
      BY <2>5, <3>1 DEF Confirm, ThreadTo
    <3> QED
      BY <2>1, <2>2, <3>1, <3>2 DEF Raises
  <2>6. CASE Raise
    <3>1. /\ nvic \cap Lines = {} /\ e_idx = idx /\ Awaits("TAKEN")
          /\ e_idx' = e_idx /\ icount >= Expected.icount
      BY <2>1, <2>6 DEF Raise, Raises
    <3>2. thread' = "settle" /\ nvic' = nvic \cup {Expected.addr}
      BY <2>6, <3>1 DEF Raise, RaisedVector, Expected
    <3>3. nvic' \cap Lines \subseteq {Expected.addr}
      BY <3>1, <3>2
    <3> QED
      BY <2>1, <2>2, <3>1, <3>2, <3>3 DEF Raises
  <2>7. CASE Settle
    <3>1. nvic' = nvic /\ e_idx' = e_idx /\ thread = "settle"
      BY <2>7 DEF Settle, ThreadTo, Stay
    <3>2. thread' \in {"slept", "look"} /\ (nvic \cap Lines # {} => thread' = "slept")
      BY <2>1, <2>7 DEF Settle, ThreadTo, Raises
    <3> QED
      BY <2>1, <2>2, <3>1, <3>2 DEF Raises
  <2> QED
    BY <1>5, <2>3, <2>4, <2>5, <2>6, <2>7 DEF Thread
<1>6. CASE UNCHANGED twinVars
  <2>1. UNCHANGED <<mode, tape, idx, icount, thread, e_idx, nvic>>
    BY <1>6 DEF twinVars, cpu
  <2>2. Expected' = Expected /\ (Awaits("TAKEN")' <=> Awaits("TAKEN"))
    BY <2>1 DEF Expected, Awaits, Exhausted
  <2> QED
    BY <2>1, <2>2 DEF Raises
<1> QED
  BY <1>1, <1>2, <1>3, <1>4, <1>5, <1>6 DEF TwinNext, Over

LEMMA FollowsInitially == TwinInit => Follows
<1> SUFFICES ASSUME TwinInit PROVE Follows
  OBVIOUS
<1> DEFINE z == [vec |-> 0, at |-> 0, base |-> 0]
           g == [j \in Nat |-> z]
           p == [d |-> 0, f |-> g, done |-> 0]
           path == [k \in Nat |-> p]
<1>1. z \in Threads
  BY DEF Threads
<1>2. g \in [Nat -> Threads] /\ g[0] = z
  <2> HIDE DEF z
  <2> QED
    BY <1>1
<1>3. p \in Views /\ p.d = 0 /\ p.done = 0 /\ p.f = g
  <2> HIDE DEF g
  <2> QED
    BY <1>2 DEF Views
<1>4. p.f[0] = [vec |-> 0, at |-> 0, base |-> 0]
  <2>1. g[0] = [vec |-> 0, at |-> 0, base |-> 0]
    BY <1>2
  <2> HIDE DEF g, p
  <2> QED
    BY <1>3, <2>1
<1> HIDE DEF p
<1>5. path \in [Nat -> Views] /\ path[0] = p
  BY <1>3
<1> HIDE DEF path
<1>6. Len(<<>>) = 0 /\ <<>> \in Seq(TapeRecords) /\ 1 .. 0 = {}
  OBVIOUS
<1>7. IsPath(path, <<>>) /\ AllDue(path, <<>>)
  BY <1>3, <1>4, <1>5, <1>6 DEF IsPath, AllDue
<1>8. OnView(p, "record")
  <2>1. PICK r \in [Nat -> Nat] :
          /\ Tracks(p, 0, <<>>, r)
          /\ \A run : \E b \in [Nat -> Nat] : Counts(p, 0, <<>>, r, b, 0, run)
    BY <1>3, <1>4, StartsThere
  <2>2. IsPlace(0, pc) /\ stack = <<>> /\ icount = 0 /\ nvic = {}
    BY ProgramsAre DEF IsPlace, TwinInit
  <2>3. \E b \in [Nat -> Nat] : Counts(p, 0, <<>>, r, b, 0, "record")
    BY <2>1
  <2> QED
    BY <2>1, <2>2, <2>3 DEF OnView
<1>9. tape = <<>> /\ mode = "record"
  BY DEF TwinInit
<1>10. Recorded
  <2>1. path[Len(<<>>)] = p
    BY <1>5, <1>6
  <2>2. OnView(path[Len(<<>>)], "record")
    BY <1>8, <2>1
  <2> QED
    BY <1>5, <1>6, <1>7, <1>9, <2>2, MakesNothing DEF Recorded
<1> QED
  BY <1>9, <1>10, TwinTypesInitially DEF Follows, Replayed, Raises

\* Along every recording and replay the view of the run is the one of the tape, and
\* the thread raises nothing but the record that is next.
THEOREM FollowsAlways == ASSUME Followable PROVE TwinSpec => []Follows
<1>1. Follows /\ [TwinNext]_twinVars => Follows'
  BY TwinTypesStep, RecordedStep, ReplayedStep, RaisesStep DEF Follows
<1> QED
  BY <1>1, FollowsInitially, PTL DEF TwinSpec

\* What is pending of the traced devices is the record the replay expects: the
\* thread raises no interrupt twice, and none that was overtaken.
THEOREM ReplayRaisesTheNext == ASSUME Followable PROVE TwinSpec => []PendingIsNext
<1>1. Follows => PendingIsNext
  BY DEF Follows, Raises, PendingIsNext, Followable, Replaying
<1> QED
  BY <1>1, FollowsAlways, PTL

\* The replay diverges only where the next record is an interrupt, and where nothing
\* else has interrupted the two runs only past its count.
THEOREM ReplayDivergesOnlyWhenLate ==
  ASSUME Followable PROVE TwinSpec => DivergesOnlyWhenLate
<1> DEFINE A == mode # "diverged" /\ mode' = "diverged" =>
                  Awaits("TAKEN") /\ (others = 0 => icount >= Expected.icount)
<1>1. Follows /\ [TwinNext]_twinVars => [A]_twinVars
  <2> SUFFICES ASSUME Follows, TwinNext, mode # "diverged", mode' = "diverged"
               PROVE  Awaits("TAKEN") /\ (others = 0 => icount >= Expected.icount)
    BY DEF twinVars
  <2>1. Cpu /\ mode = "replay"
    BY DEF Follows, TwinTypes, TapeTypes, TwinNext, Over, HardwareIrq, OtherIrq, Convert, Thread,
           Look, Time, Confirm, Raise, Settle, ThreadTo, twinVars, Cpu, Execute, Idle, TakeIrq,
           ReturnIrq, NoEvent, Access, IrqEvent, Log, Replay, Replaying
  <2> QED
    BY <2>1, CpuReplays
<1>2. DivergesOnlyWhenLate <=> [][A]_twinVars
  BY DEF DivergesOnlyWhenLate
<1> HIDE DEF A
<1> QED
  BY <1>1, <1>2, FollowsAlways, PTL DEF TwinSpec

=============================================================================
