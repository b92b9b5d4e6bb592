----------------------------- MODULE DeviceLut ------------------------------
(***************************************************************************)
(* device_models/dev.c: which device models an access or an interrupt of    *)
(* the emulated machine reaches.                                            *)
(*                                                                         *)
(* dev_init reads the configuration once and lets every model register its  *)
(* address ranges and its vectors, in the order of the file.  From then on  *)
(* the tables are only read.  A table has one list of models per slot of    *)
(* SLOT_SIZE bytes.                                                         *)
(*                                                                         *)
(* Addresses are scaled down: a region is what the top four bits select,    *)
(* RegionSize bytes each, hwaddr is HwMod wide and an index UMod.  As in    *)
(* the code, an index is an unsigned difference cut to the shorter type.    *)
(***************************************************************************)
EXTENDS Integers, Sequences, SequencesExt, FiniteSets

CONSTANTS
  Models,       \* device models; one is Priority, if it is configured
  Priority,     \* "elder", the model whose reads win
  RegionSize, SLOT_SIZE, HwMod, UMod,
  Config        \* the configurations: sequences of registrations

MAX_INTERRUPTS == 240

\* A registration of a range, bounds as configured, or of a vector.
ASSUME SizeAssumption   == /\ SLOT_SIZE \in Nat \ {0} /\ RegionSize \in Nat \ {0}
                           /\ HwMod \in Nat \ {0} /\ UMod \in Nat \ {0}
ASSUME ConfigAssumption ==
  \A c \in Config : c \in Seq(ToSet(c)) /\ \A i \in DOMAIN c :
    /\ c[i].model \in Models
    /\ c[i].kind \in {"range", "irq"}
    /\ c[i].kind = "range" => c[i].start \in Nat /\ c[i].end \in Nat
    /\ c[i].kind = "range" => c[i].start <= c[i].end
    /\ c[i].kind = "irq" => c[i].irq \in Int

VARIABLES
  todo,      \* registrations still to make, in order
  lut,       \* <<table, slot>> -> the models of that slot, first one first
  irq_lut,   \* vector -> the models linked to it
  dead,      \* dev_register_interrupt_device_model refused a vector
  access,    \* the latest access: its address, and the models it reached
  config     \* the configuration being run

vars == <<todo, lut, irq_lut, dead, access, config>>

-----------------------------------------------------------------------------
(* Tables and slots.                                                       *)

Table(addr) == CASE addr \div RegionSize \in {4, 5} -> "device"
                 [] addr \div RegionSize = 14       -> "system"
                 [] addr \div RegionSize = 2        -> "ram"
                 [] OTHER                           -> "none"

DEVICE_BASE == 4 * RegionSize
SYSTEM_BASE == 14 * RegionSize

\* Every caller tells device_lut from the rest: ram_lut is measured like
\* system_lut.
Base(table)     == IF table = "device" THEN DEVICE_BASE ELSE SYSTEM_BASE
MaxSlots(table) == (IF table = "device" THEN 2 * RegionSize ELSE RegionSize)
                      \div SLOT_SIZE

Slot(addr, base) == (((addr - base) % HwMod) \div SLOT_SIZE) % UMod

Slots == UNION {{t} \X (0 .. MaxSlots(t) - 1) : t \in {"device", "system", "ram"}}

\* The last address a registration covers.
LastAddrBefore(start, end) == end - 1     \* mutant: also of a single address
LastAddr(start, end) == IF end > start THEN end - 1 ELSE end

Clamp(slot, max)     == IF slot >= max THEN max - 1 ELSE slot

\* The slots that dev_register_device_model links a range to.
Covered(start, end) ==
  LET t     == Table(start)
      first == Slot(start, Base(t))
      last  == Clamp(Slot(LastAddr(start, end), Base(t)), MaxSlots(t))
  IN  IF t = "none" THEN {} ELSE {<<t, i>> : i \in first .. last}

\* The list an access walks, empty when there is none.
Nodes(addr) ==
  LET t == Table(addr)
      i == Slot(addr, Base(t))
  IN  IF t = "none" \/ i >= MaxSlots(t) THEN <<>> ELSE lut[<<t, i>>]

-----------------------------------------------------------------------------
(* Registration.                                                           *)

List(s) == IF s \in DOMAIN lut THEN lut[s] ELSE <<>>

\* A link past the end of a table would show as a larger domain of lut.
RegisterRange(r) ==
  /\ lut' = [s \in DOMAIN lut \cup Covered(r.start, r.end) |->
               IF s \in Covered(r.start, r.end) THEN <<r.model>> \o List(s)
                                                 ELSE List(s)]
  /\ UNCHANGED <<irq_lut, dead>>

\* mutant: no look for an entry of the same model
LinkIrqAgain(list, m) == <<m>> \o list
LinkIrq(list, m) == IF Contains(list, m) THEN list ELSE <<m>> \o list

RegisterIrq(r) ==
  /\ IF r.irq \in 0 .. MAX_INTERRUPTS - 1
       THEN irq_lut' = [irq_lut EXCEPT ![r.irq] = LinkIrq(@, r.model)] /\ dead' = dead
       ELSE dead' = TRUE /\ irq_lut' = irq_lut
  /\ lut' = lut

Register ==
  /\ ~dead /\ todo # <<>>
  /\ IF Head(todo).kind = "range" THEN RegisterRange(Head(todo))
                                  ELSE RegisterIrq(Head(todo))
  /\ todo' = Tail(todo)
  /\ UNCHANGED <<access, config>>

-----------------------------------------------------------------------------
(* Accesses.                                                               *)

Running == todo = <<>> /\ ~dead

\* dev_write: every node of the slot, in order.
Write(addr) ==
  /\ Running
  /\ access' = [kind |-> "write", addr |-> addr, models |-> Nodes(addr)]
  /\ UNCHANGED <<todo, lut, irq_lut, dead, config>>

First(list)      == IF list = <<>> THEN <<>> ELSE <<Head(list)>>
ChooseHead(list) == First(list)           \* mutant: no priority
\* dev_read: one model, Priority if it is in the list and the first one if not.
ChooseReader(list) == IF Contains(list, Priority) THEN <<Priority>>
                                                  ELSE First(list)

Read(addr) ==
  /\ Running
  /\ access' = [kind |-> "read", addr |-> addr, models |-> ChooseReader(Nodes(addr))]
  /\ UNCHANGED <<todo, lut, irq_lut, dead, config>>

\* dev_notify_irq and dev_irqret_hook.
Interrupt(v) ==
  /\ Running
  /\ access' = [kind |-> "irq", addr |-> v, models |-> irq_lut[v]]
  /\ UNCHANGED <<todo, lut, irq_lut, dead, config>>

-----------------------------------------------------------------------------
Addresses == 0 .. 16 * RegionSize - 1
NoAccess  == [kind |-> "none", addr |-> 0, models |-> <<>>]
IrqsOf(c) == {c[i].irq : i \in {j \in DOMAIN c : c[j].kind = "irq"}}

Init ==
  /\ config \in Config /\ todo = config
  /\ lut = [s \in Slots |-> <<>>]
  /\ irq_lut = [v \in 0 .. MAX_INTERRUPTS - 1 |-> <<>>]
  /\ dead = FALSE /\ access = NoAccess

Next == \/ Register
        \/ \E a \in Addresses : Write(a) \/ Read(a)
        \/ \E v \in IrqsOf(config) : Interrupt(v)

Spec == Init /\ [][Next]_vars

-----------------------------------------------------------------------------
(* Properties.                                                             *)

\* The range of every variable.
TypeOK ==
  /\ config \in Config
  /\ IsSuffix(todo, config)
  /\ lut \in [Slots -> Seq(Models)]
  /\ irq_lut \in [0 .. MAX_INTERRUPTS - 1 -> Seq(Models)]
  /\ dead \in BOOLEAN
  /\ access.models \in Seq(Models)

\* The range a registration asks for: device.h calls its end inclusive.
Asked(i, addr) ==
  /\ config[i].start <= addr /\ addr <= config[i].end
  /\ Table(addr) = Table(config[i].start)

\* dev.c takes end - 1 for the last address.  As models are linked to whole slots
\* this costs a range its end just when the end is the first byte of a slot.
LeftOut(i, addr) ==
  addr = config[i].end /\ config[i].start < addr /\ addr % SLOT_SIZE = 0

\* Whether a registration asked for part of the slot of an address.
Near(i, addr) ==
  /\ Table(addr) = Table(config[i].start)
  /\ \E b \in config[i].start .. config[i].end :
       Asked(i, b) /\ ~LeftOut(i, b) /\ b \div SLOT_SIZE = addr \div SLOT_SIZE

Ranges(addr) == {i \in DOMAIN config : config[i].kind = "range" /\ Near(i, addr)}

\* A write to an address of the peripheral or system region reaches the models
\* that registered it, but for the end of a range that dev.c leaves out, and no
\* model that registered nothing of its slot.
WriteReachesItsModels ==
  access.kind = "write" /\ Table(access.addr) \in {"device", "system"} =>
    ToSet(access.models) = {config[i].model : i \in Ranges(access.addr)}

\* A read of an address somebody registered is answered by one model: Priority,
\* if it is one of those that did, and else the one the configuration names last.
\* (The comment at dev.c:199 says that nobody answers in that case.)
ReadIsAnswered ==
  access.kind = "read" /\ Table(access.addr) \in {"device", "system"} =>
    LET near == Ranges(access.addr)
    IN  \/ near = {} /\ access.models = <<>>
        \/ /\ \E i \in near : config[i].model = Priority
           /\ access.models = <<Priority>>
        \/ /\ \A i \in near : config[i].model # Priority
           /\ \E i \in near : /\ \A j \in near : j <= i
                             /\ access.models = <<config[i].model>>

\* An interrupt is handed to the models that registered its vector, to all of
\* them and to each once, however often the configuration repeats it.
InterruptReachesModelsOnce ==
  access.kind = "irq" =>
    /\ IsInjective(access.models)
    /\ ToSet(access.models) =
         {config[i].model : i \in {j \in DOMAIN config : config[j].kind = "irq"
                                                     /\ config[j].irq = access.addr}}

=============================================================================
