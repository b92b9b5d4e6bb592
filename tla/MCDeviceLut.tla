---------------------------- MODULE MCDeviceLut -----------------------------
(* Regions of eight bytes and slots of two.  The configurations put ranges   *)
(* at the edges of slots and regions, share slots between models, repeat     *)
(* vectors, and use every region.                                            *)
EXTENDS DeviceLut

MC_Models == {"elder", "passthrough", "classic"}

OnRange(m, s, e) == [kind |-> "range", model |-> m, start |-> s, end |-> e]
OnIrq(m, v)      == [kind |-> "irq", model |-> m, irq |-> v]

Layered  == << OnRange("elder", 35, 38), OnIrq("passthrough", 17),
               OnRange("passthrough", 32, 48), OnIrq("elder", 17), OnIrq("passthrough", 17),
               OnRange("classic", 46, 46), OnIrq("classic", 239) >>
System   == << OnRange("classic", 112, 120), OnRange("elder", 118, 127),
               OnRange("passthrough", 44, 50), OnRange("classic", 40, 45), OnIrq("elder", 16), OnIrq("elder", 16) >>
Nowhere  == << OnRange("classic", 0, 8), OnRange("elder", 60, 64), OnIrq("elder", 0) >>
Refused  == << OnIrq("elder", 239), OnIrq("classic", 240), OnRange("classic", 32, 34) >>

MC_Config == {Layered, System, Nowhere, Refused}

=============================================================================
