----------------------------- MODULE IrqForward -----------------------------
(***************************************************************************)
(* What FastDyn promises about an interrupt of the real board when the     *)
(* board's peripherals are passed through: the interrupt is taken once by  *)
(* the emulated firmware, its handler there finishes, and only then does   *)
(* the board's own handler return.  The emulated firmware works on one     *)
(* forwarded interrupt at a time.                                          *)
(*                                                                         *)
(* HwSession is shown to implement this specification.                     *)
(***************************************************************************)

CONSTANT Lines          \* the interrupt lines that are forwarded

VARIABLE phase          \* how far the current interrupt of each line is

Init == phase = [l \in Lines |-> "idle"]

Move(l, from, to) ==
  /\ phase[l] = from
  /\ phase' = [phase EXCEPT ![l] = to]

\* The board enters its handler of line l.
Fire(l) == Move(l, "idle", "fired")

\* The emulated CPU enters the firmware's handler of line l.
Take(l) ==
  /\ \A k \in Lines : phase[k] # "taken"
  /\ Move(l, "fired", "taken")

\* The emulated CPU returns from the firmware's handler.
Exit(l) == Move(l, "taken", "exited")

\* The board's handler returns.
Return(l) == Move(l, "exited", "idle")

Next == \E l \in Lines : Fire(l) \/ Take(l) \/ Exit(l) \/ Return(l)

Spec == Init /\ [][Next]_phase
=============================================================================
