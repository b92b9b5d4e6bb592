----------------------------- MODULE MCGcsUart ------------------------------
(* The real numbers halved and halved again: a limit of 512 in a ring of     *)
(* 1024 becomes 2 in 4.                                                      *)
EXTENDS GcsUart

MCSizes == {1, 2}
MCByte  == Listeners \X (1 .. MaxPackets) \X {1, 2}
=============================================================================
