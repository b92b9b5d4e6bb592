------------------------- MODULE MCLockstepPhysics -------------------------
(* LockstepPhysics with two ticks of two steps each, a datagram lost and an   *)
(* answer late; the constants are given in the configuration.              *)
EXTENDS LockstepPhysics
=============================================================================
