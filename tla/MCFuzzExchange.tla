--------------------------- MODULE MCFuzzExchange ---------------------------
(* Every parameter is a number or a truth value: the .cfg files give them.   *)
EXTENDS FuzzExchange
=============================================================================
