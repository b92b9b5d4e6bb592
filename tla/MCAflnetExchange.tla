-------------------------- MODULE MCAflnetExchange --------------------------
(* Every parameter is a number or a truth value: the .cfg file gives them.   *)
EXTENDS AflnetExchange
=============================================================================
