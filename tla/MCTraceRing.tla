---------------------------- MODULE MCTraceRing -----------------------------
(* A ring of a few entries, two blocks, and one exception at a time.        *)
EXTENDS TraceRing

MC_Blocks == {1, 2}
=============================================================================
