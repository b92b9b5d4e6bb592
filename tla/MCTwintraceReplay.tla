------------------------- MODULE MCTwintraceReplay --------------------------
(* A firmware with traced accesses before, between and after the points at  *)
(* which an interrupt may come, handlers with an access of their own, and    *)
(* a timer and another model whose interrupts come in between.               *)
EXTENDS TwintraceReplay

MC_Lines   == {17, 18}
MC_Others  == {SysTick, 40}

MC_Main    == <<"mmio", "other", "other", "mmio">>
MC_Handler == [v \in MC_Lines \cup MC_Others |->
                 IF v \in MC_Lines THEN <<"other", "mmio">> ELSE <<"other">>]
=============================================================================
