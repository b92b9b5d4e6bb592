---------------------------- MODULE MCHwSession -----------------------------
(* Two forwardable lines, one of which preempts the other on the board, and *)
(* line 0, which the session takes for a spurious halt; a timer inside      *)
(* QEMU.  The claims say which models listen to which vector.               *)
EXTENDS HwSession

MC_Lines        == {0, 1, 2}
MC_Preempts     == {<<1, 2>>, <<1, 0>>}
MC_TimerVector  == {15}
MC_ConnectR0    == {0, 300}
MC_One          == {"passthrough"}
MC_Two          == {"passthrough", "twintrace"}

MC_OneOwner     == {<<"passthrough", 17>>, <<"passthrough", 18>>}
MC_TwoOwners    == MC_Two \X {17, 18}
=============================================================================
