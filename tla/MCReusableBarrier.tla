-------------------------- MODULE MCReusableBarrier --------------------------
(* The instance of ReusableBarrier for TLC: 3 phases, so that the barrier is *)
(* entered again while threads of the phase before have not left it.         *)
EXTENDS ReusableBarrier

=============================================================================
