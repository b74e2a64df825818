--------------------------- MODULE MCPhilosophers ---------------------------
(* Instances of Philosophers for TLC: the table of five for the deadlock of  *)
(* philo2, a table of four for liveness.                                     *)
EXTENDS Philosophers

=============================================================================
