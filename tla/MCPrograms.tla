------------------------------ MODULE MCPrograms ------------------------------
(* Small instances of ProgramSuite for TLC. *)
EXTENDS ProgramSuite

(* Generators that the few choices of an instance can pay for.               *)
MCCosts == <<1, 2, 2>>

=============================================================================
