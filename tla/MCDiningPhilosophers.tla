------------------------ MODULE MCDiningPhilosophers ------------------------
(* The instance of DiningPhilosophers for TLC: the program's own five        *)
(* philosophers, and two meals so that each of them comes back to the table. *)
EXTENDS DiningPhilosophers

=============================================================================
