------------------------------- MODULE Diners -------------------------------
(***************************************************************************)
(* What every dining-philosophers program of the repository promises of a  *)
(* table of N philosophers: who sits next to an eating philosopher does    *)
(* not eat.  Philosopher p and (p + 1) % N share a utensil.                *)
(***************************************************************************)
EXTENDS Integers

CONSTANT N

VARIABLE eating   \* the philosophers that hold both of their utensils

Seats == 0 .. N - 1

Neighbours(p) == {(p + 1) % N, (p + N - 1) % N}

Init == eating = {}

StartEating(p) ==
  /\ p \notin eating
  /\ Neighbours(p) \cap eating = {}
  /\ eating' = eating \cup {p}

StopEating(p) ==
  /\ p \in eating
  /\ eating' = eating \ {p}

Next == \E p \in Seats : StartEating(p) \/ StopEating(p)

Spec == Init /\ [][Next]_eating

=============================================================================
