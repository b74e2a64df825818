--------------------------- MODULE MCChatServerPM ---------------------------
(* Small instances of ChatServerPM for TLC. *)
EXTENDS ChatServerPM, TLC

Symmetry == Permutations(Conns) \cup Permutations(Usernames)

=============================================================================
