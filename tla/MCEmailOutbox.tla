--------------------------- MODULE MCEmailOutbox ---------------------------
(* Instances of EmailOutbox for TLC. *)
EXTENDS EmailOutbox, TLC

Symmetry == Permutations(Users) \cup Permutations(Tickets) \cup Permutations(Workers)
=============================================================================
