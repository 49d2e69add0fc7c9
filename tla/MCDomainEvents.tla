--------------------------- MODULE MCDomainEvents ---------------------------
(* Small instances of DomainEvents.  Accounts are interchangeable, and so  *)
(* are dispatchers, so the safety runs use their symmetry.                 *)
EXTENDS DomainEvents, TLC

AccountSymmetry == Permutations(Users)

Symmetry == AccountSymmetry \cup Permutations(Workers)
=============================================================================
