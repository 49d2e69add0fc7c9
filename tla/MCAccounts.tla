----------------------------- MODULE MCAccounts -----------------------------
(* Instances of Accounts for TLC.  SomeUser stands in rows that are not    *)
(* there, so only the handlers are interchangeable.                        *)
EXTENDS Accounts, TLC

Symmetry == Permutations(Handlers)
=============================================================================
