------------------------------- MODULE MCDesk -------------------------------
\* Instances of Desk for TLC.
EXTENDS Desk, TLC

CONSTANTS u1, u2

Symmetry == Permutations(Handlers)

MCRoles == {(u1 :> "admin") @@ (u2 :> "customer")}
MCGrants == {"staff", "customer"}
MCSaves ==
    {[NoSave EXCEPT !.status = "closed"],
     [NoSave EXCEPT !.comment = "public"]}
=============================================================================
