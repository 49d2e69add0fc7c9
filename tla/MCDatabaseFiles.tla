--------------------------- MODULE MCDatabaseFiles --------------------------
(* An instance of MigratedDatabases for TLC.                               *)
EXTENDS MigratedDatabases, TLC

Symmetry == Permutations(Processes)

MCHistories == {{}, {1, 2, 3}}
=============================================================================
