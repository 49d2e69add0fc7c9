--------------------------- MODULE MigratedDatabases ------------------------
(***************************************************************************)
(* The databases of DatabaseFiles, migrated as Migrations says: what a     *)
(* migration that was carried out there has made of the tickets.           *)
(***************************************************************************)
EXTENDS DatabaseFiles, Migrations

HasMigrated(d) == ~\A v \in Versions : content[d].ran[v] = 0

\* A database that was migrated has its tickets as they were: none that the
\* migrations accept is distorted by them, whatever it was.
TicketsAreKept == \A d \in Databases : HasMigrated(d) => Distorted = {}

\* ... and a status history that explained its ticket's status explains it
\* still, whatever the statuses were.
HistoryStaysConnected == \A d \in Databases : HasMigrated(d) => Disconnected = {}
=============================================================================
