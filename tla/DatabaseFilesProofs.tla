------------------------- MODULE DatabaseFilesProofs -------------------------
(***************************************************************************)
(* Proofs about DatabaseFiles: what the lock, the migrations, the backups  *)
(* and the rollback of a restore keep, however many processes and files    *)
(* there are and wherever they stop.                                       *)
(*                                                                         *)
(* The invariants that are not inductive, and what they need:              *)
(*   OpenFilesStay       who holds the lock, and how, in each state of a   *)
(*                       command (Locked);                                 *)
(*   BackupsAreComplete  where the files of a copied database are while    *)
(*                       they are walked (Archived);                       *)
(*   FailedRestoreChangesNothing   where each path and each recovery       *)
(*                       directory stands after some of the renames        *)
(*                       (Undoable);                                       *)
(*   MigrationsAreWhole  what a command has seen of its database and may   *)
(*                       still rely on (SchemasSeen), and that the         *)
(*                       database at the path is one (InUse);              *)
(*   FilesBelongTogether, NothingIsLost   what each place can have in it   *)
(*                       after some of the renames, some of their undoing  *)
(*                       and some of that failing (Recovering), what the   *)
(*                       faults were that left a log there (LogsCost), and *)
(*                       which rows belong to the files that a restore     *)
(*                       began with and to its copies (Together).          *)
(***************************************************************************)
EXTENDS MigratedDatabases, TLAPS, WellFoundedInduction, FiniteSetTheorems

-----------------------------------------------------------------------------
(* Lemmas about operators.                                                 *)

\* A set of natural numbers has a least one.
LEMMA LeastOfNaturals ==
    ASSUME NEW S \in SUBSET Nat, S # {}
    PROVE  \E m \in S : \A k \in S : m <= k
<1> DEFINE R == {ss \in Nat \X Nat : ss[1] < ss[2]}
<1>1. IsWellFoundedOn(R, Nat)
  BY NatLessThanWellFounded DEF OpToRel
<1> HIDE DEF R
<1>2. PICK m \in S : \A k \in S : ~(<<k, m>> \in R)
  BY <1>1, WFMin
<1>3. ASSUME NEW k \in S PROVE m <= k
  <2>1. k \in Nat /\ m \in Nat
    OBVIOUS
  <2>2. ~(<<k, m>> \in {ss \in Nat \X Nat : ss[1] < ss[2]})
    BY <1>2 DEF R
  <2>3. ~(k < m)
    BY <2>1, <2>2
  <2> QED
    BY <2>1, <2>3
<1> QED
  BY <1>3

\* The values that things begin with, and end with, are of their types.
LEMMA IdleIsProcess ==
    /\ NoPlaces \in Places /\ NoDatabase \in Database /\ NoBackup \in Backup
    /\ Idle \in Process /\ [Idle EXCEPT !.pc = "closed"] \in Process
<1>1. 0 \in 0..MaxDatabases
  BY DatabaseFilesAssumption
<1>2. NoPlaces \in Places
  BY <1>1 DEF NoPlaces, Places
<1>3. NoDatabase \in Database
  <2>1. [v \in Versions |-> 0] \in [Versions -> Nat]
    OBVIOUS
  <2> QED
    BY <2>1 DEF NoDatabase, Database
<1>4. NoBackup \in Backup
  BY <1>3 DEF NoBackup, Backup
<1>5. Idle \in Process
  BY <1>1, <1>2, <1>4 DEF Idle, Process
<1>6. [Idle EXCEPT !.pc = "closed"] \in Process
  BY <1>5 DEF Process
<1> QED
  BY <1>2, <1>3, <1>4, <1>5, <1>6

\* A free number, if there is one.
LEMMA NextDatabaseIsFresh ==
    ASSUME Fresh # {}
    PROVE  NextDatabase \in Fresh /\ NextDatabase \in Databases /\ NextDatabase # 0
<1>1. Fresh \in SUBSET Nat /\ Fresh \subseteq Databases
  BY DatabaseFilesAssumption DEF Fresh, Databases
<1>2. PICK m \in Fresh : \A k \in Fresh : m <= k
  BY <1>1, LeastOfNaturals
<1>3. NextDatabase \in Fresh
  BY <1>2 DEF NextDatabase, Min
<1> QED
  BY <1>1, <1>3, DatabaseFilesAssumption DEF Databases

\* Restores are fewer than databases, so a directory can have a new number.
LEMMA NextDirectoryIsOne == ASSUME TypeOK PROVE NextDirectory \in Databases \ SavedDirectories
<1> DEFINE f == [r \in 1..MaxRestores |-> saved[r].uploads]
<1>1. f \in Surjection(1..MaxRestores, SavedDirectories)
  BY DEF SavedDirectories, Surjection
<1>2. /\ IsFiniteSet(SavedDirectories) /\ Cardinality(SavedDirectories) <= MaxRestores
      /\ Cardinality(SavedDirectories) \in Nat
  <2>1. IsFiniteSet(1..MaxRestores) /\ Cardinality(1..MaxRestores) = MaxRestores
    BY FS_Interval, DatabaseFilesAssumption
  <2>2. IsFiniteSet(SavedDirectories) /\ Cardinality(SavedDirectories) <= Cardinality(1..MaxRestores)
    BY <1>1, <2>1, FS_Surjection
  <2> QED
    BY <2>1, <2>2, FS_CardinalityType
<1>3. Cardinality(Databases) = MaxDatabases
  BY FS_Interval, DatabaseFilesAssumption DEF Databases
<1>4. ~(Databases \subseteq SavedDirectories)
  <2> SUFFICES ASSUME Databases \subseteq SavedDirectories PROVE FALSE
    OBVIOUS
  <2>1. Cardinality(Databases) <= Cardinality(SavedDirectories)
    BY <1>2, FS_Subset
  <2> QED
    BY <1>2, <1>3, <2>1, DatabaseFilesAssumption
<1>5. Databases \ SavedDirectories \in SUBSET Nat /\ Databases \ SavedDirectories # {}
  BY <1>4 DEF Databases
<1>6. PICK m \in Databases \ SavedDirectories : \A k \in Databases \ SavedDirectories : m <= k
  <2> DEFINE S == Databases \ SavedDirectories
  <2>1. S \in SUBSET Nat /\ S # {}
    BY <1>5
  <2> HIDE DEF S
  <2>2. \E m \in S : \A k \in S : m <= k
    BY <2>1, LeastOfNaturals
  <2> QED
    BY <2>2 DEF S
<1> QED
  BY <1>6 DEF NextDirectory, Min

\* The last rename is one.
LEMMA LastRenamedIsOne ==
    ASSUME TypeOK, NEW p \in Processes, process[p].renamed # {}
    PROVE  /\ LastRenamed(p) \in process[p].renamed /\ LastRenamed(p) \in 1..5
           /\ \A j \in process[p].renamed : j <= LastRenamed(p)
<1>1. process[p].renamed \subseteq 1..5
  BY DEF TypeOK, Process
<1> DEFINE S == {n \in 0..5 : \E i \in process[p].renamed : n = 5 - i}
<1>2. S \in SUBSET Nat /\ S # {}
  BY <1>1
<1> HIDE DEF S
<1>3. PICK m \in S : \A k \in S : m <= k
  BY <1>2, LeastOfNaturals
<1>4. PICK i \in process[p].renamed : m = 5 - i
  BY <1>3 DEF S
<1>5. \A j \in process[p].renamed : j <= i
  <2> SUFFICES ASSUME NEW j \in process[p].renamed PROVE j <= i
    OBVIOUS
  <2>1. 5 - j \in S
    BY <1>1 DEF S
  <2> QED
    BY <1>1, <1>3, <1>4, <2>1
<1> QED
  BY <1>1, <1>5 DEF LastRenamed

\* One of the three places changes, and the others do not.
LEMMA PlacesChange ==
    ASSUME NEW places \in Places, NEW n \in 0..MaxDatabases, NEW x \in {"db", "wal", "uploads"}
    PROVE  /\ places[x] \in 0..MaxDatabases
           /\ [places EXCEPT ![x] = n] \in Places
           /\ [places EXCEPT ![x] = n][x] = n
           /\ \A y \in {"db", "wal", "uploads"} : y # x => [places EXCEPT ![x] = n][y] = places[y]
<1>1. CASE x = "db"
  BY <1>1 DEF Places
<1>2. CASE x = "wal"
  BY <1>2 DEF Places
<1>3. CASE x = "uploads"
  BY <1>3 DEF Places
<1> QED
  BY <1>1, <1>2, <1>3

\* A free name, or one past the last.
LEMMA FreeNameIsFree == FreeName \in 1..MaxBackups + 1
<1> DEFINE S == {n \in 1..MaxBackups + 1 : n <= MaxBackups => backups[n] = NoBackup}
<1>1. S \in SUBSET Nat /\ MaxBackups + 1 \in S
  BY DatabaseFilesAssumption
<1> HIDE DEF S
<1>2. PICK n \in S : \A k \in S : n <= k
  BY <1>1, LeastOfNaturals
<1>3. n \in 1..MaxBackups + 1 /\ (n <= MaxBackups => backups[n] = NoBackup)
  BY <1>2 DEF S
<1>4. \A m \in 1..n - 1 : backups[m] # NoBackup
  <2> SUFFICES ASSUME NEW m \in 1..n - 1, backups[m] = NoBackup PROVE FALSE
    OBVIOUS
  <2>1. m \in S
    BY <1>3, DatabaseFilesAssumption DEF S
  <2> QED
    BY <1>2, <1>3, <2>1, DatabaseFilesAssumption
<1> QED
  BY <1>3, <1>4 DEF FreeName

\* A command that is over has no migration under way.
LEMMA IdleHasDoneNothing ==
    Idle.pc = "idle" /\ Idle.done = {} /\ [Idle EXCEPT !.pc = "closed"].pc = "closed"
  BY DEF Idle

-----------------------------------------------------------------------------
(* The lock, and what it keeps apart.                                      *)

\* State of a command that has the database open.
Opened == {"opened", "install", "serving", "migrating", "transaction", "copying", "closing"}

\* What the lock keeps apart: the commands that have the database open, which
\* have the one at the path, and a restore, which is alone.
Locked ==
    /\ \A p \in Processes : lock[p] = "none" <=> process[p].pc = "idle"
    /\ \A p \in Processes : process[p].pc \in {"moving", "rollback"} =>
            /\ lock[p] = "exclusive"
            /\ process[p].name \in 1..MaxRestores /\ process[p].staged \in Databases
            /\ process[p].next \in 1..6
    /\ \A p \in Processes : lock[p] = "exclusive" => process[p].pc \in {"moving", "rollback", "closed"}
    /\ \A p \in Processes : process[p].open # 0 <=> process[p].pc \in Opened
    /\ \A p \in Processes : process[p].open # 0 => at.db = process[p].open /\ at.wal = process[p].open
    /\ \A p \in Processes : process[p].staged # 0 => process[p].pc \in {"moving", "rollback"}

\* A restore is alone: nobody has a database open.
LEMMA RestoreIsAlone ==
    ASSUME TypeOK, Locked, NEW p \in Processes, process[p].pc \in {"moving", "rollback"}
    PROVE  /\ \A q \in Processes : q # p => process[q].pc = "idle"
           /\ \A q \in Processes : process[q].open = 0
<1>1. \A q \in Processes : q # p => process[q].pc = "idle"
  BY DEF Locked, TypeOK
<1> QED
  BY <1>1 DEF Locked, Opened

\* The steps of a command that neither opens nor closes anything.
LEMMA SameShape ==
    ASSUME Locked, lock' = lock, at'.db = at.db, at'.wal = at.wal,
           \A q \in Processes :
            /\ process'[q].open = process[q].open /\ process'[q].staged = process[q].staged
            /\ process'[q].name = process[q].name
            /\ process'[q].next = process[q].next \/ process'[q].next \in 1..6
            /\ \/ process'[q].pc = process[q].pc
               \/ process[q].pc \in Opened /\ process'[q].pc \in Opened
               \/ process[q].pc \in {"moving", "rollback"} /\ process'[q].pc \in {"moving", "rollback"}
    PROVE  Locked'
<1>1. \A q \in Processes :
        /\ process'[q].pc = "idle" <=> process[q].pc = "idle"
        /\ process'[q].pc = "closed" <=> process[q].pc = "closed"
        /\ process'[q].pc \in Opened <=> process[q].pc \in Opened
        /\ process'[q].pc \in {"moving", "rollback"} <=> process[q].pc \in {"moving", "rollback"}
  BY DEF Opened
<1> HIDE DEF Opened
<1> QED
  BY <1>1 DEF Locked

\* A command ends, or is about to: it has nothing open.
LEMMA LetsGo ==
    ASSUME TypeOK, Locked, NEW p \in Processes,
           \/ lock'[p] = lock[p] /\ process'[p].pc = "closed" /\ lock[p] # "none"
           \/ lock'[p] = "none" /\ process'[p].pc = "idle",
           process'[p].open = 0 /\ process'[p].staged = 0,
           \A q \in Processes : q # p => process'[q] = process[q] /\ lock'[q] = lock[q],
           at'.db = at.db,
           at'.wal = at.wal \/ \A q \in Processes : q # p => process[q].open = 0
    PROVE  Locked'
<1>1. process'[p].pc \in {"idle", "closed"} /\ process'[p].pc \notin Opened
  BY DEF Opened
<1> QED
  BY <1>1 DEF Locked

\* A command that is over has nothing open and nothing staged.
LEMMA IdleHasNothing ==
    /\ Idle.pc = "idle" /\ Idle.open = 0 /\ Idle.staged = 0
    /\ [Idle EXCEPT !.pc = "closed"].pc = "closed" /\ [Idle EXCEPT !.pc = "closed"].open = 0
    /\ [Idle EXCEPT !.pc = "closed"].staged = 0
  BY DEF Idle

\* The type is kept, from what the lock keeps apart.
LEMMA TypeStep == TypeOK /\ Locked /\ [Next]_vars => TypeOK'
<1> SUFFICES ASSUME TypeOK, Locked, [Next]_vars PROVE TypeOK'
  OBVIOUS
<1>1. ASSUME NEW p \in Processes, OpenDatabase(p) PROVE TypeOK'
  <2> DEFINE d == IF at.db = 0 THEN NextDatabase ELSE at.db
  <2>0. process[p] \in Process /\ at \in Places
    BY DEF TypeOK
  <2>1. d \in Databases
    BY <1>1, <2>0, NextDatabaseIsFresh, DatabaseFilesAssumption DEF OpenDatabase, Places, Databases
  <2>2. /\ at' = [at EXCEPT !.db = d, !.wal = d]
        /\ content' = IF at.db = 0 THEN [content EXCEPT ![d].state = "empty"] ELSE content
        /\ logged' = logged \cup {d}
        /\ process' = [process EXCEPT ![p].open = d,
                            ![p].pc = IF process[p].command = "backup" THEN "copying" ELSE "opened"]
        /\ UNCHANGED <<saved, interrupted, dir, backups, lock, count>>
    BY <1>1 DEF OpenDatabase
  <2> HIDE DEF d
  <2>3. at' \in Places
    <3>1. d \in 0..MaxDatabases
      BY <2>1, DatabaseFilesAssumption DEF Databases
    <3> QED
      BY <2>0, <2>2, <3>1 DEF Places
  <2>4. content' \in [Databases -> Database]
    <3>1. [content[d] EXCEPT !.state = "empty"] \in Database
      <4>1. content[d] \in Database
        BY <2>1 DEF TypeOK
      <4> QED
        BY <4>1 DEF Database
    <3> QED
      BY <2>1, <2>2, <3>1 DEF TypeOK
  <2>5. process' \in [Processes -> Process]
    <3>1. d \in 0..MaxDatabases
      BY <2>1, DatabaseFilesAssumption DEF Databases
    <3>2. [process[p] EXCEPT !.open = d, !.pc = IF process[p].command = "backup" THEN "copying" ELSE "opened"]
            \in Process
      BY <2>0, <3>1 DEF Process
    <3> QED
      BY <2>2, <3>2 DEF TypeOK
  <2> QED
    BY <2>1, <2>2, <2>3, <2>4, <2>5 DEF TypeOK, count
<1>2. ASSUME NEW p \in Processes, CloseDatabase(p) PROVE TypeOK'
  <2>1. at' \in Places /\ logged' \subseteq Databases
    <3>1. at \in Places /\ [at EXCEPT !.wal = 0] \in Places
      <4>1. at \in Places
        BY DEF TypeOK
      <4> QED
        BY <4>1, DatabaseFilesAssumption DEF Places
    <3> QED
      BY <1>2, <3>1 DEF CloseDatabase, Closes, TypeOK
  <2>2. process' \in [Processes -> Process]
    BY <1>2, IdleIsProcess DEF CloseDatabase, TypeOK
  <2> QED
    BY <1>2, <2>1, <2>2 DEF CloseDatabase, data, count, TypeOK
<1>3. ASSUME NEW p \in Processes, Unlock(p) PROVE TypeOK'
  BY <1>3, IdleIsProcess DEF Unlock, paths, data, count, TypeOK
<1>4. ASSUME NEW p \in Processes, Crash(p) PROVE TypeOK'
  <2>1. content' \in [Databases -> Database] /\ dir' \in [Databases -> SUBSET Keys]
    BY <1>4, IdleIsProcess DEF Crash, DiscardCopies, TypeOK
  <2> QED
    BY <1>4, <2>1, IdleIsProcess DEF Crash, TypeOK
<1>5. ASSUME NEW p \in Processes, NEW command \in {"serve", "migrate", "backup"}, Begin(p, command)
      PROVE  TypeOK'
  <2>0. process[p] \in Process
    BY DEF TypeOK
  <2>1. [process[p] EXCEPT !.pc = "locked", !.command = command] \in Process
    BY <2>0 DEF Process
  <2>2. process' = [process EXCEPT ![p] = [process[p] EXCEPT !.pc = "locked", !.command = command]]
    BY <1>5 DEF Begin, Acquire, paths, data, count, TypeOK
  <2>3. process' \in [Processes -> Process]
    BY <2>1, <2>2 DEF TypeOK
  <2>4. /\ lock' \in [Processes -> {"none", "shared", "exclusive"}]
        /\ \A a, b \in Processes : a # b /\ lock'[a] = "exclusive" => lock'[b] = "none"
    BY <1>5 DEF Begin, Acquire, MayLock, TypeOK
  <2> QED
    BY <1>5, <2>3, <2>4 DEF Begin, Acquire, paths, data, count, TypeOK
<1>6. ASSUME NEW p \in Processes, StopServing(p) PROVE TypeOK'
  <2>0. process[p] \in Process
    BY DEF TypeOK
  <2>1. [process[p] EXCEPT !.pc = "closing"] \in Process
    BY <2>0 DEF Process
  <2>2. process' = [process EXCEPT ![p] = [process[p] EXCEPT !.pc = "closing"]]
    BY <1>6 DEF StopServing, Goes, paths, data, count, TypeOK
  <2>3. process' \in [Processes -> Process]
    BY <2>1, <2>2 DEF TypeOK
  <2> QED
    BY <1>6, <2>3 DEF StopServing, paths, data, count, TypeOK
<1>7. ASSUME NEW p \in Processes, NEW k \in Keys, WriteUpload(p, k) PROVE TypeOK'
  <2> DEFINE d == IF at.uploads = 0 THEN NextDirectory ELSE at.uploads
  <2>1. d \in Databases
    BY NextDirectoryIsOne, DatabaseFilesAssumption DEF TypeOK, Places, Databases
  <2>2. at' = [at EXCEPT !.uploads = d] /\ dir' = [dir EXCEPT ![d] = @ \cup {k}]
    BY <1>7 DEF WriteUpload
  <2> HIDE DEF d
  <2>3. at' \in Places
    <3>1. d \in 0..MaxDatabases /\ at \in Places
      BY <2>1, DatabaseFilesAssumption DEF Databases, TypeOK
    <3> QED
      BY <2>2, <3>1 DEF Places
  <2>4. dir' \in [Databases -> SUBSET Keys]
    BY <2>1, <2>2 DEF TypeOK
  <2> QED
    BY <1>7, <2>3, <2>4 DEF WriteUpload, count, TypeOK
<1>8. ASSUME NEW p \in Processes, NEW k \in Keys, AttachUpload(p, k) PROVE TypeOK'
  <2> DEFINE d == process[p].open
  <2>1. content' = [content EXCEPT ![d].rows = @ \cup {k}]
    BY <1>8 DEF AttachUpload
  <2> HIDE DEF d
  <2>2. content' \in [Databases -> Database]
    <3>1. CASE d \in Databases
      <4>1. content[d] \in Database
        BY <3>1 DEF TypeOK
      <4>2. content[d].rows \cup {k} \in SUBSET Keys
        BY <4>1 DEF Database
      <4>3. [content[d] EXCEPT !.rows = @ \cup {k}] \in Database
        BY <4>1, <4>2 DEF Database
      <4> QED
        BY <2>1, <4>3 DEF TypeOK
    <3>2. CASE d \notin Databases
      BY <2>1, <3>2 DEF TypeOK
    <3> QED
      BY <3>1, <3>2
  <2> QED
    BY <1>8, <2>2 DEF AttachUpload, paths, count, TypeOK
<1>9. ASSUME NEW p \in Processes, NEW k \in Keys, DeleteAttachment(p, k) PROVE TypeOK'
  <2> DEFINE d == process[p].open
  <2>1. content' = [content EXCEPT ![d].rows = @ \ {k}]
    BY <1>9 DEF DeleteAttachment
  <2> HIDE DEF d
  <2>2. content' \in [Databases -> Database]
    <3>1. CASE d \in Databases
      <4>1. content[d] \in Database
        BY <3>1 DEF TypeOK
      <4>2. content[d].rows \ {k} \in SUBSET Keys
        BY <4>1 DEF Database
      <4>3. [content[d] EXCEPT !.rows = @ \ {k}] \in Database
        BY <4>1, <4>2 DEF Database
      <4> QED
        BY <2>1, <4>3 DEF TypeOK
    <3>2. CASE d \notin Databases
      BY <2>1, <3>2 DEF TypeOK
    <3> QED
      BY <3>1, <3>2
  <2> QED
    BY <1>9, <2>2 DEF DeleteAttachment, paths, count, TypeOK
<1>10. ASSUME NEW p \in Processes, NEW k \in Keys, RemoveUpload(p, k) PROVE TypeOK'
  <2>1. process' \in [Processes -> Process]
    <3>1. ASSUME NEW c \in Processes PROVE [process[c] EXCEPT !.made.gone = @ \cup {k}] \in Process
      <4>1. process[c] \in Process
        BY DEF TypeOK
      <4>2. process[c].made \in Backup
        BY <4>1 DEF Process
      <4>3. process[c].made.gone \cup {k} \in SUBSET Keys
        BY <4>2 DEF Backup
      <4>4. [process[c].made EXCEPT !.gone = process[c].made.gone \cup {k}] \in Backup
        BY <4>2, <4>3 DEF Backup
      <4> QED
        BY <4>1, <4>4 DEF Process
    <3> QED
      BY <1>10, <3>1 DEF RemoveUpload, TypeOK
  <2>2. dir' \in [Databases -> SUBSET Keys]
    BY <1>10 DEF RemoveUpload, TypeOK
  <2> QED
    BY <1>10, <2>1, <2>2 DEF RemoveUpload, paths, count, TypeOK
<1>11. ASSUME NEW p \in Processes, Inspect(p) PROVE TypeOK'
  <2>0. process[p] \in Process
    BY DEF TypeOK
  <2>1. PICK pc \in {"install", "serving", "closing", "migrating"}, pending \in SUBSET Versions :
            process' = [process EXCEPT ![p].pc = pc, ![p].pending = pending]
    BY <1>11 DEF Inspect, Pending
  <2>2. [process[p] EXCEPT !.pc = pc, !.pending = pending] \in Process
    BY <2>0 DEF Process
  <2>3. process' \in [Processes -> Process]
    BY <2>1, <2>2 DEF TypeOK
  <2> QED
    BY <1>11, <2>3 DEF Inspect, paths, data, count, TypeOK
<1>12. ASSUME NEW p \in Processes, InstallCurrentSchema(p) PROVE TypeOK'
  <2> DEFINE d == process[p].open
  <2>0. process[p] \in Process
    BY DEF TypeOK
  <2>1. d \in Databases
    BY <1>12, <2>0, DatabaseFilesAssumption DEF InstallCurrentSchema, Locked, Opened, Process, Databases
  <2>2. content' \in [Databases -> Database]
    <3>0. content' = [content EXCEPT ![d].state = "live", ![d].applied = @ \cup Versions,
                                     ![d].first = @ \cup (Versions \ content[d].applied)]
      BY <1>12 DEF InstallCurrentSchema
    <3> HIDE DEF d
    <3>1. content[d] \in Database /\ Versions \subseteq Nat
      BY <2>1, DatabaseFilesAssumption DEF TypeOK, Versions
    <3>2. /\ content[d].applied \cup Versions \in SUBSET Nat
          /\ content[d].first \cup (Versions \ content[d].applied) \in SUBSET Nat
      BY <3>1 DEF Database
    <3>3. [content[d] EXCEPT !.state = "live", !.applied = @ \cup Versions,
                             !.first = @ \cup (Versions \ content[d].applied)] \in Database
      BY <3>1, <3>2 DEF Database
    <3> QED
      BY <2>1, <3>0, <3>3 DEF TypeOK
  <2>3. process' \in [Processes -> Process]
    <3>1. [process[p] EXCEPT !.pc = "serving"] \in Process /\ [process[p] EXCEPT !.pc = "closing"] \in Process
      BY <2>0 DEF Process
    <3> QED
      BY <1>12, <3>1 DEF InstallCurrentSchema, Goes, TypeOK
  <2> QED
    BY <1>12, <2>2, <2>3 DEF InstallCurrentSchema, paths, count, TypeOK
<1>13. ASSUME NEW p \in Processes, BeginTransaction(p) PROVE TypeOK'
  <2>0. process[p] \in Process
    BY DEF TypeOK
  <2>1. [process[p] EXCEPT !.pc = "transaction"] \in Process
    BY <2>0 DEF Process
  <2>2. process' = [process EXCEPT ![p] = [process[p] EXCEPT !.pc = "transaction"]]
    BY <1>13 DEF BeginTransaction, Goes, paths, data, count, TypeOK
  <2>3. process' \in [Processes -> Process]
    BY <2>1, <2>2 DEF TypeOK
  <2> QED
    BY <1>13, <2>3 DEF BeginTransaction, paths, data, count, TypeOK
<1>14. ASSUME NEW p \in Processes, Up(p) PROVE TypeOK'
  <2>0. process[p] \in Process
    BY DEF TypeOK
  <2> DEFINE left == process[p].pending \ process[p].done
             v == CHOOSE w \in left : \A x \in left : w <= x
  <2>1. v \in left
    <3>1. left \in SUBSET Nat /\ left # {}
      BY <1>14, <2>0 DEF Up, Process, Versions
    <3> HIDE DEF left
    <3>2. PICK m \in left : \A k \in left : m <= k
      BY <3>1, LeastOfNaturals
    <3> QED
      BY <3>2
  <2>2. v \in Versions
    BY <2>0, <2>1 DEF Process
  <2>3. \/ process' = [process EXCEPT ![p].pc = "closing", ![p].done = {}]
        \/ process' = [process EXCEPT ![p].done = @ \cup {v}]
    BY <1>14 DEF Up
  <2> HIDE DEF v
  <2>4. [process[p] EXCEPT !.pc = "closing", !.done = {}] \in Process
    BY <2>0 DEF Process
  <2>5. [process[p] EXCEPT !.done = @ \cup {v}] \in Process
    <3>1. process[p].done \cup {v} \in SUBSET Versions
      BY <2>0, <2>2 DEF Process
    <3> QED
      BY <2>0, <3>1 DEF Process
  <2>6. process' \in [Processes -> Process]
    BY <2>3, <2>4, <2>5 DEF TypeOK
  <2> QED
    BY <1>14, <2>6 DEF Up, paths, data, count, TypeOK
<1>15. ASSUME NEW p \in Processes, CommitMigrations(p) PROVE TypeOK'
  <2> DEFINE d == process[p].open
             done == process[p].done
  <2>0. process[p] \in Process
    BY DEF TypeOK
  <2>1. d \in Databases /\ done \subseteq Versions
    BY <1>15, <2>0, DatabaseFilesAssumption DEF CommitMigrations, Locked, Opened, Process, Databases
  <2>2. content' \in [Databases -> Database]
    <3>0. content' = [content EXCEPT ![d].applied = @ \cup done,
                                     ![d].ran = [v \in Versions |-> IF v \in done THEN @[v] + 1 ELSE @[v]]]
      BY <1>15 DEF CommitMigrations
    <3> HIDE DEF d, done
    <3>1. content[d] \in Database /\ Versions \subseteq Nat
      BY <2>1, DatabaseFilesAssumption DEF TypeOK, Versions
    <3>2. /\ content[d].applied \cup done \in SUBSET Nat
          /\ [v \in Versions |-> IF v \in done THEN content[d].ran[v] + 1 ELSE content[d].ran[v]] \in [Versions -> Nat]
      <4>1. content[d].ran \in [Versions -> Nat] /\ content[d].applied \in SUBSET Nat
        BY <3>1 DEF Database
      <4>2. \A v \in Versions : content[d].ran[v] \in Nat /\ content[d].ran[v] + 1 \in Nat
        BY <4>1
      <4>3. done \subseteq Nat
        BY <2>1, <3>1
      <4>4. content[d].applied \cup done \in SUBSET Nat
        BY <4>1, <4>3
      <4> QED
        BY <4>2, <4>4
    <3>3. [content[d] EXCEPT !.applied = @ \cup done,
                             !.ran = [v \in Versions |-> IF v \in done THEN @[v] + 1 ELSE @[v]]] \in Database
      BY <3>1, <3>2 DEF Database
    <3> QED
      BY <2>1, <3>0, <3>3 DEF TypeOK
  <2>3. process' \in [Processes -> Process]
    <3>1. [process[p] EXCEPT !.pc = "closing"] \in Process
      BY <2>0 DEF Process
    <3> QED
      BY <1>15, <3>1 DEF CommitMigrations, Goes, TypeOK
  <2> QED
    BY <1>15, <2>2, <2>3 DEF CommitMigrations, paths, count, TypeOK
<1>16. ASSUME NEW p \in Processes, CopyDatabase(p) PROVE TypeOK'
  <2>1. at' \in Places /\ logged' \subseteq Databases
    <3>1. at \in Places /\ [at EXCEPT !.wal = 0] \in Places
      <4>1. at \in Places
        BY DEF TypeOK
      <4> QED
        BY <4>1, DatabaseFilesAssumption DEF Places
    <3> QED
      BY <1>16, <3>1 DEF CopyDatabase, Closes, TypeOK
  <2>2. process' \in [Processes -> Process]
    <3> DEFINE d == process[p].open
               made == [NoBackup EXCEPT !.database = content[d], !.owed = content[d].rows \cap Files]
    <3>0. process[p] \in Process
      BY DEF TypeOK
    <3>1. d \in Databases
      BY <1>16, <3>0, DatabaseFilesAssumption DEF CopyDatabase, Locked, Opened, Process, Databases
    <3>2. content[d] \in Database /\ content[d].rows \cap Files \in SUBSET Keys
      BY <3>1 DEF TypeOK, Database
    <3>3. made \in Backup
      BY <3>2, IdleIsProcess DEF Backup
    <3>4. FreeName \in Nat
      BY FreeNameIsFree
    <3>5. process' = [process EXCEPT ![p].pc = "archiving", ![p].open = 0, ![p].name = FreeName,
                                     ![p].left = Keys, ![p].made = made]
      BY <1>16 DEF CopyDatabase
    <3> HIDE DEF made
    <3>6. 0 \in 0..MaxDatabases
      BY DatabaseFilesAssumption
    <3>7. [process[p] EXCEPT !.pc = "archiving", !.open = 0, !.name = FreeName, !.left = Keys, !.made = made] \in Process
      BY <3>0, <3>3, <3>4, <3>6 DEF Process
    <3> QED
      BY <3>5, <3>7 DEF TypeOK
  <2> QED
    BY <1>16, <2>1, <2>2 DEF CopyDatabase, data, count, TypeOK
<1>17. ASSUME NEW p \in Processes, NEW k \in Keys, ArchiveUpload(p, k) PROVE TypeOK'
  <2>0. process[p] \in Process
    BY DEF TypeOK
  <2>1. PICK taken \in BOOLEAN :
            process' = [process EXCEPT ![p].left = @ \ {k},
                                       ![p].made.files = IF taken THEN @ \cup {k} ELSE @]
    BY <1>17 DEF ArchiveUpload
  <2>2. process[p].made \in Backup
    BY <2>0 DEF Process
  <2>3. (IF taken THEN process[p].made.files \cup {k} ELSE process[p].made.files) \in SUBSET Keys
    BY <2>2 DEF Backup
  <2>4. [process[p].made EXCEPT !.files = IF taken THEN @ \cup {k} ELSE @] \in Backup
    BY <2>2, <2>3 DEF Backup
  <2>5. process[p].left \ {k} \in SUBSET Keys
    BY <2>0 DEF Process
  <2>6. [process[p] EXCEPT !.left = @ \ {k}, !.made.files = IF taken THEN @ \cup {k} ELSE @] \in Process
    BY <2>0, <2>4, <2>5 DEF Process
  <2>7. process' \in [Processes -> Process]
    BY <2>1, <2>6 DEF TypeOK
  <2> QED
    BY <1>17, <2>7 DEF ArchiveUpload, paths, data, count, TypeOK
<1>18. ASSUME NEW p \in Processes, Publish(p) PROVE TypeOK'
  <2>1. process[p].made \in Backup
    BY DEF TypeOK, Process
  <2>2. backups' \in [1..MaxBackups -> Backup]
    BY <1>18, <2>1 DEF Publish, TypeOK
  <2> QED
    BY <1>18, <2>2, IdleIsProcess DEF Publish, paths, count, TypeOK
<1>19. ASSUME NEW p \in Processes, AbandonBackup(p) PROVE TypeOK'
  <2>0. process[p] \in Process
    BY DEF TypeOK
  <2>1. [process[p] EXCEPT !.pc = "closing"] \in Process
    BY <2>0 DEF Process
  <2>2. process' \in [Processes -> Process]
    BY <1>19, <2>1, IdleIsProcess DEF AbandonBackup, TypeOK
  <2> QED
    BY <1>19, <2>2 DEF AbandonBackup, paths, data, count, TypeOK
<1>20. ASSUME NEW p \in Processes, NEW n \in 1..MaxBackups, BeginRestore(p, n) PROVE TypeOK'
  <2> DEFINE d == NextDatabase
             backup == backups[n]
             copy == [backup.database EXCEPT !.first = backup.database.applied, !.ran = NoDatabase.ran,
                                             !.missing = backup.database.rows \ backup.files]
             new == [Idle EXCEPT !.pc = "moving", !.command = "restore", !.staged = d, !.next = 1,
                                 !.name = restores + 1, !.before = at]
  <2>0. d \in Databases /\ d \in 0..MaxDatabases
    BY <1>20, NextDatabaseIsFresh, DatabaseFilesAssumption DEF BeginRestore, Databases
  <2>1. backup \in Backup /\ backup.database \in Database
    BY DEF TypeOK, Backup
  <2>2. /\ content' = [content EXCEPT ![d] = copy] /\ dir' = [dir EXCEPT ![d] = backup.files]
        /\ process' = [process EXCEPT ![p] = new] /\ restores' = restores + 1 /\ restores < MaxRestores
    BY <1>20 DEF BeginRestore
  <2>3. copy \in Database
    <3>1. NoDatabase.ran \in [Versions -> Nat]
      BY DEF NoDatabase
    <3>2. backup.database.rows \ backup.files \in SUBSET Keys /\ backup.database.applied \in SUBSET Nat
      BY <2>1 DEF Database
    <3> QED
      BY <2>1, <3>1, <3>2 DEF Database
  <2>4. new \in Process
    <3>1. restores + 1 \in Nat /\ at \in Places /\ 1 \in 0..6
      BY DatabaseFilesAssumption DEF TypeOK
    <3> HIDE DEF d
    <3> QED
      BY <2>0, <3>1, IdleIsProcess DEF Process
  <2>5. backup.files \in SUBSET Keys
    BY <2>1 DEF Backup
  <2> HIDE DEF d, backup, copy, new
  <2>6. /\ lock' \in [Processes -> {"none", "shared", "exclusive"}]
        /\ \A a, b \in Processes : a # b /\ lock'[a] = "exclusive" => lock'[b] = "none"
    BY <1>20 DEF BeginRestore, Acquire, MayLock, TypeOK
  <2>7. /\ content' \in [Databases -> Database] /\ dir' \in [Databases -> SUBSET Keys]
        /\ process' \in [Processes -> Process] /\ restores' \in 0..MaxRestores
    BY <2>0, <2>2, <2>3, <2>4, <2>5, DatabaseFilesAssumption DEF TypeOK
  <2> QED
    BY <1>20, <2>6, <2>7 DEF BeginRestore, Acquire, paths, TypeOK
<1>21. ASSUME NEW p \in Processes, Move(p) PROVE TypeOK'
  <2> DEFINE i == process[p].next
  <2>0. process[p] \in Process /\ i \in 1..5 /\ process[p].staged \in 0..MaxDatabases
    BY <1>21 DEF Move, Locked, TypeOK, Process
  <2>1. process' \in [Processes -> Process]
    <3>1. [process[p] EXCEPT !.next = i + 1] \in Process
      BY <2>0 DEF Process
    <3>2. [process[p] EXCEPT !.next = i + 1, !.renamed = @ \cup {i}] \in Process
      <4>1. process[p].renamed \cup {i} \in SUBSET (1..5)
        BY <2>0 DEF Process
      <4>2. i + 1 \in 0..6
        BY <2>0
      <4> HIDE DEF i
      <4> QED
        BY <2>0, <4>1, <4>2 DEF Process
    <3>3. \/ process' = [process EXCEPT ![p].next = i + 1]
          \/ process' = [process EXCEPT ![p].next = i + 1, ![p].renamed = @ \cup {i}]
      BY <1>21 DEF Move
    <3> QED
      BY <3>1, <3>2, <3>3 DEF TypeOK
  <2>2. at' \in Places /\ saved' \in [1..MaxRestores -> Places]
    <3>1. CASE Skips(i)
      BY <1>21, <3>1 DEF Move, TypeOK
    <3>2. CASE Renames(p, i)
      <4> DEFINE x == Part(i)
                 r == Recovery(p)
      <4>1. x \in {"db", "wal", "uploads"} /\ at \in Places /\ 0 \in 0..MaxDatabases
        BY <2>0, DatabaseFilesAssumption DEF Part, TypeOK
      <4>2. CASE i <= 3
        <5>1. at' = [at EXCEPT ![x] = 0] /\ saved' = [saved EXCEPT ![r][x] = at[x]]
          BY <3>2, <4>2 DEF Renames
        <5> HIDE DEF x, r
        <5>2. at' \in Places /\ at[x] \in 0..MaxDatabases
          BY <4>1, <5>1, PlacesChange
        <5>3. ASSUME r \in 1..MaxRestores PROVE [saved[r] EXCEPT ![x] = at[x]] \in Places
          <6>1. saved[r] \in Places
            BY <5>3 DEF TypeOK
          <6> QED
            BY <4>1, <5>2, <6>1, PlacesChange
        <5> QED
          BY <5>1, <5>2, <5>3 DEF TypeOK
      <4>3. CASE ~(i <= 3)
        <5>1. at' = [at EXCEPT ![x] = process[p].staged] /\ saved' = saved
          BY <3>2, <4>3 DEF Renames
        <5> HIDE DEF x
        <5> QED
          BY <2>0, <4>1, <5>1, PlacesChange DEF TypeOK
      <4> QED
        BY <4>2, <4>3
    <3> QED
      BY <1>21, <3>1, <3>2 DEF Move
  <2> QED
    BY <1>21, <2>1, <2>2 DEF Move, data, count, TypeOK
<1>22. ASSUME NEW p \in Processes, MoveFails(p) PROVE TypeOK'
  <2>0. process[p] \in Process
    BY DEF TypeOK
  <2>1. [process[p] EXCEPT !.pc = "rollback"] \in Process
    BY <2>0 DEF Process
  <2>2. process' = [process EXCEPT ![p] = [process[p] EXCEPT !.pc = "rollback"]]
    BY <1>22 DEF MoveFails, Goes, paths, data, count, TypeOK
  <2>3. process' \in [Processes -> Process]
    BY <2>1, <2>2 DEF TypeOK
  <2> QED
    BY <1>22, <2>3 DEF MoveFails, paths, data, count, TypeOK
<1>23. ASSUME NEW p \in Processes, Rollback(p) PROVE TypeOK'
  <2> DEFINE i == LastRenamed(p)
             x == Part(i)
             r == Recovery(p)
  <2>0. /\ process[p] \in Process /\ i \in 1..5 /\ x \in {"db", "wal", "uploads"}
        /\ r \in 1..MaxRestores /\ saved[r] \in Places /\ at \in Places /\ 0 \in 0..MaxDatabases
    BY <1>23, LastRenamedIsOne, DatabaseFilesAssumption DEF Rollback, Locked, Recovery, Part, TypeOK
  <2>1. process' \in [Processes -> Process]
    <3>1. process[p].renamed \ {i} \in SUBSET (1..5)
      BY <2>0 DEF Process
    <3>2. [process[p] EXCEPT !.renamed = @ \ {i}] \in Process
      BY <2>0, <3>1 DEF Process
    <3> QED
      BY <1>23, <3>2 DEF Rollback, TypeOK
  <2>2. at' \in Places /\ saved' \in [1..MaxRestores -> Places]
    <3>1. CASE i <= 3
      <4>1. at' = [at EXCEPT ![x] = saved[r][x]] /\ saved' = [saved EXCEPT ![r][x] = 0]
        BY <1>23, <3>1 DEF Rollback, Undoes
      <4> HIDE DEF x, r
      <4>2. saved[r][x] \in 0..MaxDatabases /\ [saved[r] EXCEPT ![x] = 0] \in Places
        BY <2>0, PlacesChange
      <4>3. at' \in Places
        BY <2>0, <4>1, <4>2, PlacesChange
      <4> QED
        BY <4>1, <4>2, <4>3 DEF TypeOK
    <3>2. CASE ~(i <= 3)
      <4>1. at' = [at EXCEPT ![x] = 0] /\ saved' = saved
        BY <1>23, <3>2 DEF Rollback, Undoes
      <4> HIDE DEF x
      <4> QED
        BY <2>0, <4>1, PlacesChange DEF TypeOK
    <3> QED
      BY <3>1, <3>2
  <2> QED
    BY <1>23, <2>1, <2>2 DEF Rollback, data, count, TypeOK
<1>24. ASSUME NEW p \in Processes, RollbackFails(p) PROVE TypeOK'
  <2>0. process[p] \in Process
    BY DEF TypeOK
  <2>1. process[p].renamed \ {LastRenamed(p)} \in SUBSET (1..5)
    BY <2>0 DEF Process
  <2>2. [process[p] EXCEPT !.renamed = @ \ {LastRenamed(p)}, !.stuck = TRUE] \in Process
    BY <2>0, <2>1 DEF Process
  <2>3. process' \in [Processes -> Process]
    BY <1>24, <2>2 DEF RollbackFails, TypeOK
  <2> QED
    BY <1>24, <2>3 DEF RollbackFails, paths, data, count, TypeOK
<1>25. ASSUME NEW p \in Processes, EndRestore(p) PROVE TypeOK'
  <2>1. content' \in [Databases -> Database] /\ dir' \in [Databases -> SUBSET Keys]
    BY <1>25, IdleIsProcess DEF EndRestore, DiscardCopies, TypeOK
  <2> QED
    BY <1>25, <2>1, IdleIsProcess DEF EndRestore, paths, count, TypeOK
<1>26. ASSUME UNCHANGED vars PROVE TypeOK'
  BY <1>26 DEF vars, TypeOK
<1> QED
  BY <1>1, <1>2, <1>3, <1>4, <1>5, <1>6, <1>7, <1>8, <1>9, <1>10, <1>11, <1>12, <1>13,
     <1>14, <1>15, <1>16, <1>17, <1>18, <1>19, <1>20, <1>21, <1>22, <1>23, <1>24, <1>25, <1>26
     DEF Next, Serve, Migrate, Create, Restore

\* Every step leaves each command with the lock that its state needs.
LEMMA LockedStep == TypeOK /\ Locked /\ [Next]_vars => Locked'
<1> SUFFICES ASSUME TypeOK, Locked, [Next]_vars PROVE Locked'
  OBVIOUS
<1>1. ASSUME NEW p \in Processes, OpenDatabase(p) PROVE Locked'
  <2> DEFINE d == IF at.db = 0 THEN NextDatabase ELSE at.db
  <2>1. d # 0 /\ (at.db # 0 => d = at.db)
    BY <1>1, NextDatabaseIsFresh DEF OpenDatabase
  <2>2. /\ process[p].pc = "locked" /\ process'[p].pc \in {"copying", "opened"} /\ process'[p].open = d
        /\ process'[p].staged = process[p].staged /\ lock' = lock /\ at'.db = d /\ at'.wal = d
        /\ \A q \in Processes : q # p => process'[q] = process[q]
    <3>1. process[p] \in Process
      BY DEF TypeOK
    <3> QED
      BY <1>1, <3>1 DEF OpenDatabase, Process, TypeOK, Places
  <2> HIDE DEF d
  <2>3. \A q \in Processes : process[q].open # 0 => process[q].open = d
    BY <2>1 DEF Locked
  <2> QED
    BY <2>1, <2>2, <2>3 DEF Locked, Opened
<1>2. ASSUME NEW p \in Processes, CloseDatabase(p) PROVE Locked'
  <2>1. at'.db = at.db /\ (at'.wal = at.wal \/ \A q \in Processes : q # p => process[q].open = 0)
    <3>1. process[p].open # 0
      BY <1>2 DEF CloseDatabase, Locked, Opened
    <3>2. (\A q \in Processes \ {p} : process[q].open # process[p].open)
            => \A q \in Processes : q # p => process[q].open = 0
      BY <3>1 DEF Locked
    <3> QED
      BY <1>2, <3>2 DEF CloseDatabase, Closes, TypeOK, Places
  <2>2. /\ process'[p].pc = "closed" /\ process'[p].open = 0 /\ process'[p].staged = 0
        /\ \A q \in Processes : q # p => process'[q] = process[q]
        /\ lock' = lock /\ lock[p] # "none"
    BY <1>2, IdleHasNothing DEF CloseDatabase, TypeOK, Locked
  <2> QED
    BY <2>1, <2>2, LetsGo
<1>3. ASSUME NEW p \in Processes, Unlock(p) PROVE Locked'
  <2>1. /\ process'[p].pc = "idle" /\ process'[p].open = 0 /\ process'[p].staged = 0 /\ at' = at
        /\ lock'[p] = "none" /\ \A q \in Processes : q # p => process'[q] = process[q] /\ lock'[q] = lock[q]
    BY <1>3, IdleHasNothing DEF Unlock, paths, TypeOK
  <2> QED
    BY <2>1, LetsGo
<1>4. ASSUME NEW p \in Processes, Crash(p) PROVE Locked'
  <2>1. /\ process'[p].pc = "idle" /\ process'[p].open = 0 /\ process'[p].staged = 0 /\ at' = at
        /\ lock'[p] = "none" /\ \A q \in Processes : q # p => process'[q] = process[q] /\ lock'[q] = lock[q]
    BY <1>4, IdleHasNothing DEF Crash, TypeOK
  <2> QED
    BY <2>1, LetsGo
<1>5. ASSUME NEW p \in Processes, NEW command \in {"serve", "migrate", "backup"}, Begin(p, command)
      PROVE  Locked'
  <2>1. /\ process[p].pc = "idle" /\ process'[p].pc = "locked" /\ process'[p].open = process[p].open
        /\ process'[p].staged = process[p].staged /\ lock'[p] = "shared" /\ at' = at
        /\ \A q \in Processes : q # p => process'[q] = process[q] /\ lock'[q] = lock[q]
    <3>1. process[p] \in Process
      BY DEF TypeOK
    <3> QED
      BY <1>5, <3>1 DEF Begin, Acquire, paths, Process, TypeOK
  <2> QED
    BY <2>1 DEF Locked, Opened
<1>6. ASSUME NEW p \in Processes, StopServing(p) PROVE Locked'
  <2>1. lock' = lock /\ at'.db = at.db /\ at'.wal = at.wal
    BY <1>6 DEF StopServing, paths, data, count, Goes, TypeOK, Places
  <2>2. ASSUME NEW q \in Processes
        PROVE  /\ process'[q].open = process[q].open /\ process'[q].staged = process[q].staged
               /\ process'[q].name = process[q].name
               /\ process'[q].next = process[q].next \/ process'[q].next \in 1..6
               /\ \/ process'[q].pc = process[q].pc
                  \/ process[q].pc \in Opened /\ process'[q].pc \in Opened
                  \/ process[q].pc \in {"moving", "rollback"} /\ process'[q].pc \in {"moving", "rollback"}
    <3>1. process[q] \in Process /\ process[p] \in Process
      BY DEF TypeOK
    <3> QED
      BY <1>6, <3>1 DEF StopServing, paths, data, count, Goes, Process, Opened, TypeOK
  <2> QED
    BY <2>1, <2>2, SameShape
<1>7. ASSUME NEW p \in Processes, NEW k \in Keys, WriteUpload(p, k) PROVE Locked'
  <2>1. lock' = lock /\ at'.db = at.db /\ at'.wal = at.wal
    BY <1>7 DEF WriteUpload, paths, data, count, TypeOK, Places
  <2>2. ASSUME NEW q \in Processes
        PROVE  /\ process'[q].open = process[q].open /\ process'[q].staged = process[q].staged
               /\ process'[q].name = process[q].name
               /\ process'[q].next = process[q].next \/ process'[q].next \in 1..6
               /\ \/ process'[q].pc = process[q].pc
                  \/ process[q].pc \in Opened /\ process'[q].pc \in Opened
                  \/ process[q].pc \in {"moving", "rollback"} /\ process'[q].pc \in {"moving", "rollback"}
    <3>1. process[q] \in Process /\ process[p] \in Process
      BY DEF TypeOK
    <3> QED
      BY <1>7, <3>1 DEF WriteUpload, paths, data, count, Process, Opened, TypeOK
  <2> QED
    BY <2>1, <2>2, SameShape
<1>8. ASSUME NEW p \in Processes, NEW k \in Keys, AttachUpload(p, k) PROVE Locked'
  <2>1. lock' = lock /\ at'.db = at.db /\ at'.wal = at.wal
    BY <1>8 DEF AttachUpload, paths, data, count, TypeOK, Places
  <2>2. ASSUME NEW q \in Processes
        PROVE  /\ process'[q].open = process[q].open /\ process'[q].staged = process[q].staged
               /\ process'[q].name = process[q].name
               /\ process'[q].next = process[q].next \/ process'[q].next \in 1..6
               /\ \/ process'[q].pc = process[q].pc
                  \/ process[q].pc \in Opened /\ process'[q].pc \in Opened
                  \/ process[q].pc \in {"moving", "rollback"} /\ process'[q].pc \in {"moving", "rollback"}
    <3>1. process[q] \in Process /\ process[p] \in Process
      BY DEF TypeOK
    <3> QED
      BY <1>8, <3>1 DEF AttachUpload, paths, data, count, Process, Opened, TypeOK
  <2> QED
    BY <2>1, <2>2, SameShape
<1>9. ASSUME NEW p \in Processes, NEW k \in Keys, DeleteAttachment(p, k) PROVE Locked'
  <2>1. lock' = lock /\ at'.db = at.db /\ at'.wal = at.wal
    BY <1>9 DEF DeleteAttachment, paths, data, count, TypeOK, Places
  <2>2. ASSUME NEW q \in Processes
        PROVE  /\ process'[q].open = process[q].open /\ process'[q].staged = process[q].staged
               /\ process'[q].name = process[q].name
               /\ process'[q].next = process[q].next \/ process'[q].next \in 1..6
               /\ \/ process'[q].pc = process[q].pc
                  \/ process[q].pc \in Opened /\ process'[q].pc \in Opened
                  \/ process[q].pc \in {"moving", "rollback"} /\ process'[q].pc \in {"moving", "rollback"}
    <3>1. process[q] \in Process /\ process[p] \in Process
      BY DEF TypeOK
    <3> QED
      BY <1>9, <3>1 DEF DeleteAttachment, paths, data, count, Process, Opened, TypeOK
  <2> QED
    BY <2>1, <2>2, SameShape
<1>10. ASSUME NEW p \in Processes, NEW k \in Keys, RemoveUpload(p, k) PROVE Locked'
  <2>1. lock' = lock /\ at'.db = at.db /\ at'.wal = at.wal
    BY <1>10 DEF RemoveUpload, paths, data, count, TypeOK, Places
  <2>2. ASSUME NEW q \in Processes
        PROVE  /\ process'[q].open = process[q].open /\ process'[q].staged = process[q].staged
               /\ process'[q].name = process[q].name
               /\ process'[q].next = process[q].next \/ process'[q].next \in 1..6
               /\ \/ process'[q].pc = process[q].pc
                  \/ process[q].pc \in Opened /\ process'[q].pc \in Opened
                  \/ process[q].pc \in {"moving", "rollback"} /\ process'[q].pc \in {"moving", "rollback"}
    <3>1. process[q] \in Process /\ process[p] \in Process
      BY DEF TypeOK
    <3> QED
      BY <1>10, <3>1 DEF RemoveUpload, paths, data, count, Process, Opened, TypeOK
  <2> QED
    BY <2>1, <2>2, SameShape
<1>11. ASSUME NEW p \in Processes, Inspect(p) PROVE Locked'
  <2>1. lock' = lock /\ at'.db = at.db /\ at'.wal = at.wal
    BY <1>11 DEF Inspect, paths, data, count, TypeOK, Places
  <2>2. ASSUME NEW q \in Processes
        PROVE  /\ process'[q].open = process[q].open /\ process'[q].staged = process[q].staged
               /\ process'[q].name = process[q].name
               /\ process'[q].next = process[q].next \/ process'[q].next \in 1..6
               /\ \/ process'[q].pc = process[q].pc
                  \/ process[q].pc \in Opened /\ process'[q].pc \in Opened
                  \/ process[q].pc \in {"moving", "rollback"} /\ process'[q].pc \in {"moving", "rollback"}
    <3>1. process[q] \in Process /\ process[p] \in Process
      BY DEF TypeOK
    <3> QED
      BY <1>11, <3>1 DEF Inspect, paths, data, count, Process, Opened, TypeOK
  <2> QED
    BY <2>1, <2>2, SameShape
<1>12. ASSUME NEW p \in Processes, InstallCurrentSchema(p) PROVE Locked'
  <2>1. lock' = lock /\ at'.db = at.db /\ at'.wal = at.wal
    BY <1>12 DEF InstallCurrentSchema, paths, data, count, Goes, TypeOK, Places
  <2>2. ASSUME NEW q \in Processes
        PROVE  /\ process'[q].open = process[q].open /\ process'[q].staged = process[q].staged
               /\ process'[q].name = process[q].name
               /\ process'[q].next = process[q].next \/ process'[q].next \in 1..6
               /\ \/ process'[q].pc = process[q].pc
                  \/ process[q].pc \in Opened /\ process'[q].pc \in Opened
                  \/ process[q].pc \in {"moving", "rollback"} /\ process'[q].pc \in {"moving", "rollback"}
    <3>1. process[q] \in Process /\ process[p] \in Process
      BY DEF TypeOK
    <3> QED
      BY <1>12, <3>1 DEF InstallCurrentSchema, paths, data, count, Goes, Process, Opened, TypeOK
  <2> QED
    BY <2>1, <2>2, SameShape
<1>13. ASSUME NEW p \in Processes, BeginTransaction(p) PROVE Locked'
  <2>1. lock' = lock /\ at'.db = at.db /\ at'.wal = at.wal
    BY <1>13 DEF BeginTransaction, paths, data, count, Goes, TypeOK, Places
  <2>2. ASSUME NEW q \in Processes
        PROVE  /\ process'[q].open = process[q].open /\ process'[q].staged = process[q].staged
               /\ process'[q].name = process[q].name
               /\ process'[q].next = process[q].next \/ process'[q].next \in 1..6
               /\ \/ process'[q].pc = process[q].pc
                  \/ process[q].pc \in Opened /\ process'[q].pc \in Opened
                  \/ process[q].pc \in {"moving", "rollback"} /\ process'[q].pc \in {"moving", "rollback"}
    <3>1. process[q] \in Process /\ process[p] \in Process
      BY DEF TypeOK
    <3> QED
      BY <1>13, <3>1 DEF BeginTransaction, paths, data, count, Goes, Process, Opened, TypeOK
  <2> QED
    BY <2>1, <2>2, SameShape
<1>14. ASSUME NEW p \in Processes, Up(p) PROVE Locked'
  <2>1. lock' = lock /\ at'.db = at.db /\ at'.wal = at.wal
    BY <1>14 DEF Up, paths, data, count, TypeOK, Places
  <2>2. ASSUME NEW q \in Processes
        PROVE  /\ process'[q].open = process[q].open /\ process'[q].staged = process[q].staged
               /\ process'[q].name = process[q].name
               /\ process'[q].next = process[q].next \/ process'[q].next \in 1..6
               /\ \/ process'[q].pc = process[q].pc
                  \/ process[q].pc \in Opened /\ process'[q].pc \in Opened
                  \/ process[q].pc \in {"moving", "rollback"} /\ process'[q].pc \in {"moving", "rollback"}
    <3>1. process[q] \in Process /\ process[p] \in Process
      BY DEF TypeOK
    <3> QED
      BY <1>14, <3>1 DEF Up, paths, data, count, Process, Opened, TypeOK
  <2> QED
    BY <2>1, <2>2, SameShape
<1>15. ASSUME NEW p \in Processes, CommitMigrations(p) PROVE Locked'
  <2>1. lock' = lock /\ at'.db = at.db /\ at'.wal = at.wal
    BY <1>15 DEF CommitMigrations, paths, data, count, Goes, TypeOK, Places
  <2>2. ASSUME NEW q \in Processes
        PROVE  /\ process'[q].open = process[q].open /\ process'[q].staged = process[q].staged
               /\ process'[q].name = process[q].name
               /\ process'[q].next = process[q].next \/ process'[q].next \in 1..6
               /\ \/ process'[q].pc = process[q].pc
                  \/ process[q].pc \in Opened /\ process'[q].pc \in Opened
                  \/ process[q].pc \in {"moving", "rollback"} /\ process'[q].pc \in {"moving", "rollback"}
    <3>1. process[q] \in Process /\ process[p] \in Process
      BY DEF TypeOK
    <3> QED
      BY <1>15, <3>1 DEF CommitMigrations, paths, data, count, Goes, Process, Opened, TypeOK
  <2> QED
    BY <2>1, <2>2, SameShape
<1>16. ASSUME NEW p \in Processes, CopyDatabase(p) PROVE Locked'
  <2>1. at'.db = at.db /\ (at'.wal = at.wal \/ \A q \in Processes : q # p => process[q].open = 0)
    <3>1. process[p].open # 0
      BY <1>16 DEF CopyDatabase, Locked, Opened
    <3>2. (\A q \in Processes \ {p} : process[q].open # process[p].open)
            => \A q \in Processes : q # p => process[q].open = 0
      BY <3>1 DEF Locked
    <3> QED
      BY <1>16, <3>2 DEF CopyDatabase, Closes, TypeOK, Places
  <2>2. /\ process[p].pc = "copying" /\ process'[p].pc = "archiving" /\ process'[p].open = 0
        /\ process'[p].staged = process[p].staged /\ lock' = lock
        /\ \A q \in Processes : q # p => process'[q] = process[q]
    <3>1. process[p] \in Process
      BY DEF TypeOK
    <3> QED
      BY <1>16, <3>1 DEF CopyDatabase, TypeOK, Process
  <2> QED
    BY <2>1, <2>2 DEF Locked, Opened
<1>17. ASSUME NEW p \in Processes, NEW k \in Keys, ArchiveUpload(p, k) PROVE Locked'
  <2>1. lock' = lock /\ at'.db = at.db /\ at'.wal = at.wal
    BY <1>17 DEF ArchiveUpload, paths, data, count, TypeOK, Places
  <2>2. ASSUME NEW q \in Processes
        PROVE  /\ process'[q].open = process[q].open /\ process'[q].staged = process[q].staged
               /\ process'[q].name = process[q].name
               /\ process'[q].next = process[q].next \/ process'[q].next \in 1..6
               /\ \/ process'[q].pc = process[q].pc
                  \/ process[q].pc \in Opened /\ process'[q].pc \in Opened
                  \/ process[q].pc \in {"moving", "rollback"} /\ process'[q].pc \in {"moving", "rollback"}
    <3>1. process[q] \in Process /\ process[p] \in Process
      BY DEF TypeOK
    <3> QED
      BY <1>17, <3>1 DEF ArchiveUpload, paths, data, count, Process, Opened, TypeOK
  <2> QED
    BY <2>1, <2>2, SameShape
<1>18. ASSUME NEW p \in Processes, Publish(p) PROVE Locked'
  <2>1. /\ process[p].pc \in {"archiving", "moving", "rollback"} /\ process'[p].pc = "closed"
        /\ process'[p].open = 0 /\ process'[p].staged = 0 /\ at' = at
        /\ lock' = lock /\ \A q \in Processes : q # p => process'[q] = process[q]
    BY <1>18, IdleHasNothing DEF Publish, paths, TypeOK
  <2>2. lock[p] # "none"
    BY <2>1 DEF Locked
  <2> QED
    BY <2>1, <2>2, LetsGo
<1>19. ASSUME NEW p \in Processes, AbandonBackup(p) PROVE Locked'
  <2>1. process[p] \in Process
    BY DEF TypeOK
  <2>2. CASE process[p].pc = "copying"
    <3>1. /\ lock' = lock /\ at' = at /\ process' = [process EXCEPT ![p] = [process[p] EXCEPT !.pc = "closing"]]
      BY <1>19, <2>2 DEF AbandonBackup, paths, TypeOK
    <3>2. \A q \in Processes :
            /\ process'[q].open = process[q].open /\ process'[q].staged = process[q].staged
            /\ process'[q].name = process[q].name /\ process'[q].next = process[q].next
            /\ process'[q].pc = process[q].pc \/ (process[q].pc \in Opened /\ process'[q].pc \in Opened)
      BY <2>1, <2>2, <3>1 DEF Opened, Process, TypeOK
    <3> QED
      BY <3>1, <3>2, SameShape
  <2>3. CASE process[p].pc # "copying"
    <3>1. /\ process[p].pc = "archiving" /\ process'[p].pc = "closed"
          /\ process'[p].open = 0 /\ process'[p].staged = 0 /\ at' = at
          /\ lock' = lock /\ \A q \in Processes : q # p => process'[q] = process[q]
      BY <1>19, <2>3, IdleHasNothing DEF AbandonBackup, paths, TypeOK
    <3>2. lock[p] # "none"
      BY <3>1 DEF Locked
    <3> QED
      BY <3>1, <3>2, LetsGo
  <2> QED
    BY <2>2, <2>3
<1>20. ASSUME NEW p \in Processes, NEW n \in 1..MaxBackups, BeginRestore(p, n) PROVE Locked'
  <2>1. /\ process[p].pc = "idle" /\ process'[p].pc = "moving" /\ process'[p].open = 0
        /\ process'[p].staged = NextDatabase /\ process'[p].next = 1 /\ process'[p].name = restores + 1
        /\ lock'[p] = "exclusive" /\ at' = at
        /\ \A q \in Processes : q # p => process'[q] = process[q] /\ lock'[q] = lock[q]
    BY <1>20 DEF BeginRestore, Acquire, paths, TypeOK, Idle
  <2>2. NextDatabase \in Databases
    BY <1>20, NextDatabaseIsFresh DEF BeginRestore
  <2>3. restores + 1 \in 1..MaxRestores
    BY <1>20, DatabaseFilesAssumption DEF BeginRestore, TypeOK
  <2> QED
    BY <2>1, <2>2, <2>3 DEF Locked, Opened
<1>21. ASSUME NEW p \in Processes, Move(p) PROVE Locked'
  <2>1. /\ process[p].pc = "moving" /\ lock' = lock
        /\ process'[p].pc = "moving" /\ process'[p].open = process[p].open
        /\ process'[p].staged = process[p].staged /\ process'[p].name = process[p].name
        /\ process'[p].next \in 1..6
        /\ \A q \in Processes : q # p => process'[q] = process[q]
    <3>1. process[p] \in Process /\ process[p].next \in 1..6
      BY <1>21 DEF TypeOK, Locked, Move
    <3> QED
      BY <1>21, <3>1 DEF Move, Process, TypeOK
  <2>2. \A q \in Processes : process'[q].open = 0
    BY <2>1, RestoreIsAlone
  <2>3. \A q \in Processes : process[q].open = 0
    BY <2>1, RestoreIsAlone
  <2> QED
    BY <2>1, <2>2, <2>3 DEF Locked, Opened
<1>22. ASSUME NEW p \in Processes, MoveFails(p) PROVE Locked'
  <2>1. lock' = lock /\ at'.db = at.db /\ at'.wal = at.wal
    BY <1>22 DEF MoveFails, paths, data, count, Goes, TypeOK, Places
  <2>2. ASSUME NEW q \in Processes
        PROVE  /\ process'[q].open = process[q].open /\ process'[q].staged = process[q].staged
               /\ process'[q].name = process[q].name
               /\ process'[q].next = process[q].next \/ process'[q].next \in 1..6
               /\ \/ process'[q].pc = process[q].pc
                  \/ process[q].pc \in Opened /\ process'[q].pc \in Opened
                  \/ process[q].pc \in {"moving", "rollback"} /\ process'[q].pc \in {"moving", "rollback"}
    <3>1. process[q] \in Process /\ process[p] \in Process
      BY DEF TypeOK
    <3> QED
      BY <1>22, <3>1 DEF MoveFails, paths, data, count, Goes, Process, Opened, TypeOK
  <2> QED
    BY <2>1, <2>2, SameShape
<1>23. ASSUME NEW p \in Processes, Rollback(p) PROVE Locked'
  <2>1. /\ process[p].pc = "rollback" /\ lock' = lock
        /\ process'[p].pc = "rollback" /\ process'[p].open = process[p].open
        /\ process'[p].staged = process[p].staged /\ process'[p].name = process[p].name
        /\ process'[p].next \in 1..6
        /\ \A q \in Processes : q # p => process'[q] = process[q]
    <3>1. process[p] \in Process /\ process[p].next \in 1..6
      BY <1>23 DEF TypeOK, Locked, Rollback
    <3> QED
      BY <1>23, <3>1 DEF Rollback, Process, TypeOK
  <2>2. \A q \in Processes : process'[q].open = 0
    BY <2>1, RestoreIsAlone
  <2>3. \A q \in Processes : process[q].open = 0
    BY <2>1, RestoreIsAlone
  <2> QED
    BY <2>1, <2>2, <2>3 DEF Locked, Opened
<1>24. ASSUME NEW p \in Processes, RollbackFails(p) PROVE Locked'
  <2>1. lock' = lock /\ at'.db = at.db /\ at'.wal = at.wal
    BY <1>24 DEF RollbackFails, paths, data, count, TypeOK, Places
  <2>2. ASSUME NEW q \in Processes
        PROVE  /\ process'[q].open = process[q].open /\ process'[q].staged = process[q].staged
               /\ process'[q].name = process[q].name
               /\ process'[q].next = process[q].next \/ process'[q].next \in 1..6
               /\ \/ process'[q].pc = process[q].pc
                  \/ process[q].pc \in Opened /\ process'[q].pc \in Opened
                  \/ process[q].pc \in {"moving", "rollback"} /\ process'[q].pc \in {"moving", "rollback"}
    <3>1. process[q] \in Process /\ process[p] \in Process
      BY DEF TypeOK
    <3> QED
      BY <1>24, <3>1 DEF RollbackFails, paths, data, count, Process, Opened, TypeOK
  <2> QED
    BY <2>1, <2>2, SameShape
<1>25. ASSUME NEW p \in Processes, EndRestore(p) PROVE Locked'
  <2>1. /\ process[p].pc \in {"archiving", "moving", "rollback"} /\ process'[p].pc = "closed"
        /\ process'[p].open = 0 /\ process'[p].staged = 0 /\ at' = at
        /\ lock' = lock /\ \A q \in Processes : q # p => process'[q] = process[q]
    BY <1>25, IdleHasNothing DEF EndRestore, RestoreEnds, paths, TypeOK
  <2>2. lock[p] # "none"
    BY <2>1 DEF Locked
  <2> QED
    BY <2>1, <2>2, LetsGo
<1>26. ASSUME UNCHANGED vars PROVE Locked'
  BY <1>26 DEF vars, Locked
<1> QED
  BY <1>1, <1>2, <1>3, <1>4, <1>5, <1>6, <1>7, <1>8, <1>9, <1>10, <1>11, <1>12, <1>13,
     <1>14, <1>15, <1>16, <1>17, <1>18, <1>19, <1>20, <1>21, <1>22, <1>23, <1>24, <1>25, <1>26
     DEF Next, Serve, Migrate, Create, Restore

-----------------------------------------------------------------------------
(* Backups.                                                                *)

\* A file that was there as the database was copied is archived, still there
\* to be walked to, or known to be removed.
Archived ==
    /\ \A p \in Processes : process[p].pc = "archiving" =>
            process[p].made.owed \subseteq
                process[p].made.files \cup process[p].made.gone \cup (process[p].left \cap Files)
    /\ BackupsAreComplete

\* Steps that add files and leave the backups under way alone.
LEMMA SameArchive ==
    ASSUME Archived, backups' = backups, Files \subseteq Files',
           \A p \in Processes : process'[p].pc = "archiving" =>
                /\ process[p].pc = "archiving" /\ process'[p].left = process[p].left
                /\ process'[p].made = process[p].made
    PROVE  Archived'
  BY DEF Archived, BackupsAreComplete

\* Where nobody makes a backup there is nothing to keep.
LEMMA NoArchive ==
    ASSUME Archived, backups' = backups, \A p \in Processes : process'[p].pc # "archiving"
    PROVE  Archived'
  BY DEF Archived, BackupsAreComplete

\* No file that a backup owes is forgotten.
LEMMA ArchivedStep == TypeOK /\ Locked /\ Archived /\ [Next]_vars => Archived'
<1> SUFFICES ASSUME TypeOK, Locked, Archived, [Next]_vars PROVE Archived'
  OBVIOUS
<1>1. ASSUME NEW p \in Processes, OpenDatabase(p) PROVE Archived'
  <2>1. backups' = backups /\ Files' = Files
    BY <1>1 DEF OpenDatabase, paths, data, count, Files, TypeOK, Places
  <2>2. \A q \in Processes : process'[q].pc = "archiving" =>
                /\ process[q].pc = "archiving" /\ process'[q].left = process[q].left
                /\ process'[q].made = process[q].made
    <3>1. process[p] \in Process
      BY DEF TypeOK
    <3> QED
      BY <1>1, <3>1 DEF OpenDatabase, paths, data, count, Process, TypeOK
  <2> QED
    BY <2>1, <2>2, SameArchive
<1>2. ASSUME NEW p \in Processes, CloseDatabase(p) PROVE Archived'
  <2>1. backups' = backups /\ Files' = Files
    BY <1>2 DEF CloseDatabase, paths, data, count, Closes, Files, TypeOK, Places
  <2>2. \A q \in Processes : process'[q].pc = "archiving" =>
                /\ process[q].pc = "archiving" /\ process'[q].left = process[q].left
                /\ process'[q].made = process[q].made
    <3>1. process[p] \in Process
      BY DEF TypeOK
    <3> QED
      BY <1>2, <3>1, IdleHasNothing DEF CloseDatabase, paths, data, count, Closes, Process, TypeOK
  <2> QED
    BY <2>1, <2>2, SameArchive
<1>3. ASSUME NEW p \in Processes, Unlock(p) PROVE Archived'
  <2>1. backups' = backups /\ Files' = Files
    BY <1>3 DEF Unlock, paths, data, count, Files, TypeOK, Places
  <2>2. \A q \in Processes : process'[q].pc = "archiving" =>
                /\ process[q].pc = "archiving" /\ process'[q].left = process[q].left
                /\ process'[q].made = process[q].made
    <3>1. process[p] \in Process
      BY DEF TypeOK
    <3> QED
      BY <1>3, <3>1, IdleHasNothing DEF Unlock, paths, data, count, Process, TypeOK
  <2> QED
    BY <2>1, <2>2, SameArchive
<1>4. ASSUME NEW p \in Processes, Crash(p) PROVE Archived'
  <2>1. CASE process[p].pc \in {"moving", "rollback"}
    <3>1. backups' = backups /\ \A q \in Processes : process'[q].pc = "idle"
      BY <1>4, <2>1, RestoreIsAlone, IdleHasNothing DEF Crash, TypeOK
    <3> QED
      BY <3>1, NoArchive
  <2>2. CASE process[p].pc \notin {"moving", "rollback"}
    <3>1. process[p].staged = 0
      BY <2>2 DEF Locked
    <3>2. backups' = backups /\ Files' = Files
      BY <1>4, <3>1 DEF Crash, DiscardCopies, Files
    <3>3. \A q \in Processes : process'[q].pc = "archiving" => process'[q] = process[q]
      BY <1>4, IdleHasNothing DEF Crash, TypeOK
    <3> QED
      BY <3>2, <3>3, SameArchive
  <2> QED
    BY <2>1, <2>2
<1>5. ASSUME NEW p \in Processes, NEW command \in {"serve", "migrate", "backup"}, Begin(p, command)
      PROVE  Archived'
  <2>1. backups' = backups /\ Files' = Files
    BY <1>5 DEF Begin, Acquire, paths, data, count, Files, TypeOK, Places
  <2>2. \A q \in Processes : process'[q].pc = "archiving" =>
                /\ process[q].pc = "archiving" /\ process'[q].left = process[q].left
                /\ process'[q].made = process[q].made
    <3>1. process[p] \in Process
      BY DEF TypeOK
    <3> QED
      BY <1>5, <3>1 DEF Begin, Acquire, paths, data, count, Process, TypeOK
  <2> QED
    BY <2>1, <2>2, SameArchive
<1>6. ASSUME NEW p \in Processes, StopServing(p) PROVE Archived'
  <2>1. backups' = backups /\ Files' = Files
    BY <1>6 DEF StopServing, paths, data, count, Goes, Files, TypeOK, Places
  <2>2. \A q \in Processes : process'[q].pc = "archiving" =>
                /\ process[q].pc = "archiving" /\ process'[q].left = process[q].left
                /\ process'[q].made = process[q].made
    <3>1. process[p] \in Process
      BY DEF TypeOK
    <3> QED
      BY <1>6, <3>1 DEF StopServing, paths, data, count, Goes, Process, TypeOK
  <2> QED
    BY <2>1, <2>2, SameArchive
<1>7. ASSUME NEW p \in Processes, NEW k \in Keys, WriteUpload(p, k) PROVE Archived'
  <2>1. Files \subseteq Files'
    <3> DEFINE d == IF at.uploads = 0 THEN NextDirectory ELSE at.uploads
    <3>1. d \in Databases /\ d # 0
      BY NextDirectoryIsOne, DatabaseFilesAssumption DEF TypeOK, Places, Databases
    <3>2. at' = [at EXCEPT !.uploads = d] /\ dir' = [dir EXCEPT ![d] = @ \cup {k}]
      BY <1>7 DEF WriteUpload
    <3>3. at.uploads # 0 => d = at.uploads
      OBVIOUS
    <3> HIDE DEF d
    <3>4. at'.uploads = d /\ dir[d] \subseteq dir'[d]
      BY <3>1, <3>2 DEF TypeOK, Places
    <3> QED
      BY <3>1, <3>3, <3>4 DEF Files
  <2> QED
    BY <1>7, <2>1, SameArchive DEF WriteUpload
<1>8. ASSUME NEW p \in Processes, NEW k \in Keys, AttachUpload(p, k) PROVE Archived'
  <2>1. backups' = backups /\ Files' = Files
    BY <1>8 DEF AttachUpload, paths, data, count, Files, TypeOK, Places
  <2>2. \A q \in Processes : process'[q].pc = "archiving" =>
                /\ process[q].pc = "archiving" /\ process'[q].left = process[q].left
                /\ process'[q].made = process[q].made
    <3>1. process[p] \in Process
      BY DEF TypeOK
    <3> QED
      BY <1>8, <3>1 DEF AttachUpload, paths, data, count, Process, TypeOK
  <2> QED
    BY <2>1, <2>2, SameArchive
<1>9. ASSUME NEW p \in Processes, NEW k \in Keys, DeleteAttachment(p, k) PROVE Archived'
  <2>1. backups' = backups /\ Files' = Files
    BY <1>9 DEF DeleteAttachment, paths, data, count, Files, TypeOK, Places
  <2>2. \A q \in Processes : process'[q].pc = "archiving" =>
                /\ process[q].pc = "archiving" /\ process'[q].left = process[q].left
                /\ process'[q].made = process[q].made
    <3>1. process[p] \in Process
      BY DEF TypeOK
    <3> QED
      BY <1>9, <3>1 DEF DeleteAttachment, paths, data, count, Process, TypeOK
  <2> QED
    BY <2>1, <2>2, SameArchive
<1>10. ASSUME NEW p \in Processes, NEW k \in Keys, RemoveUpload(p, k) PROVE Archived'
  <2>1. /\ Files \ {k} \subseteq Files' /\ backups' = backups
        /\ process' = [q \in Processes |-> IF process[q].pc # "archiving" THEN process[q]
                                            ELSE [process[q] EXCEPT !.made.gone = @ \cup {k}]]
    BY <1>10 DEF RemoveUpload, Files, paths, TypeOK
  <2>2. ASSUME NEW q \in Processes, process'[q].pc = "archiving"
        PROVE  process'[q].made.owed \subseteq
                process'[q].made.files \cup process'[q].made.gone \cup (process'[q].left \cap Files')
    <3>1. process[q] \in Process /\ process[q].made \in Backup
      BY DEF TypeOK, Process
    <3>2. process[q].pc = "archiving"
      BY <2>1, <2>2
    <3>3. process'[q] = [process[q] EXCEPT !.made.gone = @ \cup {k}]
      BY <2>1, <3>2
    <3>4. /\ process'[q].made.owed = process[q].made.owed /\ process'[q].made.files = process[q].made.files
          /\ process'[q].made.gone = process[q].made.gone \cup {k} /\ process'[q].left = process[q].left
      BY <3>1, <3>3 DEF Process, Backup
    <3>5. process[q].made.owed \subseteq
                process[q].made.files \cup process[q].made.gone \cup (process[q].left \cap Files)
      BY <3>2 DEF Archived
    <3> QED
      BY <2>1, <3>4, <3>5
  <2> QED
    BY <2>1, <2>2 DEF Archived, BackupsAreComplete
<1>11. ASSUME NEW p \in Processes, Inspect(p) PROVE Archived'
  <2>1. backups' = backups /\ Files' = Files
    BY <1>11 DEF Inspect, paths, data, count, Files, TypeOK, Places
  <2>2. \A q \in Processes : process'[q].pc = "archiving" =>
                /\ process[q].pc = "archiving" /\ process'[q].left = process[q].left
                /\ process'[q].made = process[q].made
    <3>1. process[p] \in Process
      BY DEF TypeOK
    <3> QED
      BY <1>11, <3>1 DEF Inspect, paths, data, count, Process, TypeOK
  <2> QED
    BY <2>1, <2>2, SameArchive
<1>12. ASSUME NEW p \in Processes, InstallCurrentSchema(p) PROVE Archived'
  <2>1. backups' = backups /\ Files' = Files
    BY <1>12 DEF InstallCurrentSchema, paths, data, count, Goes, Files, TypeOK, Places
  <2>2. \A q \in Processes : process'[q].pc = "archiving" =>
                /\ process[q].pc = "archiving" /\ process'[q].left = process[q].left
                /\ process'[q].made = process[q].made
    <3>1. process[p] \in Process
      BY DEF TypeOK
    <3> QED
      BY <1>12, <3>1 DEF InstallCurrentSchema, paths, data, count, Goes, Process, TypeOK
  <2> QED
    BY <2>1, <2>2, SameArchive
<1>13. ASSUME NEW p \in Processes, BeginTransaction(p) PROVE Archived'
  <2>1. backups' = backups /\ Files' = Files
    BY <1>13 DEF BeginTransaction, paths, data, count, Goes, Files, TypeOK, Places
  <2>2. \A q \in Processes : process'[q].pc = "archiving" =>
                /\ process[q].pc = "archiving" /\ process'[q].left = process[q].left
                /\ process'[q].made = process[q].made
    <3>1. process[p] \in Process
      BY DEF TypeOK
    <3> QED
      BY <1>13, <3>1 DEF BeginTransaction, paths, data, count, Goes, Process, TypeOK
  <2> QED
    BY <2>1, <2>2, SameArchive
<1>14. ASSUME NEW p \in Processes, Up(p) PROVE Archived'
  <2>1. backups' = backups /\ Files' = Files
    BY <1>14 DEF Up, paths, data, count, Files, TypeOK, Places
  <2>2. \A q \in Processes : process'[q].pc = "archiving" =>
                /\ process[q].pc = "archiving" /\ process'[q].left = process[q].left
                /\ process'[q].made = process[q].made
    <3>1. process[p] \in Process
      BY DEF TypeOK
    <3> QED
      BY <1>14, <3>1 DEF Up, paths, data, count, Process, TypeOK
  <2> QED
    BY <2>1, <2>2, SameArchive
<1>15. ASSUME NEW p \in Processes, CommitMigrations(p) PROVE Archived'
  <2>1. backups' = backups /\ Files' = Files
    BY <1>15 DEF CommitMigrations, paths, data, count, Goes, Files, TypeOK, Places
  <2>2. \A q \in Processes : process'[q].pc = "archiving" =>
                /\ process[q].pc = "archiving" /\ process'[q].left = process[q].left
                /\ process'[q].made = process[q].made
    <3>1. process[p] \in Process
      BY DEF TypeOK
    <3> QED
      BY <1>15, <3>1 DEF CommitMigrations, paths, data, count, Goes, Process, TypeOK
  <2> QED
    BY <2>1, <2>2, SameArchive
<1>16. ASSUME NEW p \in Processes, CopyDatabase(p) PROVE Archived'
  <2> DEFINE d == process[p].open
             made == [NoBackup EXCEPT !.database = content[d], !.owed = content[d].rows \cap Files]
  <2>1. /\ process' = [process EXCEPT ![p].pc = "archiving", ![p].open = 0, ![p].name = FreeName,
                                     ![p].left = Keys, ![p].made = made]
        /\ backups' = backups /\ Files' = Files
    BY <1>16 DEF CopyDatabase, Closes, data, Files, TypeOK, Places
  <2>2. d \in Databases
    BY <1>16, DatabaseFilesAssumption DEF CopyDatabase, Locked, Opened, Process, Databases, TypeOK
  <2>3. content[d].rows \subseteq Keys
    BY <2>2 DEF TypeOK, Database
  <2>4. made.owed \subseteq Keys \cap Files
    BY <2>3 DEF NoBackup
  <2> HIDE DEF made
  <2>5. /\ process'[p].made = made /\ process'[p].left = Keys
        /\ \A q \in Processes : q # p => process'[q] = process[q]
    <3>1. process[p] \in Process
      BY DEF TypeOK
    <3> QED
      BY <2>1, <3>1 DEF TypeOK, Process
  <2> QED
    BY <2>1, <2>4, <2>5 DEF Archived, BackupsAreComplete
<1>17. ASSUME NEW p \in Processes, NEW k \in Keys, ArchiveUpload(p, k) PROVE Archived'
  <2>1. PICK taken \in BOOLEAN :
            /\ taken <=> Walked(p, k) /\ (k \notin process[p].made.owed => taken)
            /\ process' = [process EXCEPT ![p].left = @ \ {k},
                                          ![p].made.files = IF taken THEN @ \cup {k} ELSE @]
    BY <1>17 DEF ArchiveUpload
  <2>2. process[p] \in Process /\ process[p].made \in Backup
    BY DEF TypeOK, Process
  <2>3. /\ process'[p].made.owed = process[p].made.owed /\ process'[p].made.gone = process[p].made.gone
        /\ process'[p].made.files = IF taken THEN process[p].made.files \cup {k} ELSE process[p].made.files
        /\ process'[p].left = process[p].left \ {k}
        /\ \A q \in Processes : q # p => process'[q] = process[q]
    BY <2>1, <2>2 DEF TypeOK, Process, Backup
  <2>4. process[p].pc = "archiving" /\ UNCHANGED <<at, dir, backups>>
    BY <1>17 DEF ArchiveUpload, paths, data
  <2>5. process[p].made.owed \subseteq
            process[p].made.files \cup process[p].made.gone \cup (process[p].left \cap Files)
    BY <2>4 DEF Archived
  <2>6. k \in process[p].made.owed => (taken <=> k \in Files)
    BY <2>1 DEF Walked
  <2>7. process'[p].made.owed \subseteq
            process'[p].made.files \cup process'[p].made.gone \cup (process'[p].left \cap Files)
    BY <2>3, <2>5, <2>6
  <2>8. Files' = Files
    BY <2>4 DEF Files
  <2> QED
    BY <2>3, <2>4, <2>7, <2>8 DEF Archived, BackupsAreComplete
<1>18. ASSUME NEW p \in Processes, Publish(p) PROVE Archived'
  <2>1. /\ process[p].pc = "archiving" /\ process[p].left = {} /\ Files' = Files
        /\ \A q \in Processes : process'[q].pc = "archiving" => process'[q] = process[q]
        /\ backups' = IF backups[process[p].name] = NoBackup
                      THEN [backups EXCEPT ![process[p].name] = process[p].made] ELSE backups
    BY <1>18, IdleHasNothing DEF Publish, paths, Files, TypeOK
  <2>2. process[p].made.owed \subseteq process[p].made.files \cup process[p].made.gone
    BY <2>1 DEF Archived
  <2>3. \A n \in 1..MaxBackups : backups'[n] = backups[n] \/ backups'[n] = process[p].made
    BY <2>1 DEF TypeOK
  <2>4. BackupsAreComplete'
    BY <2>2, <2>3 DEF Archived, BackupsAreComplete
  <2> QED
    BY <2>1, <2>4 DEF Archived
<1>19. ASSUME NEW p \in Processes, AbandonBackup(p) PROVE Archived'
  <2>1. backups' = backups /\ Files' = Files
    BY <1>19 DEF AbandonBackup, paths, data, count, Files, TypeOK, Places
  <2>2. \A q \in Processes : process'[q].pc = "archiving" =>
                /\ process[q].pc = "archiving" /\ process'[q].left = process[q].left
                /\ process'[q].made = process[q].made
    <3>1. process[p] \in Process
      BY DEF TypeOK
    <3> QED
      BY <1>19, <3>1, IdleHasNothing DEF AbandonBackup, paths, data, count, Process, TypeOK
  <2> QED
    BY <2>1, <2>2, SameArchive
<1>20. ASSUME NEW p \in Processes, NEW n \in 1..MaxBackups, BeginRestore(p, n) PROVE Archived'
  <2>1. backups' = backups /\ \A q \in Processes : process'[q].pc # "archiving"
    <3>1. /\ \A q \in Processes \ {p} : lock[q] = "none" /\ process'[q] = process[q]
          /\ process'[p].pc = "moving" /\ backups' = backups
      BY <1>20 DEF BeginRestore, Acquire, MayLock, TypeOK, Idle
    <3> QED
      BY <3>1 DEF Locked
  <2> QED
    BY <2>1, NoArchive
<1>21. ASSUME NEW p \in Processes, Move(p) PROVE Archived'
  <2>1. /\ process[p].pc = "moving" /\ backups' = backups
        /\ \/ process' = [process EXCEPT ![p].next = process[p].next + 1]
           \/ process' = [process EXCEPT ![p].next = process[p].next + 1, ![p].renamed = @ \cup {process[p].next}]
    BY <1>21 DEF Move, data
  <2>2. process'[p].pc = "moving" /\ \A q \in Processes : q # p => process'[q] = process[q]
    <3>1. process[p] \in Process
      BY DEF TypeOK
    <3> QED
      BY <2>1, <3>1 DEF TypeOK, Process
  <2> QED
    BY <2>1, <2>2, RestoreIsAlone, NoArchive
<1>22. ASSUME NEW p \in Processes, MoveFails(p) PROVE Archived'
  <2>1. backups' = backups /\ Files' = Files
    BY <1>22 DEF MoveFails, paths, data, count, Goes, Files, TypeOK, Places
  <2>2. \A q \in Processes : process'[q].pc = "archiving" =>
                /\ process[q].pc = "archiving" /\ process'[q].left = process[q].left
                /\ process'[q].made = process[q].made
    <3>1. process[p] \in Process
      BY DEF TypeOK
    <3> QED
      BY <1>22, <3>1 DEF MoveFails, paths, data, count, Goes, Process, TypeOK
  <2> QED
    BY <2>1, <2>2, SameArchive
<1>23. ASSUME NEW p \in Processes, Rollback(p) PROVE Archived'
  <2>1. process[p].pc \in {"moving", "rollback"} /\ backups' = backups
        /\ process'[p].pc \in {process[p].pc, "closed"} /\ \A q \in Processes : q # p => process'[q] = process[q]
    BY <1>23, IdleHasNothing DEF Rollback, paths, data, count, TypeOK
  <2> QED
    BY <2>1, RestoreIsAlone, NoArchive
<1>24. ASSUME NEW p \in Processes, RollbackFails(p) PROVE Archived'
  <2>1. backups' = backups /\ Files' = Files
    BY <1>24 DEF RollbackFails, paths, data, count, Files, TypeOK, Places
  <2>2. \A q \in Processes : process'[q].pc = "archiving" =>
                /\ process[q].pc = "archiving" /\ process'[q].left = process[q].left
                /\ process'[q].made = process[q].made
    <3>1. process[p] \in Process
      BY DEF TypeOK
    <3> QED
      BY <1>24, <3>1 DEF RollbackFails, paths, data, count, Process, TypeOK
  <2> QED
    BY <2>1, <2>2, SameArchive
<1>25. ASSUME NEW p \in Processes, EndRestore(p) PROVE Archived'
  <2>1. process[p].pc \in {"moving", "rollback"} /\ backups' = backups
        /\ process'[p].pc \in {process[p].pc, "closed"} /\ \A q \in Processes : q # p => process'[q] = process[q]
    BY <1>25, IdleHasNothing DEF EndRestore, paths, data, count, RestoreEnds, TypeOK
  <2> QED
    BY <2>1, RestoreIsAlone, NoArchive
<1>26. ASSUME UNCHANGED vars PROVE Archived'
  BY <1>26 DEF vars, Archived, BackupsAreComplete, Files
<1> QED
  BY <1>1, <1>2, <1>3, <1>4, <1>5, <1>6, <1>7, <1>8, <1>9, <1>10, <1>11, <1>12, <1>13,
     <1>14, <1>15, <1>16, <1>17, <1>18, <1>19, <1>20, <1>21, <1>22, <1>23, <1>24, <1>25, <1>26
     DEF Next, Serve, Migrate, Create, Restore

-----------------------------------------------------------------------------
(* Restores.                                                               *)

\* Where a restore left one of the places: the move out of it is the o-th, the
\* move into it the i-th.
Left(p, x, o, i) ==
    LET c == process[p] IN
    /\ at[x] = IF i \in c.renamed THEN c.staged ELSE IF o \in c.renamed THEN 0 ELSE c.before[x]
    /\ o \in c.renamed => saved[c.name][x] = c.before[x]
    /\ i \in c.renamed => o \in c.renamed \/ c.before[x] = 0
    /\ c.pc = "moving" /\ o < c.next /\ o \notin c.renamed => c.before[x] = 0

\* A restore can undo what it has moved so far.
Undoable ==
    \A p \in Processes : process[p].pc \in {"moving", "rollback"} =>
        /\ process[p].pc = "moving" => ~process[p].stuck /\ \A i \in process[p].renamed : i < process[p].next
        /\ ~process[p].stuck => Left(p, "db", 1, 4) /\ Left(p, "wal", 2, 0) /\ Left(p, "uploads", 3, 5)

\* Steps of commands beside which there is no restore.
LEMMA NoRestore ==
    ASSUME Undoable, \A p \in Processes : process'[p].pc \notin {"moving", "rollback"}
    PROVE  Undoable'
  BY DEF Undoable

\* Steps that leave the places alone.
LEMMA SameRestore ==
    ASSUME Undoable, UNCHANGED <<at, saved>>,
           \A p \in Processes : process'[p].pc \in {"moving", "rollback"} => process'[p] = process[p]
    PROVE  Undoable'
<1> SUFFICES ASSUME NEW p \in Processes, process'[p].pc \in {"moving", "rollback"}
             PROVE  /\ process'[p].pc = "moving" => ~process'[p].stuck /\ \A i \in process'[p].renamed : i < process'[p].next
                    /\ ~process'[p].stuck => Left(p, "db", 1, 4)' /\ Left(p, "wal", 2, 0)' /\ Left(p, "uploads", 3, 5)'
  BY DEF Undoable
<1>1. process'[p] = process[p]
  OBVIOUS
<1> QED
  BY <1>1 DEF Undoable, Left

\* Every step leaves a restore able to undo what it moved.
LEMMA UndoableStep == TypeOK /\ Locked /\ Undoable /\ [Next]_vars => Undoable'
<1> SUFFICES ASSUME TypeOK, Locked, Undoable, [Next]_vars PROVE Undoable'
  OBVIOUS
<1>1. ASSUME NEW p \in Processes, OpenDatabase(p) PROVE Undoable'
  <2>1. /\ process[p].pc = "locked" /\ process'[p].pc \notin {"moving", "rollback"}
        /\ \A q \in Processes : q # p => process'[q] = process[q]
    <3>1. process[p] \in Process
      BY DEF TypeOK
    <3> QED
      BY <1>1, <3>1 DEF OpenDatabase, paths, data, count, Process, TypeOK
  <2>2. \A q \in Processes : process[q].pc \notin {"moving", "rollback"}
    BY <2>1, RestoreIsAlone
  <2> QED
    BY <2>1, <2>2, NoRestore
<1>2. ASSUME NEW p \in Processes, CloseDatabase(p) PROVE Undoable'
  <2>1. /\ process[p].pc = "closing" /\ process'[p].pc \notin {"moving", "rollback"}
        /\ \A q \in Processes : q # p => process'[q] = process[q]
    <3>1. process[p] \in Process
      BY DEF TypeOK
    <3> QED
      BY <1>2, <3>1, IdleHasNothing DEF CloseDatabase, paths, data, count, Process, TypeOK
  <2>2. \A q \in Processes : process[q].pc \notin {"moving", "rollback"}
    BY <2>1, RestoreIsAlone
  <2> QED
    BY <2>1, <2>2, NoRestore
<1>3. ASSUME NEW p \in Processes, Unlock(p) PROVE Undoable'
  <2>1. UNCHANGED <<at, saved>>
    BY <1>3 DEF Unlock, paths, data, count
  <2>2. \A q \in Processes : process'[q].pc \in {"moving", "rollback"} => process'[q] = process[q]
    <3>1. process[p] \in Process
      BY DEF TypeOK
    <3> QED
      BY <1>3, <3>1, IdleHasNothing DEF Unlock, paths, data, count, Process, TypeOK
  <2> QED
    BY <2>1, <2>2, SameRestore
<1>4. ASSUME NEW p \in Processes, Crash(p) PROVE Undoable'
  <2>1. UNCHANGED <<at, saved>>
    BY <1>4 DEF Crash, paths, data, count
  <2>2. \A q \in Processes : process'[q].pc \in {"moving", "rollback"} => process'[q] = process[q]
    <3>1. process[p] \in Process
      BY DEF TypeOK
    <3> QED
      BY <1>4, <3>1, IdleHasNothing DEF Crash, paths, data, count, Process, TypeOK
  <2> QED
    BY <2>1, <2>2, SameRestore
<1>5. ASSUME NEW p \in Processes, NEW command \in {"serve", "migrate", "backup"}, Begin(p, command)
      PROVE  Undoable'
  <2>1. UNCHANGED <<at, saved>>
    BY <1>5 DEF Begin, Acquire, paths, data, count
  <2>2. \A q \in Processes : process'[q].pc \in {"moving", "rollback"} => process'[q] = process[q]
    <3>1. process[p] \in Process
      BY DEF TypeOK
    <3> QED
      BY <1>5, <3>1 DEF Begin, Acquire, paths, data, count, Process, TypeOK
  <2> QED
    BY <2>1, <2>2, SameRestore
<1>6. ASSUME NEW p \in Processes, StopServing(p) PROVE Undoable'
  <2>1. UNCHANGED <<at, saved>>
    BY <1>6 DEF StopServing, paths, data, count, Goes
  <2>2. \A q \in Processes : process'[q].pc \in {"moving", "rollback"} => process'[q] = process[q]
    <3>1. process[p] \in Process
      BY DEF TypeOK
    <3> QED
      BY <1>6, <3>1 DEF StopServing, paths, data, count, Goes, Process, TypeOK
  <2> QED
    BY <2>1, <2>2, SameRestore
<1>7. ASSUME NEW p \in Processes, NEW k \in Keys, WriteUpload(p, k) PROVE Undoable'
  <2>1. /\ process[p].pc = "serving" /\ process'[p].pc \notin {"moving", "rollback"}
        /\ \A q \in Processes : q # p => process'[q] = process[q]
    <3>1. process[p] \in Process
      BY DEF TypeOK
    <3> QED
      BY <1>7, <3>1 DEF WriteUpload, paths, data, count, Process, TypeOK
  <2>2. \A q \in Processes : process[q].pc \notin {"moving", "rollback"}
    BY <2>1, RestoreIsAlone
  <2> QED
    BY <2>1, <2>2, NoRestore
<1>8. ASSUME NEW p \in Processes, NEW k \in Keys, AttachUpload(p, k) PROVE Undoable'
  <2>1. UNCHANGED <<at, saved>>
    BY <1>8 DEF AttachUpload, paths, data, count
  <2>2. \A q \in Processes : process'[q].pc \in {"moving", "rollback"} => process'[q] = process[q]
    <3>1. process[p] \in Process
      BY DEF TypeOK
    <3> QED
      BY <1>8, <3>1 DEF AttachUpload, paths, data, count, Process, TypeOK
  <2> QED
    BY <2>1, <2>2, SameRestore
<1>9. ASSUME NEW p \in Processes, NEW k \in Keys, DeleteAttachment(p, k) PROVE Undoable'
  <2>1. UNCHANGED <<at, saved>>
    BY <1>9 DEF DeleteAttachment, paths, data, count
  <2>2. \A q \in Processes : process'[q].pc \in {"moving", "rollback"} => process'[q] = process[q]
    <3>1. process[p] \in Process
      BY DEF TypeOK
    <3> QED
      BY <1>9, <3>1 DEF DeleteAttachment, paths, data, count, Process, TypeOK
  <2> QED
    BY <2>1, <2>2, SameRestore
<1>10. ASSUME NEW p \in Processes, NEW k \in Keys, RemoveUpload(p, k) PROVE Undoable'
  <2>1. UNCHANGED <<at, saved>>
    BY <1>10 DEF RemoveUpload, paths, data, count
  <2>2. \A q \in Processes : process'[q].pc \in {"moving", "rollback"} => process'[q] = process[q]
    <3>1. process[p] \in Process
      BY DEF TypeOK
    <3> QED
      BY <1>10, <3>1 DEF RemoveUpload, paths, data, count, Process, TypeOK
  <2> QED
    BY <2>1, <2>2, SameRestore
<1>11. ASSUME NEW p \in Processes, Inspect(p) PROVE Undoable'
  <2>1. UNCHANGED <<at, saved>>
    BY <1>11 DEF Inspect, paths, data, count
  <2>2. \A q \in Processes : process'[q].pc \in {"moving", "rollback"} => process'[q] = process[q]
    <3>1. process[p] \in Process
      BY DEF TypeOK
    <3> QED
      BY <1>11, <3>1 DEF Inspect, paths, data, count, Process, TypeOK
  <2> QED
    BY <2>1, <2>2, SameRestore
<1>12. ASSUME NEW p \in Processes, InstallCurrentSchema(p) PROVE Undoable'
  <2>1. UNCHANGED <<at, saved>>
    BY <1>12 DEF InstallCurrentSchema, paths, data, count, Goes
  <2>2. \A q \in Processes : process'[q].pc \in {"moving", "rollback"} => process'[q] = process[q]
    <3>1. process[p] \in Process
      BY DEF TypeOK
    <3> QED
      BY <1>12, <3>1 DEF InstallCurrentSchema, paths, data, count, Goes, Process, TypeOK
  <2> QED
    BY <2>1, <2>2, SameRestore
<1>13. ASSUME NEW p \in Processes, BeginTransaction(p) PROVE Undoable'
  <2>1. UNCHANGED <<at, saved>>
    BY <1>13 DEF BeginTransaction, paths, data, count, Goes
  <2>2. \A q \in Processes : process'[q].pc \in {"moving", "rollback"} => process'[q] = process[q]
    <3>1. process[p] \in Process
      BY DEF TypeOK
    <3> QED
      BY <1>13, <3>1 DEF BeginTransaction, paths, data, count, Goes, Process, TypeOK
  <2> QED
    BY <2>1, <2>2, SameRestore
<1>14. ASSUME NEW p \in Processes, Up(p) PROVE Undoable'
  <2>1. UNCHANGED <<at, saved>>
    BY <1>14 DEF Up, paths, data, count
  <2>2. \A q \in Processes : process'[q].pc \in {"moving", "rollback"} => process'[q] = process[q]
    <3>1. process[p] \in Process
      BY DEF TypeOK
    <3> QED
      BY <1>14, <3>1 DEF Up, paths, data, count, Process, TypeOK
  <2> QED
    BY <2>1, <2>2, SameRestore
<1>15. ASSUME NEW p \in Processes, CommitMigrations(p) PROVE Undoable'
  <2>1. UNCHANGED <<at, saved>>
    BY <1>15 DEF CommitMigrations, paths, data, count, Goes
  <2>2. \A q \in Processes : process'[q].pc \in {"moving", "rollback"} => process'[q] = process[q]
    <3>1. process[p] \in Process
      BY DEF TypeOK
    <3> QED
      BY <1>15, <3>1 DEF CommitMigrations, paths, data, count, Goes, Process, TypeOK
  <2> QED
    BY <2>1, <2>2, SameRestore
<1>16. ASSUME NEW p \in Processes, CopyDatabase(p) PROVE Undoable'
  <2>1. /\ process[p].pc = "copying" /\ process'[p].pc \notin {"moving", "rollback"}
        /\ \A q \in Processes : q # p => process'[q] = process[q]
    <3>1. process[p] \in Process
      BY DEF TypeOK
    <3> QED
      BY <1>16, <3>1 DEF CopyDatabase, paths, data, count, Process, TypeOK
  <2>2. \A q \in Processes : process[q].pc \notin {"moving", "rollback"}
    BY <2>1, RestoreIsAlone
  <2> QED
    BY <2>1, <2>2, NoRestore
<1>17. ASSUME NEW p \in Processes, NEW k \in Keys, ArchiveUpload(p, k) PROVE Undoable'
  <2>1. UNCHANGED <<at, saved>>
    BY <1>17 DEF ArchiveUpload, paths, data, count
  <2>2. \A q \in Processes : process'[q].pc \in {"moving", "rollback"} => process'[q] = process[q]
    <3>1. process[p] \in Process
      BY DEF TypeOK
    <3> QED
      BY <1>17, <3>1 DEF ArchiveUpload, paths, data, count, Process, TypeOK
  <2> QED
    BY <2>1, <2>2, SameRestore
<1>18. ASSUME NEW p \in Processes, Publish(p) PROVE Undoable'
  <2>1. UNCHANGED <<at, saved>>
    BY <1>18 DEF Publish, paths, data, count
  <2>2. \A q \in Processes : process'[q].pc \in {"moving", "rollback"} => process'[q] = process[q]
    <3>1. process[p] \in Process
      BY DEF TypeOK
    <3> QED
      BY <1>18, <3>1, IdleHasNothing DEF Publish, paths, data, count, Process, TypeOK
  <2> QED
    BY <2>1, <2>2, SameRestore
<1>19. ASSUME NEW p \in Processes, AbandonBackup(p) PROVE Undoable'
  <2>1. UNCHANGED <<at, saved>>
    BY <1>19 DEF AbandonBackup, paths, data, count
  <2>2. \A q \in Processes : process'[q].pc \in {"moving", "rollback"} => process'[q] = process[q]
    <3>1. process[p] \in Process
      BY DEF TypeOK
    <3> QED
      BY <1>19, <3>1, IdleHasNothing DEF AbandonBackup, paths, data, count, Process, TypeOK
  <2> QED
    BY <2>1, <2>2, SameRestore
<1>20. ASSUME NEW p \in Processes, NEW n \in 1..MaxBackups, BeginRestore(p, n) PROVE Undoable'
  <2>1. /\ process'[p].pc = "moving" /\ process'[p].next = 1 /\ process'[p].renamed = {}
        /\ ~process'[p].stuck /\ process'[p].before = at /\ UNCHANGED <<at, saved>>
        /\ \A q \in Processes : q # p => process'[q] = process[q] /\ lock[q] = "none"
    BY <1>20 DEF BeginRestore, Acquire, MayLock, paths, TypeOK, Idle
  <2>2. \A q \in Processes : q # p => process'[q].pc = "idle"
    BY <2>1 DEF Locked
  <2>3. Left(p, "db", 1, 4)' /\ Left(p, "wal", 2, 0)' /\ Left(p, "uploads", 3, 5)'
    BY <2>1 DEF Left
  <2> QED
    BY <2>1, <2>2, <2>3 DEF Undoable
<1>21. ASSUME NEW p \in Processes, Move(p) PROVE Undoable'
  <2> DEFINE c == process[p]
             n == c.next
             r == c.name
  <2>0. /\ c \in Process /\ c.pc = "moving" /\ n \in 1..5 /\ at \in Places /\ 0 \in 0..MaxDatabases
        /\ r \in 1..MaxRestores /\ saved[r] \in Places /\ c.staged \in 0..MaxDatabases
    BY <1>21, DatabaseFilesAssumption DEF Move, Locked, TypeOK, Process
  <2>01. DOMAIN at = {"db", "wal", "uploads"} /\ DOMAIN saved[r] = {"db", "wal", "uploads"}
    BY <2>0 DEF Places
  <2>1. /\ ~c.stuck /\ \A i \in c.renamed : i < n
        /\ Left(p, "db", 1, 4) /\ Left(p, "wal", 2, 0) /\ Left(p, "uploads", 3, 5)
    BY <2>0 DEF Undoable
  <2>2. CASE Skips(n)
    <3>1. /\ process' = [process EXCEPT ![p].next = n + 1] /\ UNCHANGED <<at, saved>>
          /\ n \in 1..3 /\ at[Part(n)] = 0
      BY <1>21, <2>0, <2>2 DEF Move, Skips
    <3>2. /\ process'[p] = [c EXCEPT !.next = n + 1]
          /\ \A q \in Processes : q # p => process'[q] = process[q]
      BY <3>1 DEF TypeOK
    <3>3. /\ process'[p].pc = "moving" /\ process'[p].stuck = c.stuck /\ process'[p].next = n + 1
          /\ process'[p].renamed = c.renamed /\ process'[p].staged = c.staged
          /\ process'[p].name = c.name /\ process'[p].before = c.before
      BY <2>0, <3>2 DEF Process
    <3>4. n = 1 => at["db"] = 0
      BY <3>1 DEF Part
    <3>5. (n = 2 => at["wal"] = 0) /\ (n = 3 => at["uploads"] = 0)
      BY <3>1 DEF Part
    <3> HIDE DEF c, n, r
    <3>6. Left(p, "db", 1, 4)'
      BY <2>0, <2>1, <3>1, <3>3, <3>4 DEF Left, c, n
    <3>7. Left(p, "wal", 2, 0)'
      BY <2>0, <2>1, <3>1, <3>3, <3>5 DEF Left, c, n
    <3>8. Left(p, "uploads", 3, 5)'
      BY <2>0, <2>1, <3>1, <3>3, <3>5 DEF Left, c, n
    <3>9. \A i \in c.renamed : i < n + 1
      BY <2>0, <2>1 DEF Process
    <3>10. \A q \in Processes : q # p => process'[q].pc = "idle"
      BY <2>0, <3>2, RestoreIsAlone DEF c
    <3> QED
      BY <2>1, <3>3, <3>6, <3>7, <3>8, <3>9, <3>10 DEF Undoable
  <2>3. CASE ~Skips(n)
    <3>1. /\ process' = [process EXCEPT ![p].next = n + 1, ![p].renamed = @ \cup {n}] /\ Renames(p, n)
      BY <1>21, <2>3 DEF Move
    <3>2. /\ process'[p] = [c EXCEPT !.next = n + 1, !.renamed = @ \cup {n}]
          /\ \A q \in Processes : q # p => process'[q] = process[q]
      BY <3>1 DEF TypeOK
    <3>3. /\ process'[p].pc = "moving" /\ process'[p].stuck = c.stuck /\ process'[p].next = n + 1
          /\ process'[p].renamed = c.renamed \cup {n} /\ process'[p].staged = c.staged
          /\ process'[p].name = c.name /\ process'[p].before = c.before
      BY <2>0, <3>2 DEF Process
    <3>4. ASSUME n <= 3
          PROVE  Left(p, "db", 1, 4)' /\ Left(p, "wal", 2, 0)' /\ Left(p, "uploads", 3, 5)'
      <4> DEFINE x == Part(n)
      <4>1. at' = [at EXCEPT ![x] = 0] /\ saved' = [saved EXCEPT ![r][x] = at[x]]
        BY <3>1, <3>4 DEF Renames, Recovery
      <4>2. x \in {"db", "wal", "uploads"} /\ at[x] \in 0..MaxDatabases
        BY <2>0 DEF Part, Places
      <4>3. /\ (n = 1 <=> x = "db") /\ (n = 2 <=> x = "wal") /\ (n = 3 <=> x = "uploads")
        BY <2>0, <3>4 DEF Part
      <4> HIDE DEF x, c, n, r
      <4>4. /\ at'[x] = 0 /\ saved'[r][x] = at[x]
            /\ \A y \in {"db", "wal", "uploads"} : y # x => at'[y] = at[y] /\ saved'[r][y] = saved[r][y]
        <5>1. saved'[r] = [saved[r] EXCEPT ![x] = at[x]]
          BY <2>0, <4>1 DEF TypeOK
        <5>2. at'[x] = 0 /\ \A y \in {"db", "wal", "uploads"} : y # x => at'[y] = at[y]
          BY <2>01, <4>1, <4>2
        <5>3. saved'[r][x] = at[x] /\ \A y \in {"db", "wal", "uploads"} : y # x => saved'[r][y] = saved[r][y]
          BY <2>01, <4>2, <5>1
        <5> QED
          BY <5>2, <5>3
      <4>5. Left(p, "db", 1, 4)'
        BY <2>0, <2>1, <3>3, <3>4, <4>3, <4>4 DEF Left, c, n, r
      <4>6. Left(p, "wal", 2, 0)'
        <5>1. 0 \notin c.renamed \cup {n}
          BY <2>0 DEF Process
        <5> QED
          BY <2>0, <2>1, <3>3, <3>4, <4>3, <4>4, <5>1 DEF Left, c, n, r
      <4>7. Left(p, "uploads", 3, 5)'
        BY <2>0, <2>1, <3>3, <3>4, <4>3, <4>4 DEF Left, c, n, r
      <4> QED
        BY <4>5, <4>6, <4>7
    <3>5. ASSUME ~(n <= 3)
          PROVE  Left(p, "db", 1, 4)' /\ Left(p, "wal", 2, 0)' /\ Left(p, "uploads", 3, 5)'
      <4> DEFINE x == Part(n)
      <4>1. at' = [at EXCEPT ![x] = c.staged] /\ saved' = saved
        BY <3>1, <3>5 DEF Renames
      <4>2. x \in {"db", "wal", "uploads"}
        BY <2>0 DEF Part
      <4>3. (n = 4 <=> x = "db") /\ (n = 5 <=> x = "uploads") /\ x # "wal"
        BY <2>0, <3>5 DEF Part
      <4> HIDE DEF x, c, n, r
      <4>4. /\ at'[x] = c.staged
            /\ \A y \in {"db", "wal", "uploads"} : y # x => at'[y] = at[y]
        BY <2>01, <4>1, <4>2
      <4>5. Left(p, "db", 1, 4)'
        BY <2>0, <2>1, <3>3, <3>5, <4>1, <4>3, <4>4 DEF Left, c, n, r
      <4>6. Left(p, "wal", 2, 0)'
        BY <2>0, <2>1, <3>3, <3>5, <4>1, <4>3, <4>4 DEF Left, c, n, r
      <4>7. Left(p, "uploads", 3, 5)'
        BY <2>0, <2>1, <3>3, <3>5, <4>1, <4>3, <4>4 DEF Left, c, n, r
      <4> QED
        BY <4>5, <4>6, <4>7
    <3>6. \A i \in c.renamed \cup {n} : i < n + 1
      BY <2>0, <2>1 DEF Process
    <3>7. \A q \in Processes : q # p => process'[q].pc = "idle"
      BY <2>0, <3>2, RestoreIsAlone
    <3> HIDE DEF c, n, r
    <3> QED
      BY <2>1, <3>3, <3>4, <3>5, <3>6, <3>7 DEF Undoable
  <2> QED
    BY <2>2, <2>3
<1>22. ASSUME NEW p \in Processes, MoveFails(p) PROVE Undoable'
  <2>1. /\ process[p].pc = "moving" /\ process'[p] = [process[p] EXCEPT !.pc = "rollback"]
        /\ UNCHANGED <<at, saved>> /\ \A q \in Processes : q # p => process'[q] = process[q]
    BY <1>22 DEF MoveFails, Goes, paths, TypeOK
  <2>2. process[p] \in Process
    BY DEF TypeOK
  <2>3. /\ process'[p].pc = "rollback" /\ process'[p].stuck = process[p].stuck
        /\ process'[p].renamed = process[p].renamed /\ process'[p].staged = process[p].staged
        /\ process'[p].name = process[p].name /\ process'[p].before = process[p].before
    BY <2>1, <2>2 DEF Process
  <2>4. Left(p, "db", 1, 4) /\ Left(p, "wal", 2, 0) /\ Left(p, "uploads", 3, 5)
    BY <2>1 DEF Undoable
  <2>5. Left(p, "db", 1, 4)' /\ Left(p, "wal", 2, 0)' /\ Left(p, "uploads", 3, 5)'
    BY <2>1, <2>3, <2>4 DEF Left
  <2>6. \A q \in Processes : q # p => process'[q].pc = "idle"
    BY <2>1, RestoreIsAlone
  <2> QED
    BY <2>3, <2>5, <2>6 DEF Undoable
<1>23. ASSUME NEW p \in Processes, Rollback(p) PROVE Undoable'
  <2> DEFINE c == process[p]
             n == LastRenamed(p)
             r == c.name
  <2>0. /\ c \in Process /\ c.pc = "rollback" /\ n \in 1..5 /\ at \in Places /\ 0 \in 0..MaxDatabases
        /\ r \in 1..MaxRestores /\ saved[r] \in Places
        /\ n \in c.renamed /\ \A j \in c.renamed : j <= n
    BY <1>23, LastRenamedIsOne, DatabaseFilesAssumption DEF Rollback, Locked, TypeOK
  <2>01. DOMAIN at = {"db", "wal", "uploads"} /\ DOMAIN saved[r] = {"db", "wal", "uploads"}
    BY <2>0 DEF Places
  <2>1. ~c.stuck => Left(p, "db", 1, 4) /\ Left(p, "wal", 2, 0) /\ Left(p, "uploads", 3, 5)
    BY <2>0 DEF Undoable
  <2>2. /\ process'[p] = [c EXCEPT !.renamed = @ \ {n}] /\ Undoes(p, n)
        /\ \A q \in Processes : q # p => process'[q] = process[q]
    BY <1>23 DEF Rollback, TypeOK
  <2>3. /\ process'[p].pc = "rollback" /\ process'[p].stuck = c.stuck
        /\ process'[p].renamed = c.renamed \ {n} /\ process'[p].staged = c.staged
        /\ process'[p].name = c.name /\ process'[p].before = c.before
    BY <2>0, <2>2 DEF Process
  <2>4. (n <= 4 => 5 \notin c.renamed) /\ (n <= 3 => 4 \notin c.renamed) /\ 0 \notin c.renamed
    BY <2>0 DEF Process
  <2>5. ASSUME ~c.stuck
        PROVE  Left(p, "db", 1, 4)' /\ Left(p, "wal", 2, 0)' /\ Left(p, "uploads", 3, 5)'
    <3> DEFINE x == Part(n)
    <3>1. CASE n <= 3
      <4>1. at' = [at EXCEPT ![x] = saved[r][x]] /\ saved' = [saved EXCEPT ![r][x] = 0]
        BY <2>2, <3>1 DEF Undoes, Recovery
      <4>2. x \in {"db", "wal", "uploads"} /\ saved[r][x] \in 0..MaxDatabases
        BY <2>0 DEF Part, Places
      <4>3. /\ (n = 1 <=> x = "db") /\ (n = 2 <=> x = "wal") /\ (n = 3 <=> x = "uploads")
        BY <2>0, <3>1 DEF Part
      <4> HIDE DEF x, c, n, r
      <4>4. /\ at'[x] = saved[r][x]
            /\ \A y \in {"db", "wal", "uploads"} : y # x => at'[y] = at[y] /\ saved'[r][y] = saved[r][y]
        <5>1. saved'[r] = [saved[r] EXCEPT ![x] = 0]
          BY <2>0, <4>1 DEF TypeOK
        <5>2. at'[x] = saved[r][x] /\ \A y \in {"db", "wal", "uploads"} : y # x => at'[y] = at[y]
          BY <2>01, <4>1, <4>2
        <5>3. \A y \in {"db", "wal", "uploads"} : y # x => saved'[r][y] = saved[r][y]
          BY <2>01, <4>2, <5>1
        <5> QED
          BY <5>2, <5>3
      <4>5. Left(p, "db", 1, 4)'
        BY <2>0, <2>1, <2>3, <2>4, <2>5, <3>1, <4>3, <4>4 DEF Left, c, n, r
      <4>6. Left(p, "wal", 2, 0)'
        BY <2>0, <2>1, <2>3, <2>4, <2>5, <3>1, <4>3, <4>4 DEF Left, c, n, r
      <4>7. Left(p, "uploads", 3, 5)'
        BY <2>0, <2>1, <2>3, <2>4, <2>5, <3>1, <4>3, <4>4 DEF Left, c, n, r
      <4> QED
        BY <4>5, <4>6, <4>7
    <3>2. CASE ~(n <= 3)
      <4>1. at' = [at EXCEPT ![x] = 0] /\ saved' = saved
        BY <2>2, <3>2 DEF Undoes
      <4>2. x \in {"db", "wal", "uploads"}
        BY <2>0 DEF Part
      <4>3. (n = 4 <=> x = "db") /\ (n = 5 <=> x = "uploads") /\ x # "wal"
        BY <2>0, <3>2 DEF Part
      <4> HIDE DEF x, c, n, r
      <4>4. /\ at'[x] = 0
            /\ \A y \in {"db", "wal", "uploads"} : y # x => at'[y] = at[y]
        BY <2>01, <4>1, <4>2
      <4>5. Left(p, "db", 1, 4)'
        BY <2>0, <2>1, <2>3, <2>4, <2>5, <3>2, <4>1, <4>3, <4>4 DEF Left, c, n, r
      <4>6. Left(p, "wal", 2, 0)'
        BY <2>0, <2>1, <2>3, <2>4, <2>5, <3>2, <4>1, <4>3, <4>4 DEF Left, c, n, r
      <4>7. Left(p, "uploads", 3, 5)'
        BY <2>0, <2>1, <2>3, <2>4, <2>5, <3>2, <4>1, <4>3, <4>4 DEF Left, c, n, r
      <4> QED
        BY <4>5, <4>6, <4>7
    <3> QED
      BY <3>1, <3>2
  <2>6. \A q \in Processes : q # p => process'[q].pc = "idle"
    BY <2>0, <2>2, RestoreIsAlone
  <2> HIDE DEF c, n, r
  <2> QED
    BY <2>3, <2>5, <2>6 DEF Undoable
<1>24. ASSUME NEW p \in Processes, RollbackFails(p) PROVE Undoable'
  <2>1. /\ process[p].pc = "rollback" /\ \A q \in Processes : q # p => process'[q] = process[q]
        /\ process'[p] = [process[p] EXCEPT !.renamed = @ \ {LastRenamed(p)}, !.stuck = TRUE]
    BY <1>24 DEF RollbackFails, TypeOK
  <2>2. process'[p].stuck /\ process'[p].pc = "rollback"
    <3>1. process[p] \in Process
      BY DEF TypeOK
    <3> QED
      BY <2>1, <3>1 DEF Process
  <2>3. \A q \in Processes : q # p => process'[q].pc = "idle"
    BY <2>1, RestoreIsAlone
  <2> QED
    BY <2>2, <2>3 DEF Undoable
<1>25. ASSUME NEW p \in Processes, EndRestore(p) PROVE Undoable'
  <2>1. UNCHANGED <<at, saved>>
    BY <1>25 DEF EndRestore, paths, data, count
  <2>2. \A q \in Processes : process'[q].pc \in {"moving", "rollback"} => process'[q] = process[q]
    <3>1. process[p] \in Process
      BY DEF TypeOK
    <3> QED
      BY <1>25, <3>1, IdleHasNothing DEF EndRestore, paths, data, count, Process, TypeOK
  <2> QED
    BY <2>1, <2>2, SameRestore
<1>26. ASSUME UNCHANGED vars PROVE Undoable'
  <2>1. UNCHANGED <<at, saved, process>>
    BY <1>26 DEF vars
  <2> QED
    BY <2>1, SameRestore
<1> QED
  BY <1>1, <1>2, <1>3, <1>4, <1>5, <1>6, <1>7, <1>8, <1>9, <1>10, <1>11, <1>12, <1>13,
     <1>14, <1>15, <1>16, <1>17, <1>18, <1>19, <1>20, <1>21, <1>22, <1>23, <1>24, <1>25, <1>26
     DEF Next, Serve, Migrate, Create, Restore

\* With all renames undone, the places are those it began with.
LEMMA FailedRestoreStep ==
    ASSUME TypeOK, Undoable, [Next]_vars
    PROVE  \A p \in Processes :
            process[p].pc = "rollback" /\ process'[p].pc = "closed" /\ ~process[p].stuck
                => at = process[p].before
<1> SUFFICES ASSUME NEW q \in Processes, process[q].pc = "rollback", process'[q].pc = "closed",
                    ~process[q].stuck
             PROVE  at = process[q].before
  OBVIOUS
<1>0. process[q] \in Process /\ at \in Places /\ process[q].before \in Places
  BY DEF TypeOK, Process
<1>1. ASSUME NEW p \in Processes, OpenDatabase(p) PROVE at = process[q].before
  <2>1. process[p] \in Process
    BY DEF TypeOK
  <2> QED
    BY <1>1, <2>1 DEF OpenDatabase, paths, data, count, TypeOK, Process
<1>2. ASSUME NEW p \in Processes, CloseDatabase(p) PROVE at = process[q].before
  <2>1. process[p] \in Process
    BY DEF TypeOK
  <2> QED
    BY <1>2, <2>1, IdleHasNothing DEF CloseDatabase, paths, data, count, TypeOK, Process
<1>3. ASSUME NEW p \in Processes, Unlock(p) PROVE at = process[q].before
  <2>1. process[p] \in Process
    BY DEF TypeOK
  <2> QED
    BY <1>3, <2>1, IdleHasNothing DEF Unlock, paths, data, count, TypeOK, Process
<1>4. ASSUME NEW p \in Processes, Crash(p) PROVE at = process[q].before
  <2>1. process[p] \in Process
    BY DEF TypeOK
  <2> QED
    BY <1>4, <2>1, IdleHasNothing DEF Crash, paths, data, count, TypeOK, Process
<1>5. ASSUME NEW p \in Processes, NEW command \in {"serve", "migrate", "backup"}, Begin(p, command)
      PROVE  at = process[q].before
  <2>1. process[p] \in Process
    BY DEF TypeOK
  <2> QED
    BY <1>5, <2>1 DEF Begin, Acquire, paths, data, count, TypeOK, Process
<1>6. ASSUME NEW p \in Processes, StopServing(p) PROVE at = process[q].before
  <2>1. process[p] \in Process
    BY DEF TypeOK
  <2> QED
    BY <1>6, <2>1 DEF StopServing, paths, data, count, Goes, TypeOK, Process
<1>7. ASSUME NEW p \in Processes, NEW k \in Keys, WriteUpload(p, k) PROVE at = process[q].before
  BY <1>7 DEF WriteUpload, paths, data, count
<1>8. ASSUME NEW p \in Processes, NEW k \in Keys, AttachUpload(p, k) PROVE at = process[q].before
  BY <1>8 DEF AttachUpload, paths, data, count
<1>9. ASSUME NEW p \in Processes, NEW k \in Keys, DeleteAttachment(p, k)
      PROVE  at = process[q].before
  BY <1>9 DEF DeleteAttachment, paths, data, count
<1>10. ASSUME NEW p \in Processes, NEW k \in Keys, RemoveUpload(p, k) PROVE at = process[q].before
  <2>1. process[p] \in Process
    BY DEF TypeOK
  <2> QED
    BY <1>10, <2>1 DEF RemoveUpload, paths, data, count, TypeOK, Process
<1>11. ASSUME NEW p \in Processes, Inspect(p) PROVE at = process[q].before
  <2>1. process[p] \in Process
    BY DEF TypeOK
  <2> QED
    BY <1>11, <2>1 DEF Inspect, paths, data, count, TypeOK, Process
<1>12. ASSUME NEW p \in Processes, InstallCurrentSchema(p) PROVE at = process[q].before
  <2>1. process[p] \in Process
    BY DEF TypeOK
  <2> QED
    BY <1>12, <2>1 DEF InstallCurrentSchema, paths, data, count, Goes, TypeOK, Process
<1>13. ASSUME NEW p \in Processes, BeginTransaction(p) PROVE at = process[q].before
  <2>1. process[p] \in Process
    BY DEF TypeOK
  <2> QED
    BY <1>13, <2>1 DEF BeginTransaction, paths, data, count, Goes, TypeOK, Process
<1>14. ASSUME NEW p \in Processes, Up(p) PROVE at = process[q].before
  <2>1. process[p] \in Process
    BY DEF TypeOK
  <2> QED
    BY <1>14, <2>1 DEF Up, paths, data, count, TypeOK, Process
<1>15. ASSUME NEW p \in Processes, CommitMigrations(p) PROVE at = process[q].before
  <2>1. process[p] \in Process
    BY DEF TypeOK
  <2> QED
    BY <1>15, <2>1 DEF CommitMigrations, paths, data, count, Goes, TypeOK, Process
<1>16. ASSUME NEW p \in Processes, CopyDatabase(p) PROVE at = process[q].before
  <2>1. process[p] \in Process
    BY DEF TypeOK
  <2> QED
    BY <1>16, <2>1 DEF CopyDatabase, paths, data, count, TypeOK, Process
<1>17. ASSUME NEW p \in Processes, NEW k \in Keys, ArchiveUpload(p, k) PROVE at = process[q].before
  <2>1. process[p] \in Process
    BY DEF TypeOK
  <2> QED
    BY <1>17, <2>1 DEF ArchiveUpload, paths, data, count, TypeOK, Process
<1>18. ASSUME NEW p \in Processes, Publish(p) PROVE at = process[q].before
  <2>1. process[p] \in Process
    BY DEF TypeOK
  <2> QED
    BY <1>18, <2>1, IdleHasNothing DEF Publish, paths, data, count, TypeOK, Process
<1>19. ASSUME NEW p \in Processes, AbandonBackup(p) PROVE at = process[q].before
  <2>1. process[p] \in Process
    BY DEF TypeOK
  <2> QED
    BY <1>19, <2>1, IdleHasNothing DEF AbandonBackup, paths, data, count, TypeOK, Process
<1>20. ASSUME NEW p \in Processes, NEW n \in 1..MaxBackups, BeginRestore(p, n)
       PROVE  at = process[q].before
  <2>1. process[p] \in Process
    BY DEF TypeOK
  <2> QED
    BY <1>20, <2>1 DEF BeginRestore, Acquire, paths, data, count, Idle, TypeOK, Process
<1>21. ASSUME NEW p \in Processes, Move(p) PROVE at = process[q].before
  <2>1. process[p] \in Process
    BY DEF TypeOK
  <2> QED
    BY <1>21, <2>1 DEF Move, paths, data, count, TypeOK, Process
<1>22. ASSUME NEW p \in Processes, MoveFails(p) PROVE at = process[q].before
  <2>1. process[p] \in Process
    BY DEF TypeOK
  <2> QED
    BY <1>22, <2>1 DEF MoveFails, paths, data, count, Goes, TypeOK, Process
<1>23. ASSUME NEW p \in Processes, Rollback(p) PROVE at = process[q].before
  <2>1. process[p] \in Process
    BY DEF TypeOK
  <2> QED
    BY <1>23, <2>1 DEF Rollback, paths, data, count, TypeOK, Process
<1>24. ASSUME NEW p \in Processes, RollbackFails(p) PROVE at = process[q].before
  <2>1. process[p] \in Process
    BY DEF TypeOK
  <2> QED
    BY <1>24, <2>1 DEF RollbackFails, paths, data, count, TypeOK, Process
<1>25. ASSUME NEW p \in Processes, EndRestore(p) PROVE at = process[q].before
  <2>1. q = p
    BY <1>25 DEF EndRestore, TypeOK
  <2>2. process[q].renamed = {} /\ Left(q, "db", 1, 4) /\ Left(q, "wal", 2, 0) /\ Left(q, "uploads", 3, 5)
    BY <1>25, <2>1 DEF EndRestore, RestoreEnds, Undoable
  <2>3. \A x \in {"db", "wal", "uploads"} : at[x] = process[q].before[x]
    BY <2>2 DEF Left
  <2>4. /\ at = [x \in {"db", "wal", "uploads"} |-> at[x]]
        /\ process[q].before = [x \in {"db", "wal", "uploads"} |-> process[q].before[x]]
    BY <1>0 DEF Places
  <2> QED
    BY <2>3, <2>4
<1>26. ASSUME UNCHANGED vars PROVE at = process[q].before
  BY <1>26 DEF vars
<1> QED
  BY <1>1, <1>2, <1>3, <1>4, <1>5, <1>6, <1>7, <1>8, <1>9, <1>10, <1>11, <1>12, <1>13,
     <1>14, <1>15, <1>16, <1>17, <1>18, <1>19, <1>20, <1>21, <1>22, <1>23, <1>24, <1>25, <1>26
     DEF Next, Serve, Migrate, Create, Restore

-----------------------------------------------------------------------------
(* Databases in use, and their migrations.                                 *)

\* A database that can be opened, as it comes out of a backup.
Usable(c) == c.state # "none" /\ (c.state = "empty" => c.applied = {}) /\ 0 \notin c.applied

\* Backups and restored copies are of databases, and the paths lead to some.
InUse ==
    /\ at.db # 0 => content[at.db].state # "none"
    /\ \A r \in 1..MaxRestores : saved[r].db # 0 => content[saved[r].db].state # "none"
    /\ \A n \in 1..MaxBackups : backups[n] # NoBackup => Usable(backups[n].database)
    /\ \A p \in Processes :
        /\ process[p].pc = "archiving" => Usable(process[p].made.database)
        /\ process[p].pc \in {"moving", "rollback"} =>
            /\ content[process[p].staged].state # "none"
            /\ \A r \in 1..MaxRestores : saved[r].db # process[p].staged
            /\ process[p].pc = "moving" /\ process[p].next <= 1 => at.db # process[p].staged

\* What the migrations make of a database.
Sound(c) ==
    /\ c.state = "none" => c = NoDatabase
    /\ c.state = "empty" => c.applied = {} /\ c.first = {}
    /\ 0 \notin c.applied
    /\ \A v \in Versions : c.ran[v] = IF v \in c.applied \ c.first THEN 1 ELSE 0
    /\ c.applied = c.first \/ Versions \subseteq c.applied

\* What a command has seen of the database that it has open still holds.
Seen(s, c) ==
    /\ s.pc = "serving" => c.applied = Versions
    /\ s.pc = "install" => c.state = "empty" \/ (c.applied = Versions /\ c.first = Versions)
    /\ s.pc \in {"migrating", "transaction"} =>
            c.state = "live" /\ s.pending = Versions \ c.first /\ s.pending # {}
    /\ s.pc = "transaction" => s.done \subseteq s.pending /\ (s.done # {} => c.applied = c.first)
    /\ s.pc \in {"idle", "locked", "opened", "migrating"} => s.done = {}

SchemasSeen ==
    /\ \A d \in Databases : Sound(content[d])
    /\ \A p \in Processes : Seen(process[p], content[process[p].open])
    /\ \A p, q \in Processes :
            process[p].pc = "transaction" /\ process[q].pc = "transaction" /\ p # q
                => process[p].open # process[q].open

\* What lies at the paths and beside them are databases.
LEMMA PathsLeadToDatabases ==
    ASSUME TypeOK
    PROVE  /\ at.db # 0 => at.db \in Databases
           /\ \A r \in 1..MaxRestores : saved[r].db # 0 => saved[r].db \in Databases
<1>1. at \in Places /\ \A r \in 1..MaxRestores : saved[r] \in Places
  BY DEF TypeOK
<1>2. \A places \in Places : places.db \in 0..MaxDatabases
  BY DEF Places
<1>3. \A n \in 0..MaxDatabases : n # 0 => n \in Databases
  BY DatabaseFilesAssumption DEF Databases
<1> QED
  BY <1>1, <1>2, <1>3

\* Steps that take no database away and move none.
LEMMA SameUse ==
    ASSUME TypeOK, Locked, InUse, at'.db = at.db, UNCHANGED <<saved, backups>>,
           \A d \in Databases : content[d].state # "none" => content'[d].state # "none",
           \A p \in Processes :
            /\ process'[p].pc = "archiving" =>
                    process[p].pc = "archiving" /\ process'[p].made.database = process[p].made.database
            /\ process'[p].pc \in {"moving", "rollback"} =>
                /\ process[p].pc \in {"moving", "rollback"} /\ process'[p].staged = process[p].staged
                /\ process'[p].pc = "moving" => process[p].pc = "moving" /\ process'[p].next = process[p].next
    PROVE  InUse'
<1>1. /\ at.db # 0 => at.db \in Databases
      /\ \A r \in 1..MaxRestores : saved[r].db # 0 => saved[r].db \in Databases
  BY PathsLeadToDatabases
<1>2. \A p \in Processes : process[p].pc \in {"moving", "rollback"} => process[p].staged \in Databases
  BY DEF Locked
<1> HIDE DEF Usable
<1> QED
  BY <1>1, <1>2 DEF InUse

\* No step takes away a database that a path or a recovery directory has.
LEMMA InUseStep == TypeOK /\ Locked /\ InUse /\ SchemasSeen /\ [Next]_vars => InUse'
<1> SUFFICES ASSUME TypeOK, Locked, InUse, SchemasSeen, [Next]_vars PROVE InUse'
  OBVIOUS
<1>1. ASSUME NEW p \in Processes, OpenDatabase(p) PROVE InUse'
  <2> DEFINE d == IF at.db = 0 THEN NextDatabase ELSE at.db
  <2>1. d \in Databases /\ (at.db # 0 => d = at.db)
    BY <1>1, NextDatabaseIsFresh, DatabaseFilesAssumption DEF OpenDatabase, TypeOK, Places, Databases
  <2>2. /\ process[p].pc = "locked" /\ process'[p].pc \in {"copying", "opened"} /\ at'.db = d
        /\ UNCHANGED <<saved, backups>>
        /\ content' = IF at.db = 0 THEN [content EXCEPT ![d].state = "empty"] ELSE content
        /\ \A q \in Processes : q # p => process'[q] = process[q]
    <3>1. process[p] \in Process /\ at \in Places
      BY DEF TypeOK
    <3> QED
      BY <1>1, <3>1 DEF OpenDatabase, TypeOK, Places, Process
  <2>3. /\ at.db = 0 => content'[d].state = "empty"
        /\ \A e \in 0..MaxDatabases : e # d \/ at.db # 0 => content'[e] = content[e]
    <3>1. content[d] \in Database
      BY <2>1 DEF TypeOK
    <3> HIDE DEF d
    <3> QED
      BY <2>1, <2>2, <3>1 DEF TypeOK, Database
  <2>4. \A q \in Processes : process[q].pc \notin {"moving", "rollback"}
    BY <2>2, RestoreIsAlone
  <2>5. \A r \in 1..MaxRestores : saved[r].db \in 0..MaxDatabases
    BY DEF TypeOK, Places
  <2> HIDE DEF d
  <2> QED
    BY <2>1, <2>2, <2>3, <2>4, <2>5 DEF InUse, Databases
<1>2. ASSUME NEW p \in Processes, CloseDatabase(p) PROVE InUse'
  <2>1. at'.db = at.db /\ UNCHANGED <<saved, backups>>
    BY <1>2 DEF CloseDatabase, paths, data, count, Closes, TypeOK, Places
  <2>2. \A d \in Databases : content[d].state # "none" => content'[d].state # "none"
    BY <1>2 DEF CloseDatabase, paths, data, count, Closes, TypeOK
  <2>3. ASSUME NEW q \in Processes
        PROVE  /\ process'[q].pc = "archiving" =>
                    process[q].pc = "archiving" /\ process'[q].made.database = process[q].made.database
               /\ process'[q].pc \in {"moving", "rollback"} =>
                   /\ process[q].pc \in {"moving", "rollback"} /\ process'[q].staged = process[q].staged
                   /\ process'[q].pc = "moving" => process[q].pc = "moving" /\ process'[q].next = process[q].next
    <3>1. process[p] \in Process /\ process[q] \in Process /\ process[q].made \in Backup
      BY DEF TypeOK, Process
    <3> QED
      BY <1>2, <3>1, IdleHasNothing DEF CloseDatabase, paths, data, count, Closes, TypeOK, Process
  <2> QED
    BY <2>1, <2>2, <2>3, SameUse
<1>3. ASSUME NEW p \in Processes, Unlock(p) PROVE InUse'
  <2>1. at'.db = at.db /\ UNCHANGED <<saved, backups>>
    BY <1>3 DEF Unlock, paths, data, count, TypeOK, Places
  <2>2. \A d \in Databases : content[d].state # "none" => content'[d].state # "none"
    BY <1>3 DEF Unlock, paths, data, count, TypeOK
  <2>3. ASSUME NEW q \in Processes
        PROVE  /\ process'[q].pc = "archiving" =>
                    process[q].pc = "archiving" /\ process'[q].made.database = process[q].made.database
               /\ process'[q].pc \in {"moving", "rollback"} =>
                   /\ process[q].pc \in {"moving", "rollback"} /\ process'[q].staged = process[q].staged
                   /\ process'[q].pc = "moving" => process[q].pc = "moving" /\ process'[q].next = process[q].next
    <3>1. process[p] \in Process /\ process[q] \in Process /\ process[q].made \in Backup
      BY DEF TypeOK, Process
    <3> QED
      BY <1>3, <3>1, IdleHasNothing DEF Unlock, paths, data, count, TypeOK, Process
  <2> QED
    BY <2>1, <2>2, <2>3, SameUse
<1>4. ASSUME NEW p \in Processes, Crash(p) PROVE InUse'
  <2>1. /\ process'[p].pc = "idle" /\ UNCHANGED <<at, saved, backups>>
        /\ \A q \in Processes : q # p => process'[q] = process[q]
    BY <1>4, IdleHasNothing DEF Crash, TypeOK
  <2>2. process[p].staged = 0 => content' = content
    BY <1>4 DEF Crash, DiscardCopies
  <2>3. /\ at.db # 0 => content'[at.db].state # "none"
        /\ \A r \in 1..MaxRestores : saved[r].db # 0 => content'[saved[r].db].state # "none"
    <3>1. /\ at.db # 0 => at.db \in Databases
          /\ \A r \in 1..MaxRestores : saved[r].db # 0 => saved[r].db \in Databases
      BY PathsLeadToDatabases
    <3>2. \A e \in Databases : content'[e] = content[e] \/ (e = process[p].staged /\ e # at.db)
      BY <1>4 DEF Crash, DiscardCopies, TypeOK
    <3>3. \A r \in 1..MaxRestores : process[p].staged # 0 => saved[r].db # process[p].staged
      BY DEF InUse, Locked
    <3>4. 0 \notin Databases
      BY DEF Databases
    <3> QED
      BY <3>1, <3>2, <3>3, <3>4 DEF InUse
  <2>4. process[p].staged # 0 => \A q \in Processes : process'[q].pc = "idle"
    BY <2>1, RestoreIsAlone DEF Locked
  <2> HIDE DEF Usable
  <2> QED
    BY <2>1, <2>2, <2>3, <2>4 DEF InUse
<1>5. ASSUME NEW p \in Processes, NEW command \in {"serve", "migrate", "backup"}, Begin(p, command)
      PROVE  InUse'
  <2>1. at'.db = at.db /\ UNCHANGED <<saved, backups>>
    BY <1>5 DEF Begin, Acquire, paths, data, count, TypeOK, Places
  <2>2. \A d \in Databases : content[d].state # "none" => content'[d].state # "none"
    BY <1>5 DEF Begin, Acquire, paths, data, count, TypeOK
  <2>3. ASSUME NEW q \in Processes
        PROVE  /\ process'[q].pc = "archiving" =>
                    process[q].pc = "archiving" /\ process'[q].made.database = process[q].made.database
               /\ process'[q].pc \in {"moving", "rollback"} =>
                   /\ process[q].pc \in {"moving", "rollback"} /\ process'[q].staged = process[q].staged
                   /\ process'[q].pc = "moving" => process[q].pc = "moving" /\ process'[q].next = process[q].next
    <3>1. process[p] \in Process /\ process[q] \in Process /\ process[q].made \in Backup
      BY DEF TypeOK, Process
    <3> QED
      BY <1>5, <3>1 DEF Begin, Acquire, paths, data, count, TypeOK, Process
  <2> QED
    BY <2>1, <2>2, <2>3, SameUse
<1>6. ASSUME NEW p \in Processes, StopServing(p) PROVE InUse'
  <2>1. at'.db = at.db /\ UNCHANGED <<saved, backups>>
    BY <1>6 DEF StopServing, paths, data, count, Goes, TypeOK, Places
  <2>2. \A d \in Databases : content[d].state # "none" => content'[d].state # "none"
    BY <1>6 DEF StopServing, paths, data, count, Goes, TypeOK
  <2>3. ASSUME NEW q \in Processes
        PROVE  /\ process'[q].pc = "archiving" =>
                    process[q].pc = "archiving" /\ process'[q].made.database = process[q].made.database
               /\ process'[q].pc \in {"moving", "rollback"} =>
                   /\ process[q].pc \in {"moving", "rollback"} /\ process'[q].staged = process[q].staged
                   /\ process'[q].pc = "moving" => process[q].pc = "moving" /\ process'[q].next = process[q].next
    <3>1. process[p] \in Process /\ process[q] \in Process /\ process[q].made \in Backup
      BY DEF TypeOK, Process
    <3> QED
      BY <1>6, <3>1 DEF StopServing, paths, data, count, Goes, TypeOK, Process
  <2> QED
    BY <2>1, <2>2, <2>3, SameUse
<1>7. ASSUME NEW p \in Processes, NEW k \in Keys, WriteUpload(p, k) PROVE InUse'
  <2>1. at'.db = at.db /\ UNCHANGED <<saved, backups>>
    BY <1>7 DEF WriteUpload, paths, data, count, TypeOK, Places
  <2>2. \A d \in Databases : content[d].state # "none" => content'[d].state # "none"
    BY <1>7 DEF WriteUpload, paths, data, count, TypeOK
  <2>3. ASSUME NEW q \in Processes
        PROVE  /\ process'[q].pc = "archiving" =>
                    process[q].pc = "archiving" /\ process'[q].made.database = process[q].made.database
               /\ process'[q].pc \in {"moving", "rollback"} =>
                   /\ process[q].pc \in {"moving", "rollback"} /\ process'[q].staged = process[q].staged
                   /\ process'[q].pc = "moving" => process[q].pc = "moving" /\ process'[q].next = process[q].next
    <3>1. process[p] \in Process /\ process[q] \in Process /\ process[q].made \in Backup
      BY DEF TypeOK, Process
    <3> QED
      BY <1>7, <3>1 DEF WriteUpload, paths, data, count, TypeOK, Process
  <2> QED
    BY <2>1, <2>2, <2>3, SameUse
<1>8. ASSUME NEW p \in Processes, NEW k \in Keys, AttachUpload(p, k) PROVE InUse'
  <2>1. at'.db = at.db /\ UNCHANGED <<saved, backups>>
    BY <1>8 DEF AttachUpload, paths, data, count, TypeOK, Places
  <2>2. \A d \in Databases : content[d].state # "none" => content'[d].state # "none"
    <3>1. \A d \in Databases : content'[d].state = content[d].state
      <4>1. process[p].open \in Databases
        BY <1>8, DatabaseFilesAssumption DEF AttachUpload, Locked, Opened, TypeOK, Process, Databases
      <4>2. content[process[p].open] \in Database
        BY <4>1 DEF TypeOK
      <4> QED
        BY <1>8, <4>1, <4>2 DEF AttachUpload, TypeOK, Database
    <3> QED
      BY <3>1
  <2>3. ASSUME NEW q \in Processes
        PROVE  /\ process'[q].pc = "archiving" =>
                    process[q].pc = "archiving" /\ process'[q].made.database = process[q].made.database
               /\ process'[q].pc \in {"moving", "rollback"} =>
                   /\ process[q].pc \in {"moving", "rollback"} /\ process'[q].staged = process[q].staged
                   /\ process'[q].pc = "moving" => process[q].pc = "moving" /\ process'[q].next = process[q].next
    <3>1. process[p] \in Process /\ process[q] \in Process /\ process[q].made \in Backup
      BY DEF TypeOK, Process
    <3> QED
      BY <1>8, <3>1 DEF AttachUpload, paths, data, count, TypeOK, Process
  <2> QED
    BY <2>1, <2>2, <2>3, SameUse
<1>9. ASSUME NEW p \in Processes, NEW k \in Keys, DeleteAttachment(p, k) PROVE InUse'
  <2>1. at'.db = at.db /\ UNCHANGED <<saved, backups>>
    BY <1>9 DEF DeleteAttachment, paths, data, count, TypeOK, Places
  <2>2. \A d \in Databases : content[d].state # "none" => content'[d].state # "none"
    <3>1. \A d \in Databases : content'[d].state = content[d].state
      <4>1. process[p].open \in Databases
        BY <1>9, DatabaseFilesAssumption DEF DeleteAttachment, Locked, Opened, TypeOK, Process, Databases
      <4>2. content[process[p].open] \in Database
        BY <4>1 DEF TypeOK
      <4> QED
        BY <1>9, <4>1, <4>2 DEF DeleteAttachment, TypeOK, Database
    <3> QED
      BY <3>1
  <2>3. ASSUME NEW q \in Processes
        PROVE  /\ process'[q].pc = "archiving" =>
                    process[q].pc = "archiving" /\ process'[q].made.database = process[q].made.database
               /\ process'[q].pc \in {"moving", "rollback"} =>
                   /\ process[q].pc \in {"moving", "rollback"} /\ process'[q].staged = process[q].staged
                   /\ process'[q].pc = "moving" => process[q].pc = "moving" /\ process'[q].next = process[q].next
    <3>1. process[p] \in Process /\ process[q] \in Process /\ process[q].made \in Backup
      BY DEF TypeOK, Process
    <3> QED
      BY <1>9, <3>1 DEF DeleteAttachment, paths, data, count, TypeOK, Process
  <2> QED
    BY <2>1, <2>2, <2>3, SameUse
<1>10. ASSUME NEW p \in Processes, NEW k \in Keys, RemoveUpload(p, k) PROVE InUse'
  <2>1. at'.db = at.db /\ UNCHANGED <<saved, backups>>
    BY <1>10 DEF RemoveUpload, paths, data, count, TypeOK, Places
  <2>2. \A d \in Databases : content[d].state # "none" => content'[d].state # "none"
    BY <1>10 DEF RemoveUpload, paths, data, count, TypeOK
  <2>3. ASSUME NEW q \in Processes
        PROVE  /\ process'[q].pc = "archiving" =>
                    process[q].pc = "archiving" /\ process'[q].made.database = process[q].made.database
               /\ process'[q].pc \in {"moving", "rollback"} =>
                   /\ process[q].pc \in {"moving", "rollback"} /\ process'[q].staged = process[q].staged
                   /\ process'[q].pc = "moving" => process[q].pc = "moving" /\ process'[q].next = process[q].next
    <3>1. process[p] \in Process /\ process[q] \in Process /\ process[q].made \in Backup
      BY DEF TypeOK, Process
    <3> QED
      BY <1>10, <3>1 DEF RemoveUpload, paths, data, count, TypeOK, Process, Backup
  <2> QED
    BY <2>1, <2>2, <2>3, SameUse
<1>11. ASSUME NEW p \in Processes, Inspect(p) PROVE InUse'
  <2>1. at'.db = at.db /\ UNCHANGED <<saved, backups>>
    BY <1>11 DEF Inspect, paths, data, count, TypeOK, Places
  <2>2. \A d \in Databases : content[d].state # "none" => content'[d].state # "none"
    BY <1>11 DEF Inspect, paths, data, count, TypeOK
  <2>3. ASSUME NEW q \in Processes
        PROVE  /\ process'[q].pc = "archiving" =>
                    process[q].pc = "archiving" /\ process'[q].made.database = process[q].made.database
               /\ process'[q].pc \in {"moving", "rollback"} =>
                   /\ process[q].pc \in {"moving", "rollback"} /\ process'[q].staged = process[q].staged
                   /\ process'[q].pc = "moving" => process[q].pc = "moving" /\ process'[q].next = process[q].next
    <3>1. process[p] \in Process /\ process[q] \in Process /\ process[q].made \in Backup
      BY DEF TypeOK, Process
    <3> QED
      BY <1>11, <3>1 DEF Inspect, paths, data, count, TypeOK, Process
  <2> QED
    BY <2>1, <2>2, <2>3, SameUse
<1>12. ASSUME NEW p \in Processes, InstallCurrentSchema(p) PROVE InUse'
  <2>1. at'.db = at.db /\ UNCHANGED <<saved, backups>>
    BY <1>12 DEF InstallCurrentSchema, paths, data, count, Goes, TypeOK, Places
  <2>2. \A d \in Databases : content[d].state # "none" => content'[d].state # "none"
    <3>1. process[p].open \in Databases
      BY <1>12, DatabaseFilesAssumption DEF InstallCurrentSchema, Locked, Opened, TypeOK, Process, Databases
    <3>2. /\ content[process[p].open] \in Database
          /\ \A d \in Databases : d # process[p].open => content'[d] = content[d]
      BY <1>12, <3>1 DEF InstallCurrentSchema, TypeOK
    <3>3. content'[process[p].open].state = "live"
      BY <1>12, <3>1, <3>2 DEF InstallCurrentSchema, TypeOK, Database
    <3> QED
      BY <3>2, <3>3
  <2>3. ASSUME NEW q \in Processes
        PROVE  /\ process'[q].pc = "archiving" =>
                    process[q].pc = "archiving" /\ process'[q].made.database = process[q].made.database
               /\ process'[q].pc \in {"moving", "rollback"} =>
                   /\ process[q].pc \in {"moving", "rollback"} /\ process'[q].staged = process[q].staged
                   /\ process'[q].pc = "moving" => process[q].pc = "moving" /\ process'[q].next = process[q].next
    <3>1. process[p] \in Process /\ process[q] \in Process /\ process[q].made \in Backup
      BY DEF TypeOK, Process
    <3> QED
      BY <1>12, <3>1 DEF InstallCurrentSchema, paths, data, count, Goes, TypeOK, Process
  <2> QED
    BY <2>1, <2>2, <2>3, SameUse
<1>13. ASSUME NEW p \in Processes, BeginTransaction(p) PROVE InUse'
  <2>1. at'.db = at.db /\ UNCHANGED <<saved, backups>>
    BY <1>13 DEF BeginTransaction, paths, data, count, Goes, TypeOK, Places
  <2>2. \A d \in Databases : content[d].state # "none" => content'[d].state # "none"
    BY <1>13 DEF BeginTransaction, paths, data, count, Goes, TypeOK
  <2>3. ASSUME NEW q \in Processes
        PROVE  /\ process'[q].pc = "archiving" =>
                    process[q].pc = "archiving" /\ process'[q].made.database = process[q].made.database
               /\ process'[q].pc \in {"moving", "rollback"} =>
                   /\ process[q].pc \in {"moving", "rollback"} /\ process'[q].staged = process[q].staged
                   /\ process'[q].pc = "moving" => process[q].pc = "moving" /\ process'[q].next = process[q].next
    <3>1. process[p] \in Process /\ process[q] \in Process /\ process[q].made \in Backup
      BY DEF TypeOK, Process
    <3> QED
      BY <1>13, <3>1 DEF BeginTransaction, paths, data, count, Goes, TypeOK, Process
  <2> QED
    BY <2>1, <2>2, <2>3, SameUse
<1>14. ASSUME NEW p \in Processes, Up(p) PROVE InUse'
  <2>1. at'.db = at.db /\ UNCHANGED <<saved, backups>>
    BY <1>14 DEF Up, paths, data, count, TypeOK, Places
  <2>2. \A d \in Databases : content[d].state # "none" => content'[d].state # "none"
    BY <1>14 DEF Up, paths, data, count, TypeOK
  <2>3. ASSUME NEW q \in Processes
        PROVE  /\ process'[q].pc = "archiving" =>
                    process[q].pc = "archiving" /\ process'[q].made.database = process[q].made.database
               /\ process'[q].pc \in {"moving", "rollback"} =>
                   /\ process[q].pc \in {"moving", "rollback"} /\ process'[q].staged = process[q].staged
                   /\ process'[q].pc = "moving" => process[q].pc = "moving" /\ process'[q].next = process[q].next
    <3>1. process[p] \in Process /\ process[q] \in Process /\ process[q].made \in Backup
      BY DEF TypeOK, Process
    <3> QED
      BY <1>14, <3>1 DEF Up, paths, data, count, TypeOK, Process
  <2> QED
    BY <2>1, <2>2, <2>3, SameUse
<1>15. ASSUME NEW p \in Processes, CommitMigrations(p) PROVE InUse'
  <2>1. at'.db = at.db /\ UNCHANGED <<saved, backups>>
    BY <1>15 DEF CommitMigrations, paths, data, count, Goes, TypeOK, Places
  <2>2. \A d \in Databases : content[d].state # "none" => content'[d].state # "none"
    <3>1. process[p].open \in Databases
      BY <1>15, DatabaseFilesAssumption DEF CommitMigrations, Locked, Opened, TypeOK, Process, Databases
    <3>2. /\ content[process[p].open] \in Database
          /\ \A d \in Databases : d # process[p].open => content'[d] = content[d]
      BY <1>15, <3>1 DEF CommitMigrations, TypeOK
    <3>3. content'[process[p].open].state = content[process[p].open].state
      BY <1>15, <3>1, <3>2 DEF CommitMigrations, TypeOK, Database
    <3> QED
      BY <3>2, <3>3
  <2>3. ASSUME NEW q \in Processes
        PROVE  /\ process'[q].pc = "archiving" =>
                    process[q].pc = "archiving" /\ process'[q].made.database = process[q].made.database
               /\ process'[q].pc \in {"moving", "rollback"} =>
                   /\ process[q].pc \in {"moving", "rollback"} /\ process'[q].staged = process[q].staged
                   /\ process'[q].pc = "moving" => process[q].pc = "moving" /\ process'[q].next = process[q].next
    <3>1. process[p] \in Process /\ process[q] \in Process /\ process[q].made \in Backup
      BY DEF TypeOK, Process
    <3> QED
      BY <1>15, <3>1 DEF CommitMigrations, paths, data, count, Goes, TypeOK, Process
  <2> QED
    BY <2>1, <2>2, <2>3, SameUse
<1>16. ASSUME NEW p \in Processes, CopyDatabase(p) PROVE InUse'
  <2> DEFINE d == process[p].open
             made == [NoBackup EXCEPT !.database = content[d], !.owed = content[d].rows \cap Files]
  <2>1. /\ process' = [process EXCEPT ![p].pc = "archiving", ![p].open = 0, ![p].name = FreeName,
                                     ![p].left = Keys, ![p].made = made]
        /\ at'.db = at.db /\ UNCHANGED <<saved, content, backups>>
    BY <1>16 DEF CopyDatabase, Closes, data, TypeOK, Places
  <2>2. d \in Databases /\ at.db = d /\ d # 0
    BY <1>16, DatabaseFilesAssumption DEF CopyDatabase, Locked, Opened, Process, Databases, TypeOK
  <2>3. Usable(content[d])
    BY <2>2 DEF InUse, SchemasSeen, Sound, Usable
  <2>4. made.database = content[d]
    BY DEF NoBackup
  <2> HIDE DEF made, d
  <2>5. /\ process'[p].made = made /\ process'[p].pc = "archiving"
        /\ \A q \in Processes : q # p => process'[q] = process[q]
    <3>1. process[p] \in Process
      BY DEF TypeOK
    <3> QED
      BY <2>1, <3>1 DEF TypeOK, Process
  <2> HIDE DEF Usable
  <2>6. \A q \in Processes : process'[q].pc = "archiving" => Usable(process'[q].made.database)
    BY <2>3, <2>4, <2>5 DEF InUse
  <2>7. \A q \in Processes : process'[q].pc \in {"moving", "rollback"} =>
            process'[q] = process[q] /\ process[q].pc \in {"moving", "rollback"}
    BY <2>5
  <2>8. UNCHANGED <<saved, content, backups>> /\ at'.db = at.db
    BY <2>1
  <2> QED
    BY <2>6, <2>7, <2>8 DEF InUse
<1>17. ASSUME NEW p \in Processes, NEW k \in Keys, ArchiveUpload(p, k) PROVE InUse'
  <2>1. at'.db = at.db /\ UNCHANGED <<saved, backups>>
    BY <1>17 DEF ArchiveUpload, paths, data, count, TypeOK, Places
  <2>2. \A d \in Databases : content[d].state # "none" => content'[d].state # "none"
    BY <1>17 DEF ArchiveUpload, paths, data, count, TypeOK
  <2>3. ASSUME NEW q \in Processes
        PROVE  /\ process'[q].pc = "archiving" =>
                    process[q].pc = "archiving" /\ process'[q].made.database = process[q].made.database
               /\ process'[q].pc \in {"moving", "rollback"} =>
                   /\ process[q].pc \in {"moving", "rollback"} /\ process'[q].staged = process[q].staged
                   /\ process'[q].pc = "moving" => process[q].pc = "moving" /\ process'[q].next = process[q].next
    <3>1. process[p] \in Process /\ process[q] \in Process /\ process[q].made \in Backup
      BY DEF TypeOK, Process
    <3> QED
      BY <1>17, <3>1 DEF ArchiveUpload, paths, data, count, TypeOK, Process, Backup
  <2> QED
    BY <2>1, <2>2, <2>3, SameUse
<1>18. ASSUME NEW p \in Processes, Publish(p) PROVE InUse'
  <2>1. /\ process[p].pc = "archiving" /\ process'[p].pc = "closed" /\ UNCHANGED <<at, saved, content>>
        /\ \A q \in Processes : q # p => process'[q] = process[q]
        /\ backups' = IF backups[process[p].name] = NoBackup
                      THEN [backups EXCEPT ![process[p].name] = process[p].made] ELSE backups
    BY <1>18, IdleHasNothing DEF Publish, paths, TypeOK
  <2>2. Usable(process[p].made.database)
    BY <2>1 DEF InUse
  <2>3. \A n \in 1..MaxBackups : backups'[n] = backups[n] \/ backups'[n] = process[p].made
    BY <2>1 DEF TypeOK
  <2> QED
    BY <2>1, <2>2, <2>3 DEF InUse
<1>19. ASSUME NEW p \in Processes, AbandonBackup(p) PROVE InUse'
  <2>1. at'.db = at.db /\ UNCHANGED <<saved, backups>>
    BY <1>19 DEF AbandonBackup, paths, data, count, TypeOK, Places
  <2>2. \A d \in Databases : content[d].state # "none" => content'[d].state # "none"
    BY <1>19 DEF AbandonBackup, paths, data, count, TypeOK
  <2>3. ASSUME NEW q \in Processes
        PROVE  /\ process'[q].pc = "archiving" =>
                    process[q].pc = "archiving" /\ process'[q].made.database = process[q].made.database
               /\ process'[q].pc \in {"moving", "rollback"} =>
                   /\ process[q].pc \in {"moving", "rollback"} /\ process'[q].staged = process[q].staged
                   /\ process'[q].pc = "moving" => process[q].pc = "moving" /\ process'[q].next = process[q].next
    <3>1. process[p] \in Process /\ process[q] \in Process /\ process[q].made \in Backup
      BY DEF TypeOK, Process
    <3> QED
      BY <1>19, <3>1, IdleHasNothing DEF AbandonBackup, paths, data, count, TypeOK, Process
  <2> QED
    BY <2>1, <2>2, <2>3, SameUse
<1>20. ASSUME NEW p \in Processes, NEW n \in 1..MaxBackups, BeginRestore(p, n) PROVE InUse'
  <2> DEFINE d == NextDatabase
             copy == [backups[n].database EXCEPT !.first = backups[n].database.applied, !.ran = NoDatabase.ran,
                                                 !.missing = backups[n].database.rows \ backups[n].files]
  <2>1. /\ d \in Databases /\ d # 0 /\ content[d].state = "none"
    BY <1>20, NextDatabaseIsFresh DEF BeginRestore, Fresh
  <2>2. /\ content' = [content EXCEPT ![d] = copy] /\ backups[n] # NoBackup
        /\ process'[p].pc = "moving" /\ process'[p].staged = d
        /\ UNCHANGED <<at, saved, backups>>
        /\ \A q \in Processes : q # p => process'[q] = process[q] /\ lock[q] = "none"
    BY <1>20 DEF BeginRestore, Acquire, MayLock, paths, TypeOK, Idle
  <2>3. copy.state # "none"
    <3>1. backups[n].database \in Database
      BY DEF TypeOK, Backup
    <3> QED
      BY <2>2, <3>1 DEF InUse, Usable, Database
  <2> HIDE DEF d, copy
  <2>4. content'[d].state # "none" /\ \A e \in 0..MaxDatabases : e # d => content'[e] = content[e]
    BY <2>1, <2>2, <2>3 DEF TypeOK
  <2>5. \A q \in Processes : q # p => process'[q].pc = "idle"
    BY <2>2 DEF Locked
  <2>6. at.db \in 0..MaxDatabases /\ \A r \in 1..MaxRestores : saved[r].db \in 0..MaxDatabases
    BY DEF TypeOK, Places
  <2>7. /\ at.db # d /\ \A r \in 1..MaxRestores : saved[r].db # d
    BY <2>1 DEF InUse
  <2> QED
    BY <2>1, <2>2, <2>4, <2>5, <2>6, <2>7 DEF InUse
<1>21. ASSUME NEW p \in Processes, Move(p) PROVE InUse'
  <2> DEFINE n == process[p].next
             r == process[p].name
             d == process[p].staged
  <2>0. /\ process[p] \in Process /\ process[p].pc = "moving" /\ n \in 1..5 /\ at \in Places
        /\ r \in 1..MaxRestores /\ saved[r] \in Places /\ d # 0
    BY <1>21, DatabaseFilesAssumption DEF Move, Locked, TypeOK, Databases
  <2>1. /\ content' = content /\ backups' = backups
        /\ \/ Skips(n) /\ UNCHANGED <<at, saved>>
           \/ Renames(p, n)
        /\ \/ process' = [process EXCEPT ![p].next = n + 1]
           \/ process' = [process EXCEPT ![p].next = n + 1, ![p].renamed = @ \cup {n}]
    BY <1>21 DEF Move, data
  <2>2. /\ process'[p].pc = "moving" /\ process'[p].staged = d /\ process'[p].next = n + 1
        /\ \A q \in Processes : q # p => process'[q] = process[q]
    BY <2>0, <2>1 DEF TypeOK, Process
  <2>3. /\ at'.db = at.db \/ at'.db = 0 \/ at'.db = d
        /\ \A s \in 1..MaxRestores : saved'[s].db = saved[s].db \/ (saved'[s].db = at.db /\ n = 1)
    <3>1. CASE n = 1 /\ Renames(p, n)
      <4>1. at' = [at EXCEPT !["db"] = 0] /\ saved' = [saved EXCEPT ![r]["db"] = at["db"]]
        BY <3>1 DEF Renames, Part, Recovery
      <4> QED
        BY <2>0, <3>1, <4>1 DEF TypeOK, Places
    <3>2. CASE n = 2 /\ Renames(p, n)
      <4>1. at' = [at EXCEPT !["wal"] = 0] /\ saved' = [saved EXCEPT ![r]["wal"] = at["wal"]]
        BY <3>2 DEF Renames, Part, Recovery
      <4> QED
        BY <2>0, <4>1 DEF TypeOK, Places
    <3>3. CASE n = 3 /\ Renames(p, n)
      <4>1. at' = [at EXCEPT !["uploads"] = 0] /\ saved' = [saved EXCEPT ![r]["uploads"] = at["uploads"]]
        BY <3>3 DEF Renames, Part, Recovery
      <4> QED
        BY <2>0, <4>1 DEF TypeOK, Places
    <3>4. CASE n = 4 /\ Renames(p, n)
      <4>1. at' = [at EXCEPT !["db"] = d] /\ saved' = saved
        BY <3>4 DEF Renames, Part
      <4> QED
        BY <2>0, <4>1 DEF TypeOK, Places
    <3>5. CASE n = 5 /\ Renames(p, n)
      <4>1. at' = [at EXCEPT !["uploads"] = d] /\ saved' = saved
        BY <3>5 DEF Renames, Part
      <4> QED
        BY <2>0, <4>1 DEF TypeOK, Places
    <3> QED
      BY <2>0, <2>1, <3>1, <3>2, <3>3, <3>4, <3>5
  <2>4. \A q \in Processes : q # p => process'[q].pc = "idle"
    BY <2>0, <2>2, RestoreIsAlone
  <2>5. /\ content[d].state # "none" /\ \A s \in 1..MaxRestores : saved[s].db # d
        /\ n = 1 => at.db # d
    BY <2>0 DEF InUse
  <2>6. n + 1 > 1
    BY <2>0
  <2> HIDE DEF n, r, d, Usable
  <2>7. /\ at'.db # 0 => content'[at'.db].state # "none"
        /\ \A s \in 1..MaxRestores : saved'[s].db # 0 => content'[saved'[s].db].state # "none"
        /\ \A s \in 1..MaxRestores : saved'[s].db # d
    BY <2>1, <2>3, <2>5 DEF InUse
  <2>8. \A m \in 1..MaxBackups : backups'[m] # NoBackup => Usable(backups'[m].database)
    BY <2>1 DEF InUse
  <2>9. \A q \in Processes :
            /\ process'[q].pc = "archiving" => Usable(process'[q].made.database)
            /\ process'[q].pc \in {"moving", "rollback"} =>
                /\ content'[process'[q].staged].state # "none"
                /\ \A s \in 1..MaxRestores : saved'[s].db # process'[q].staged
                /\ process'[q].pc = "moving" /\ process'[q].next <= 1 => at'.db # process'[q].staged
    <3>1. ~(process'[p].next <= 1)
      BY <2>0, <2>2 DEF n
    <3> QED
      BY <2>1, <2>2, <2>4, <2>5, <2>7, <3>1
  <2> QED
    BY <2>7, <2>8, <2>9 DEF InUse
<1>22. ASSUME NEW p \in Processes, MoveFails(p) PROVE InUse'
  <2>1. at'.db = at.db /\ UNCHANGED <<saved, backups>>
    BY <1>22 DEF MoveFails, paths, data, count, Goes, TypeOK, Places
  <2>2. \A d \in Databases : content[d].state # "none" => content'[d].state # "none"
    BY <1>22 DEF MoveFails, paths, data, count, Goes, TypeOK
  <2>3. ASSUME NEW q \in Processes
        PROVE  /\ process'[q].pc = "archiving" =>
                    process[q].pc = "archiving" /\ process'[q].made.database = process[q].made.database
               /\ process'[q].pc \in {"moving", "rollback"} =>
                   /\ process[q].pc \in {"moving", "rollback"} /\ process'[q].staged = process[q].staged
                   /\ process'[q].pc = "moving" => process[q].pc = "moving" /\ process'[q].next = process[q].next
    <3>1. process[p] \in Process /\ process[q] \in Process /\ process[q].made \in Backup
      BY DEF TypeOK, Process
    <3> QED
      BY <1>22, <3>1 DEF MoveFails, paths, data, count, Goes, TypeOK, Process
  <2> QED
    BY <2>1, <2>2, <2>3, SameUse
<1>23. ASSUME NEW p \in Processes, Rollback(p) PROVE InUse'
  <2> DEFINE n == LastRenamed(p)
             r == process[p].name
             d == process[p].staged
  <2>0. /\ process[p] \in Process /\ process[p].pc = "rollback" /\ n \in 1..5 /\ at \in Places
        /\ r \in 1..MaxRestores /\ saved[r] \in Places /\ d # 0
    BY <1>23, LastRenamedIsOne, DatabaseFilesAssumption DEF Rollback, Locked, TypeOK, Databases
  <2>1. /\ content' = content /\ backups' = backups /\ Undoes(p, n)
        /\ process' = [process EXCEPT ![p].renamed = @ \ {n}]
    BY <1>23 DEF Rollback, data
  <2>2. /\ process'[p].pc = "rollback" /\ process'[p].staged = d
        /\ \A q \in Processes : q # p => process'[q] = process[q]
    BY <2>0, <2>1 DEF TypeOK, Process
  <2>3. /\ at'.db = at.db \/ at'.db = 0 \/ at'.db = saved[r].db
        /\ \A s \in 1..MaxRestores : saved'[s].db = saved[s].db \/ saved'[s].db = 0
    <3>1. CASE n = 1
      <4>1. at' = [at EXCEPT !["db"] = saved[r]["db"]] /\ saved' = [saved EXCEPT ![r]["db"] = 0]
        BY <2>1, <3>1 DEF Undoes, Part, Recovery
      <4> QED
        BY <2>0, <4>1 DEF TypeOK, Places
    <3>2. CASE n = 2
      <4>1. at' = [at EXCEPT !["wal"] = saved[r]["wal"]] /\ saved' = [saved EXCEPT ![r]["wal"] = 0]
        BY <2>1, <3>2 DEF Undoes, Part, Recovery
      <4> QED
        BY <2>0, <4>1 DEF TypeOK, Places
    <3>3. CASE n = 3
      <4>1. at' = [at EXCEPT !["uploads"] = saved[r]["uploads"]] /\ saved' = [saved EXCEPT ![r]["uploads"] = 0]
        BY <2>1, <3>3 DEF Undoes, Part, Recovery
      <4> QED
        BY <2>0, <4>1 DEF TypeOK, Places
    <3>4. CASE n = 4
      <4>1. at' = [at EXCEPT !["db"] = 0] /\ saved' = saved
        BY <2>1, <3>4 DEF Undoes, Part
      <4> QED
        BY <2>0, <4>1 DEF TypeOK, Places
    <3>5. CASE n = 5
      <4>1. at' = [at EXCEPT !["uploads"] = 0] /\ saved' = saved
        BY <2>1, <3>5 DEF Undoes, Part
      <4> QED
        BY <2>0, <4>1 DEF TypeOK, Places
    <3> QED
      BY <2>0, <3>1, <3>2, <3>3, <3>4, <3>5
  <2>4. \A q \in Processes : q # p => process'[q].pc = "idle"
    BY <2>0, <2>2, RestoreIsAlone
  <2>5. content[d].state # "none" /\ \A s \in 1..MaxRestores : saved[s].db # d
    BY <2>0 DEF InUse
  <2> HIDE DEF n, r, d, Usable
  <2>7. /\ at'.db # 0 => content'[at'.db].state # "none"
        /\ \A s \in 1..MaxRestores : saved'[s].db # 0 => content'[saved'[s].db].state # "none"
        /\ \A s \in 1..MaxRestores : saved'[s].db # d
    BY <2>0, <2>1, <2>3, <2>5 DEF InUse
  <2>8. \A m \in 1..MaxBackups : backups'[m] # NoBackup => Usable(backups'[m].database)
    BY <2>1 DEF InUse
  <2> QED
    BY <2>1, <2>2, <2>4, <2>5, <2>7, <2>8 DEF InUse
<1>24. ASSUME NEW p \in Processes, RollbackFails(p) PROVE InUse'
  <2>1. at'.db = at.db /\ UNCHANGED <<saved, backups>>
    BY <1>24 DEF RollbackFails, paths, data, count, TypeOK, Places
  <2>2. \A d \in Databases : content[d].state # "none" => content'[d].state # "none"
    BY <1>24 DEF RollbackFails, paths, data, count, TypeOK
  <2>3. ASSUME NEW q \in Processes
        PROVE  /\ process'[q].pc = "archiving" =>
                    process[q].pc = "archiving" /\ process'[q].made.database = process[q].made.database
               /\ process'[q].pc \in {"moving", "rollback"} =>
                   /\ process[q].pc \in {"moving", "rollback"} /\ process'[q].staged = process[q].staged
                   /\ process'[q].pc = "moving" => process[q].pc = "moving" /\ process'[q].next = process[q].next
    <3>1. process[p] \in Process /\ process[q] \in Process /\ process[q].made \in Backup
      BY DEF TypeOK, Process
    <3> QED
      BY <1>24, <3>1 DEF RollbackFails, paths, data, count, TypeOK, Process
  <2> QED
    BY <2>1, <2>2, <2>3, SameUse
<1>25. ASSUME NEW p \in Processes, EndRestore(p) PROVE InUse'
  <2>1. /\ process[p].pc \in {"moving", "rollback"} /\ process'[p].pc = "closed"
        /\ UNCHANGED <<at, saved, backups>>
        /\ \A q \in Processes : q # p => process'[q] = process[q]
    BY <1>25, IdleHasNothing DEF EndRestore, RestoreEnds, paths, TypeOK
  <2>3. /\ at.db # 0 => content'[at.db].state # "none"
        /\ \A r \in 1..MaxRestores : saved[r].db # 0 => content'[saved[r].db].state # "none"
    <3>1. /\ at.db # 0 => at.db \in Databases
          /\ \A r \in 1..MaxRestores : saved[r].db # 0 => saved[r].db \in Databases
      BY PathsLeadToDatabases
    <3>2. \A e \in Databases : content'[e] = content[e] \/ (e = process[p].staged /\ e # at.db)
      BY <1>25 DEF EndRestore, DiscardCopies, TypeOK
    <3>3. \A r \in 1..MaxRestores : process[p].staged # 0 => saved[r].db # process[p].staged
      BY DEF InUse, Locked
    <3>4. 0 \notin Databases
      BY DEF Databases
    <3> QED
      BY <3>1, <3>2, <3>3, <3>4 DEF InUse
  <2>4. \A q \in Processes : q # p => process'[q].pc = "idle"
    BY <2>1, RestoreIsAlone
  <2> HIDE DEF Usable
  <2> QED
    BY <2>1, <2>3, <2>4 DEF InUse
<1>26. ASSUME UNCHANGED vars PROVE InUse'
  BY <1>26 DEF vars, InUse
<1> QED
  BY <1>1, <1>2, <1>3, <1>4, <1>5, <1>6, <1>7, <1>8, <1>9, <1>10, <1>11, <1>12, <1>13,
     <1>14, <1>15, <1>16, <1>17, <1>18, <1>19, <1>20, <1>21, <1>22, <1>23, <1>24, <1>25, <1>26
     DEF Next, Serve, Migrate, Create, Restore

\* Steps that leave the schemas of the databases in use alone.
LEMMA SameSchemas ==
    ASSUME TypeOK, Locked, SchemasSeen,
           \A d \in Databases : Sound(content'[d]),
           \A q \in Processes : process[q].open # 0 =>
            /\ content'[process[q].open].state = content[process[q].open].state
            /\ content'[process[q].open].applied = content[process[q].open].applied
            /\ content'[process[q].open].first = content[process[q].open].first,
           \A q \in Processes :
            \/ /\ process'[q].pc = process[q].pc /\ process'[q].open = process[q].open
               /\ process'[q].pending = process[q].pending /\ process'[q].done = process[q].done
            \/ process'[q].pc \in {"copying", "archiving", "moving", "rollback", "closing", "closed"}
            \/ process'[q].pc \in {"idle", "locked", "opened"} /\ process'[q].done = {}
    PROVE  SchemasSeen'
<1>1. ASSUME NEW q \in Processes
      PROVE  Seen(process'[q], content'[process'[q].open])
  <2>1. CASE process'[q].pc = process[q].pc /\ process'[q].open = process[q].open
             /\ process'[q].pending = process[q].pending /\ process'[q].done = process[q].done
    <3>1. Seen(process[q], content[process[q].open])
      BY DEF SchemasSeen
    <3>2. CASE process[q].open = 0
      <4>1. process[q].pc \notin Opened
        BY <3>2 DEF Locked
      <4> QED
        BY <2>1, <3>1, <4>1 DEF Seen, Opened
    <3>3. CASE process[q].open # 0
      BY <2>1, <3>1, <3>3 DEF Seen
    <3> QED
      BY <3>2, <3>3
  <2> QED
    BY <2>1 DEF Seen
<1>2. ASSUME NEW q \in Processes, process'[q].pc = "transaction"
      PROVE  process[q].pc = "transaction" /\ process'[q].open = process[q].open
  BY <1>2
<1> QED
  BY <1>1, <1>2 DEF SchemasSeen

\* A step that changes the schema of the database that it has open.
LEMMA OneSchema ==
    ASSUME TypeOK, Locked, SchemasSeen, NEW p \in Processes, NEW d \in Databases,
           process[p].open = d, process'[p].open = d,
           \A e \in Databases : e # d => content'[e] = content[e],
           Sound(content'[d]),
           Seen(process'[p], content'[d]),
           \A q \in Processes : q # p =>
            /\ process'[q] = process[q]
            /\ process[q].open = d => Seen(process[q], content'[d])
            /\ process[q].open = d /\ process[q].pc = "transaction" => process'[p].pc # "transaction"
    PROVE  SchemasSeen'
<1>1. ASSUME NEW q \in Processes
      PROVE  Seen(process'[q], content'[process'[q].open])
  <2>1. CASE q = p \/ process[q].open = d
    BY <2>1
  <2>2. CASE q # p /\ process[q].open # d /\ process[q].open # 0
    <3>1. process[q].open \in Databases
      BY <2>2, DatabaseFilesAssumption DEF TypeOK, Process, Databases
    <3> QED
      BY <2>2, <3>1 DEF SchemasSeen
  <2>3. CASE q # p /\ process[q].open = 0
    <3>1. Seen(process[q], content[process[q].open]) /\ process[q].pc \notin Opened
      BY <2>3 DEF SchemasSeen, Locked
    <3> QED
      BY <2>3, <3>1 DEF Seen, Opened
  <2> QED
    BY <2>1, <2>2, <2>3
<1>2. \A e \in Databases : Sound(content'[e])
  BY DEF SchemasSeen
<1>3. \A q, r \in Processes :
        process'[q].pc = "transaction" /\ process'[r].pc = "transaction" /\ q # r
            => process'[q].open # process'[r].open
  <2> SUFFICES ASSUME NEW q \in Processes, NEW r \in Processes, q # r, 
                      process'[q].pc = "transaction", process'[r].pc = "transaction",
                      process'[q].open = process'[r].open
               PROVE  FALSE
    OBVIOUS
  <2>1. q # p /\ r # p
    OBVIOUS
  <2> QED
    BY <2>1 DEF SchemasSeen
<1> QED
  BY <1>1, <1>2, <1>3 DEF SchemasSeen

\* Migrations leave databases sound, and what others have seen of them true.
LEMMA MigratedStep == TypeOK /\ Locked /\ InUse /\ SchemasSeen /\ [Next]_vars => SchemasSeen'
<1> SUFFICES ASSUME TypeOK, Locked, InUse, SchemasSeen, [Next]_vars PROVE SchemasSeen'
  OBVIOUS
<1>1. ASSUME NEW p \in Processes, OpenDatabase(p) PROVE SchemasSeen'
  <2> DEFINE e == IF at.db = 0 THEN NextDatabase ELSE at.db
  <2>1. /\ \A d \in Databases : Sound(content'[d])
        /\ \A q \in Processes : process[q].open # 0 => content' = content
    <3>1. at.db = 0 => e \in Databases /\ content[e].state = "none"
      BY <1>1, NextDatabaseIsFresh DEF OpenDatabase, Fresh
    <3>2. content' = IF at.db = 0 THEN [content EXCEPT ![e].state = "empty"] ELSE content
      BY <1>1 DEF OpenDatabase
    <3> HIDE DEF e
    <3>3. CASE at.db = 0
      <4>1. e \in Databases /\ content[e] = NoDatabase
        BY <3>1, <3>3 DEF SchemasSeen, Sound
      <4>2. content'[e] = [NoDatabase EXCEPT !.state = "empty"]
        BY <3>2, <3>3, <4>1 DEF TypeOK
      <4>3. Sound(content'[e])
        BY <4>2 DEF Sound, NoDatabase
      <4>4. \A d \in Databases : d # e => content'[d] = content[d]
        BY <3>2, <3>3 DEF TypeOK
      <4>5. \A q \in Processes : process[q].open = 0
        BY <3>3 DEF Locked
      <4> QED
        BY <4>3, <4>4, <4>5 DEF SchemasSeen
    <3>4. CASE at.db # 0
      BY <3>2, <3>4 DEF SchemasSeen
    <3> QED
      BY <3>3, <3>4
  <2>2. ASSUME NEW q \in Processes
        PROVE  \/ /\ process'[q].pc = process[q].pc /\ process'[q].open = process[q].open
                  /\ process'[q].pending = process[q].pending /\ process'[q].done = process[q].done
               \/ process'[q].pc \in {"copying", "archiving", "moving", "rollback", "closing", "closed"}
               \/ process'[q].pc \in {"idle", "locked", "opened"} /\ process'[q].done = {}
    <3>1. process[p] \in Process /\ process[q] \in Process
      BY DEF TypeOK
    <3>2. process[p].pc \in {"idle", "locked"} => process[p].done = {}
      BY DEF SchemasSeen, Seen
    <3> QED
      BY <1>1, <3>1, <3>2 DEF OpenDatabase, paths, data, count, TypeOK, Process
  <2> QED
    BY <2>1, <2>2, SameSchemas
<1>2. ASSUME NEW p \in Processes, CloseDatabase(p) PROVE SchemasSeen'
  <2>1. content' = content /\ \A d \in Databases : Sound(content[d])
    BY <1>2 DEF CloseDatabase, paths, data, count, SchemasSeen
  <2>2. ASSUME NEW q \in Processes
        PROVE  \/ /\ process'[q].pc = process[q].pc /\ process'[q].open = process[q].open
                  /\ process'[q].pending = process[q].pending /\ process'[q].done = process[q].done
               \/ process'[q].pc \in {"copying", "archiving", "moving", "rollback", "closing", "closed"}
               \/ process'[q].pc \in {"idle", "locked", "opened"} /\ process'[q].done = {}
    <3>1. process[p] \in Process /\ process[q] \in Process
      BY DEF TypeOK
    <3>2. process[p].pc \in {"idle", "locked"} => process[p].done = {}
      BY DEF SchemasSeen, Seen
    <3> QED
      BY <1>2, <3>1, <3>2, IdleHasDoneNothing DEF CloseDatabase, paths, data, count, TypeOK, Process
  <2> QED
    BY <2>1, <2>2, SameSchemas
<1>3. ASSUME NEW p \in Processes, Unlock(p) PROVE SchemasSeen'
  <2>1. content' = content /\ \A d \in Databases : Sound(content[d])
    BY <1>3 DEF Unlock, paths, data, count, SchemasSeen
  <2>2. ASSUME NEW q \in Processes
        PROVE  \/ /\ process'[q].pc = process[q].pc /\ process'[q].open = process[q].open
                  /\ process'[q].pending = process[q].pending /\ process'[q].done = process[q].done
               \/ process'[q].pc \in {"copying", "archiving", "moving", "rollback", "closing", "closed"}
               \/ process'[q].pc \in {"idle", "locked", "opened"} /\ process'[q].done = {}
    <3>1. process[p] \in Process /\ process[q] \in Process
      BY DEF TypeOK
    <3>2. process[p].pc \in {"idle", "locked"} => process[p].done = {}
      BY DEF SchemasSeen, Seen
    <3> QED
      BY <1>3, <3>1, <3>2, IdleHasDoneNothing DEF Unlock, paths, data, count, TypeOK, Process
  <2> QED
    BY <2>1, <2>2, SameSchemas
<1>4. ASSUME NEW p \in Processes, Crash(p) PROVE SchemasSeen'
  <2>1. /\ \A d \in Databases : Sound(content'[d])
        /\ \A q \in Processes : process[q].open # 0 => content' = content
    <3>1. CASE process[p].staged = 0 \/ at.db = process[p].staged
      BY <1>4, <3>1 DEF Crash, DiscardCopies, SchemasSeen
    <3>2. CASE process[p].staged # 0 /\ at.db # process[p].staged
      <4>1. content' = [content EXCEPT ![process[p].staged] = NoDatabase]
        BY <1>4, <3>2 DEF Crash, DiscardCopies
      <4>2. \A d \in Databases : content'[d] = content[d] \/ content'[d] = NoDatabase
        BY <4>1 DEF TypeOK
      <4>3. Sound(NoDatabase)
        BY DEF Sound, NoDatabase, Versions
      <4>4. \A q \in Processes : process[q].open = 0
        BY <3>2, RestoreIsAlone DEF Locked
      <4> QED
        BY <4>2, <4>3, <4>4 DEF SchemasSeen
    <3> QED
      BY <3>1, <3>2
  <2>2. ASSUME NEW q \in Processes
        PROVE  \/ /\ process'[q].pc = process[q].pc /\ process'[q].open = process[q].open
                  /\ process'[q].pending = process[q].pending /\ process'[q].done = process[q].done
               \/ process'[q].pc \in {"copying", "archiving", "moving", "rollback", "closing", "closed"}
               \/ process'[q].pc \in {"idle", "locked", "opened"} /\ process'[q].done = {}
    <3>1. process[p] \in Process /\ process[q] \in Process
      BY DEF TypeOK
    <3>2. process[p].pc \in {"idle", "locked"} => process[p].done = {}
      BY DEF SchemasSeen, Seen
    <3> QED
      BY <1>4, <3>1, <3>2, IdleHasDoneNothing DEF Crash, paths, data, count, TypeOK, Process
  <2> QED
    BY <2>1, <2>2, SameSchemas
<1>5. ASSUME NEW p \in Processes, NEW command \in {"serve", "migrate", "backup"}, Begin(p, command)
      PROVE  SchemasSeen'
  <2>1. content' = content /\ \A d \in Databases : Sound(content[d])
    BY <1>5 DEF Begin, Acquire, paths, data, count, SchemasSeen
  <2>2. ASSUME NEW q \in Processes
        PROVE  \/ /\ process'[q].pc = process[q].pc /\ process'[q].open = process[q].open
                  /\ process'[q].pending = process[q].pending /\ process'[q].done = process[q].done
               \/ process'[q].pc \in {"copying", "archiving", "moving", "rollback", "closing", "closed"}
               \/ process'[q].pc \in {"idle", "locked", "opened"} /\ process'[q].done = {}
    <3>1. process[p] \in Process /\ process[q] \in Process
      BY DEF TypeOK
    <3>2. process[p].pc \in {"idle", "locked"} => process[p].done = {}
      BY DEF SchemasSeen, Seen
    <3> QED
      BY <1>5, <3>1, <3>2 DEF Begin, Acquire, paths, data, count, TypeOK, Process
  <2> QED
    BY <2>1, <2>2, SameSchemas
<1>6. ASSUME NEW p \in Processes, StopServing(p) PROVE SchemasSeen'
  <2>1. content' = content /\ \A d \in Databases : Sound(content[d])
    BY <1>6 DEF StopServing, paths, data, count, Goes, SchemasSeen
  <2>2. ASSUME NEW q \in Processes
        PROVE  \/ /\ process'[q].pc = process[q].pc /\ process'[q].open = process[q].open
                  /\ process'[q].pending = process[q].pending /\ process'[q].done = process[q].done
               \/ process'[q].pc \in {"copying", "archiving", "moving", "rollback", "closing", "closed"}
               \/ process'[q].pc \in {"idle", "locked", "opened"} /\ process'[q].done = {}
    <3>1. process[p] \in Process /\ process[q] \in Process
      BY DEF TypeOK
    <3>2. process[p].pc \in {"idle", "locked"} => process[p].done = {}
      BY DEF SchemasSeen, Seen
    <3> QED
      BY <1>6, <3>1, <3>2 DEF StopServing, paths, data, count, Goes, TypeOK, Process
  <2> QED
    BY <2>1, <2>2, SameSchemas
<1>7. ASSUME NEW p \in Processes, NEW k \in Keys, WriteUpload(p, k) PROVE SchemasSeen'
  <2>1. content' = content /\ \A d \in Databases : Sound(content[d])
    BY <1>7 DEF WriteUpload, paths, data, count, SchemasSeen
  <2>2. ASSUME NEW q \in Processes
        PROVE  \/ /\ process'[q].pc = process[q].pc /\ process'[q].open = process[q].open
                  /\ process'[q].pending = process[q].pending /\ process'[q].done = process[q].done
               \/ process'[q].pc \in {"copying", "archiving", "moving", "rollback", "closing", "closed"}
               \/ process'[q].pc \in {"idle", "locked", "opened"} /\ process'[q].done = {}
    <3>1. process[p] \in Process /\ process[q] \in Process
      BY DEF TypeOK
    <3>2. process[p].pc \in {"idle", "locked"} => process[p].done = {}
      BY DEF SchemasSeen, Seen
    <3> QED
      BY <1>7, <3>1, <3>2 DEF WriteUpload, paths, data, count, TypeOK, Process
  <2> QED
    BY <2>1, <2>2, SameSchemas
<1>8. ASSUME NEW p \in Processes, NEW k \in Keys, AttachUpload(p, k) PROVE SchemasSeen'
  <2>0. process[p].open \in Databases
    BY <1>8, DatabaseFilesAssumption DEF AttachUpload, Locked, Opened, TypeOK, Process, Databases
  <2>1. /\ \A d \in Databases : Sound(content'[d])
        /\ \A q \in Processes : process[q].open # 0 =>
            /\ content'[process[q].open].state = content[process[q].open].state
            /\ content'[process[q].open].applied = content[process[q].open].applied
            /\ content'[process[q].open].first = content[process[q].open].first
    <3>1. content[process[p].open].state # "none"
      BY <2>0 DEF InUse, Locked, Databases
    <3>2. ASSUME NEW d \in Databases
          PROVE  /\ content'[d].state = content[d].state /\ content'[d].applied = content[d].applied
                 /\ content'[d].first = content[d].first /\ content'[d].ran = content[d].ran
                 /\ content[d].state = "none" => content'[d] = content[d]
      <4>1. content[d] \in Database
        BY DEF TypeOK
      <4> QED
        BY <1>8, <2>0, <3>1, <4>1 DEF AttachUpload, TypeOK, Database
    <3>3. \A q \in Processes : process[q].open # 0 => process[q].open \in Databases
      BY DatabaseFilesAssumption DEF TypeOK, Process, Databases
    <3> QED
      BY <3>2, <3>3 DEF SchemasSeen, Sound
  <2>2. ASSUME NEW q \in Processes
        PROVE  \/ /\ process'[q].pc = process[q].pc /\ process'[q].open = process[q].open
                  /\ process'[q].pending = process[q].pending /\ process'[q].done = process[q].done
               \/ process'[q].pc \in {"copying", "archiving", "moving", "rollback", "closing", "closed"}
               \/ process'[q].pc \in {"idle", "locked", "opened"} /\ process'[q].done = {}
    <3>1. process[p] \in Process /\ process[q] \in Process
      BY DEF TypeOK
    <3>2. process[p].pc \in {"idle", "locked"} => process[p].done = {}
      BY DEF SchemasSeen, Seen
    <3> QED
      BY <1>8, <3>1, <3>2 DEF AttachUpload, paths, data, count, TypeOK, Process
  <2> QED
    BY <2>1, <2>2, SameSchemas
<1>9. ASSUME NEW p \in Processes, NEW k \in Keys, DeleteAttachment(p, k) PROVE SchemasSeen'
  <2>0. process[p].open \in Databases
    BY <1>9, DatabaseFilesAssumption DEF DeleteAttachment, Locked, Opened, TypeOK, Process, Databases
  <2>1. /\ \A d \in Databases : Sound(content'[d])
        /\ \A q \in Processes : process[q].open # 0 =>
            /\ content'[process[q].open].state = content[process[q].open].state
            /\ content'[process[q].open].applied = content[process[q].open].applied
            /\ content'[process[q].open].first = content[process[q].open].first
    <3>1. content[process[p].open].state # "none"
      BY <2>0 DEF InUse, Locked, Databases
    <3>2. ASSUME NEW d \in Databases
          PROVE  /\ content'[d].state = content[d].state /\ content'[d].applied = content[d].applied
                 /\ content'[d].first = content[d].first /\ content'[d].ran = content[d].ran
                 /\ content[d].state = "none" => content'[d] = content[d]
      <4>1. content[d] \in Database
        BY DEF TypeOK
      <4> QED
        BY <1>9, <2>0, <3>1, <4>1 DEF DeleteAttachment, TypeOK, Database
    <3>3. \A q \in Processes : process[q].open # 0 => process[q].open \in Databases
      BY DatabaseFilesAssumption DEF TypeOK, Process, Databases
    <3> QED
      BY <3>2, <3>3 DEF SchemasSeen, Sound
  <2>2. ASSUME NEW q \in Processes
        PROVE  \/ /\ process'[q].pc = process[q].pc /\ process'[q].open = process[q].open
                  /\ process'[q].pending = process[q].pending /\ process'[q].done = process[q].done
               \/ process'[q].pc \in {"copying", "archiving", "moving", "rollback", "closing", "closed"}
               \/ process'[q].pc \in {"idle", "locked", "opened"} /\ process'[q].done = {}
    <3>1. process[p] \in Process /\ process[q] \in Process
      BY DEF TypeOK
    <3>2. process[p].pc \in {"idle", "locked"} => process[p].done = {}
      BY DEF SchemasSeen, Seen
    <3> QED
      BY <1>9, <3>1, <3>2 DEF DeleteAttachment, paths, data, count, TypeOK, Process
  <2> QED
    BY <2>1, <2>2, SameSchemas
<1>10. ASSUME NEW p \in Processes, NEW k \in Keys, RemoveUpload(p, k) PROVE SchemasSeen'
  <2>1. content' = content /\ \A d \in Databases : Sound(content[d])
    BY <1>10 DEF RemoveUpload, paths, data, count, SchemasSeen
  <2>2. ASSUME NEW q \in Processes
        PROVE  \/ /\ process'[q].pc = process[q].pc /\ process'[q].open = process[q].open
                  /\ process'[q].pending = process[q].pending /\ process'[q].done = process[q].done
               \/ process'[q].pc \in {"copying", "archiving", "moving", "rollback", "closing", "closed"}
               \/ process'[q].pc \in {"idle", "locked", "opened"} /\ process'[q].done = {}
    <3>1. process[p] \in Process /\ process[q] \in Process
      BY DEF TypeOK
    <3>2. process[p].pc \in {"idle", "locked"} => process[p].done = {}
      BY DEF SchemasSeen, Seen
    <3> QED
      BY <1>10, <3>1, <3>2 DEF RemoveUpload, paths, data, count, TypeOK, Process
  <2> QED
    BY <2>1, <2>2, SameSchemas
<1>11. ASSUME NEW p \in Processes, Inspect(p) PROVE SchemasSeen'
  <2> DEFINE d == process[p].open
  <2>0. /\ d \in Databases /\ content[d] \in Database /\ process[p] \in Process /\ content[d].state # "none"
        /\ Sound(content[d]) /\ Seen(process[p], content[d])
    <3>1. d \in Databases
      BY <1>11, DatabaseFilesAssumption DEF Inspect, Locked, Opened, TypeOK, Process, Databases
    <3> QED
      BY <3>1 DEF TypeOK, InUse, Locked, Databases, SchemasSeen
  <2> DEFINE s == process'[p]
  <2>1. /\ process[p].pc = "opened" /\ content' = content /\ s.open = d /\ s.done = process[p].done
        /\ \/ s.pc = "install" /\ content[d].state = "empty"
           \/ s.pc = "serving" /\ Accepts(d)
           \/ s.pc = "closing"
           \/ s.pc = "migrating" /\ content[d].state # "empty" /\ s.pending = Pending(d) /\ Pending(d) # {}
        /\ \A q \in Processes : q # p => process'[q] = process[q]
    BY <1>11, <2>0 DEF Inspect, data, TypeOK, Process
  <2> HIDE DEF d
  <2>2. content[d].applied \in SUBSET Nat /\ 0 \notin content[d].applied
    BY <2>0 DEF Database, Sound
  <2>3. s.pc = "serving" => content[d].applied = Versions
    <3>1. Accepts(d) => \A v \in Nat \ {0} : v \in content[d].applied <=> v \in Versions
      BY DatabaseFilesAssumption DEF Accepts, Newer, Pending, Versions
    <3>2. \A v \in content[d].applied \cup Versions : v \in Nat \ {0}
      BY <2>2, DatabaseFilesAssumption DEF Versions
    <3> QED
      BY <2>1, <3>1, <3>2
  <2>4. s.pc = "migrating" => content[d].state = "live" /\ s.pending = Versions \ content[d].first
    BY <2>0, <2>1 DEF Sound, Pending, Database
  <2>5. Seen(s, content[d])
    BY <2>0, <2>1, <2>3, <2>4 DEF Seen
  <2>6. \A q \in Processes : process[q].open = d => Seen(process[q], content[d])
    BY DEF SchemasSeen
  <2>7. process[p].open = d
    BY DEF d
  <2> QED
    BY <2>0, <2>1, <2>5, <2>6, <2>7, OneSchema
<1>12. ASSUME NEW p \in Processes, InstallCurrentSchema(p) PROVE SchemasSeen'
  <2> DEFINE d == process[p].open
  <2>0. /\ d \in Databases /\ content[d] \in Database /\ process[p] \in Process /\ content[d].state # "none"
        /\ Sound(content[d]) /\ Seen(process[p], content[d])
    <3>1. d \in Databases
      BY <1>12, DatabaseFilesAssumption DEF InstallCurrentSchema, Locked, Opened, TypeOK, Process, Databases
    <3> QED
      BY <3>1 DEF TypeOK, InUse, Locked, Databases, SchemasSeen
  <2> DEFINE c == content[d]
             e == content'[d]
  <2>1. /\ process[p].pc = "install"
        /\ content' = [content EXCEPT ![d].state = "live", ![d].applied = @ \cup Versions,
                                      ![d].first = @ \cup (Versions \ content[d].applied)]
        /\ \E pc \in {"serving", "closing"} : process' = [process EXCEPT ![p].pc = pc]
        /\ \A q \in Processes : q # p => ~(process[q].pc = "transaction" /\ process[q].open = d)
    BY <1>12 DEF InstallCurrentSchema, MayWrite, Goes
  <2>2. /\ process'[p].open = d /\ process'[p].pc \in {"serving", "closing"}
        /\ \A q \in Processes : q # p => process'[q] = process[q]
    BY <2>0, <2>1 DEF TypeOK, Process
  <2>3. /\ e.state = "live" /\ e.first = c.first \cup (Versions \ c.applied)
        /\ e.applied = c.applied \cup Versions /\ e.ran = c.ran
        /\ \A x \in Databases : x # d => content'[x] = content[x]
    BY <2>0, <2>1 DEF TypeOK, Database
  <2>4. /\ c.applied = c.first
        /\ (c.state = "empty" /\ c.applied = {}) \/ c.applied = Versions
    BY <2>0, <2>1 DEF Seen, Sound
  <2>5. process[p].open = d
    OBVIOUS
  <2> HIDE DEF d, c, e
  <2>6. e.applied = Versions /\ e.first = Versions
    BY <2>3, <2>4
  <2>7. Sound(e)
    <3>1. 0 \notin Versions
      BY DatabaseFilesAssumption DEF Versions
    <3>2. \A v \in Versions : c.ran[v] = 0
      BY <2>0, <2>4 DEF Sound, c
    <3> QED
      BY <2>3, <2>6, <3>1, <3>2 DEF Sound
  <2>8. ASSUME NEW q \in Processes, q # p, process[q].open = d
        PROVE  Seen(process[q], e)
    <3>1. Seen(process[q], c) /\ process[q].pc # "transaction"
      BY <2>1, <2>8 DEF SchemasSeen, c
    <3>2. process[q].pc # "migrating"
      BY <2>4, <3>1 DEF Seen
    <3> QED
      BY <2>3, <2>6, <3>1, <3>2 DEF Seen
  <2>9. Seen(process'[p], e)
    BY <2>2, <2>6 DEF Seen
  <2> QED
    BY <2>0, <2>2, <2>3, <2>5, <2>7, <2>8, <2>9, OneSchema DEF e
<1>13. ASSUME NEW p \in Processes, BeginTransaction(p) PROVE SchemasSeen'
  <2> DEFINE d == process[p].open
  <2>0. /\ d \in Databases /\ content[d] \in Database /\ process[p] \in Process /\ content[d].state # "none"
        /\ Sound(content[d]) /\ Seen(process[p], content[d])
    <3>1. d \in Databases
      BY <1>13, DatabaseFilesAssumption DEF BeginTransaction, Locked, Opened, TypeOK, Process, Databases
    <3> QED
      BY <3>1 DEF TypeOK, InUse, Locked, Databases, SchemasSeen
  <2>1. /\ process[p].pc = "migrating" /\ content' = content /\ process'[p] = [process[p] EXCEPT !.pc = "transaction"]
        /\ \A q \in Processes : q # p => process'[q] = process[q]
        /\ \A q \in Processes : q # p => ~(process[q].pc = "transaction" /\ process[q].open = d)
    BY <1>13 DEF BeginTransaction, Goes, MayWrite, data, TypeOK
  <2>2. /\ process'[p].open = d /\ process'[p].pc = "transaction"
        /\ process'[p].pending = process[p].pending /\ process'[p].done = process[p].done
    BY <2>0, <2>1 DEF Process
  <2> HIDE DEF d
  <2>3. Seen(process'[p], content[d])
    BY <2>0, <2>1, <2>2 DEF Seen
  <2>4. \A q \in Processes : process[q].open = d => Seen(process[q], content[d])
    BY DEF SchemasSeen
  <2>5. process[p].open = d
    BY DEF d
  <2>6. \A q \in Processes : q # p /\ process[q].open = d => process[q].pc # "transaction"
    BY <2>1
  <2>7. Sound(content'[d]) /\ Seen(process'[p], content'[d])
    BY <2>0, <2>1, <2>3
  <2>8. d \in Databases /\ \A e \in Databases : content'[e] = content[e]
    BY <2>0, <2>1
  <2>9. \A q \in Processes : q # p =>
            /\ process'[q] = process[q]
            /\ process[q].open = d => Seen(process[q], content'[d])
            /\ process[q].open = d /\ process[q].pc = "transaction" => process'[p].pc # "transaction"
    BY <2>1, <2>4, <2>6
  <2> QED
    BY <2>2, <2>5, <2>7, <2>8, <2>9, OneSchema
<1>14. ASSUME NEW p \in Processes, Up(p) PROVE SchemasSeen'
  <2> DEFINE d == process[p].open
  <2>0. /\ d \in Databases /\ content[d] \in Database /\ process[p] \in Process /\ content[d].state # "none"
        /\ Sound(content[d]) /\ Seen(process[p], content[d])
    <3>1. d \in Databases
      BY <1>14, DatabaseFilesAssumption DEF Up, Locked, Opened, TypeOK, Process, Databases
    <3> QED
      BY <3>1 DEF TypeOK, InUse, Locked, Databases, SchemasSeen
  <2> DEFINE left == process[p].pending \ process[p].done
             v == CHOOSE w \in left : \A x \in left : w <= x
  <2>1. v \in left /\ left \subseteq Versions
    <3>1. left \in SUBSET Nat /\ left # {}
      BY <1>14, <2>0, DatabaseFilesAssumption DEF Up, Process, Versions
    <3>2. \E w \in left : \A x \in left : w <= x
      BY <3>1, LeastOfNaturals
    <3> QED
      BY <2>0, <3>2 DEF Process
  <2>2. /\ process[p].pc = "transaction" /\ content' = content
        /\ \/ process' = [process EXCEPT ![p].pc = "closing", ![p].done = {}]
           \/ ~Fails(d, v) /\ process' = [process EXCEPT ![p].done = @ \cup {v}]
    BY <1>14 DEF Up, data
  <2> HIDE DEF v, d
  <2>3. Seen(process[p], content[d]) /\ \A q \in Processes : process[q].open = d => Seen(process[q], content[d])
    BY <2>0 DEF SchemasSeen
  <2>4. process[p].open = d
    BY DEF d
  <2>5. /\ process'[p].open = d
        /\ \A q \in Processes : q # p => process'[q] = process[q]
        /\ \/ process'[p].pc = "closing"
           \/ /\ ~Fails(d, v) /\ process'[p].pc = "transaction" /\ process'[p].pending = process[p].pending
              /\ process'[p].done = process[p].done \cup {v}
    BY <2>0, <2>2, <2>4 DEF TypeOK, Process
  <2>6. Seen(process'[p], content[d])
    <3>1. CASE process'[p].pc = "closing"
      BY <3>1 DEF Seen
    <3>2. CASE process'[p].pc # "closing"
      <4>1. v \notin content[d].applied /\ v \in Versions
        BY <2>1, <2>5, <3>2 DEF Fails
      <4>2. content[d].applied = content[d].first
        BY <2>0, <4>1 DEF Sound
      <4> QED
        BY <2>1, <2>2, <2>3, <2>5, <3>2, <4>2 DEF Seen
    <3> QED
      BY <3>1, <3>2
  <2>7. \A q \in Processes : q # p /\ process[q].open = d => process[q].pc # "transaction"
    BY <2>2, <2>4 DEF SchemasSeen
  <2> QED
    BY <2>0, <2>2, <2>3, <2>4, <2>5, <2>6, <2>7, OneSchema
<1>15. ASSUME NEW p \in Processes, CommitMigrations(p) PROVE SchemasSeen'
  <2> DEFINE d == process[p].open
  <2>0. /\ d \in Databases /\ content[d] \in Database /\ process[p] \in Process /\ content[d].state # "none"
        /\ Sound(content[d]) /\ Seen(process[p], content[d])
    <3>1. d \in Databases
      BY <1>15, DatabaseFilesAssumption DEF CommitMigrations, Locked, Opened, TypeOK, Process, Databases
    <3> QED
      BY <3>1 DEF TypeOK, InUse, Locked, Databases, SchemasSeen
  <2> DEFINE done == process[p].done
             c == content[d]
             e == content'[d]
  <2>1. /\ process[p].pc = "transaction" /\ done = process[p].pending
        /\ content' = [content EXCEPT ![d].applied = @ \cup done,
                                      ![d].ran = [v \in Versions |-> IF v \in done THEN @[v] + 1 ELSE @[v]]]
        /\ process' = [process EXCEPT ![p].pc = "closing"]
    BY <1>15 DEF CommitMigrations, MayCommit, Goes
  <2>2. /\ process'[p].open = d /\ process'[p].pc = "closing"
        /\ \A q \in Processes : q # p => process'[q] = process[q]
    BY <2>0, <2>1 DEF TypeOK, Process
  <2>3. /\ e.state = c.state /\ e.first = c.first /\ e.applied = c.applied \cup done
        /\ \A v \in Versions : e.ran[v] = IF v \in done THEN c.ran[v] + 1 ELSE c.ran[v]
        /\ \A x \in Databases : x # d => content'[x] = content[x]
    BY <2>0, <2>1 DEF TypeOK, Database
  <2>4. /\ c.state = "live" /\ done = Versions \ c.first /\ done # {} /\ c.applied = c.first
    BY <2>0, <2>1 DEF Seen
  <2>5. process[p].open = d
    OBVIOUS
  <2> HIDE DEF d, done, c, e
  <2>6. Sound(e)
    <3>1. 0 \notin Versions
      BY DatabaseFilesAssumption DEF Versions
    <3>2. \A v \in Versions : e.ran[v] = IF v \in e.applied \ e.first THEN 1 ELSE 0
      <4>1. \A v \in Versions : c.ran[v] = 0
        BY <2>0, <2>4 DEF Sound, c
      <4> QED
        BY <2>3, <2>4, <4>1
    <3>3. 0 \notin e.applied /\ Versions \subseteq e.applied
      BY <2>0, <2>3, <2>4, <3>1 DEF Sound, c
    <3> QED
      BY <2>3, <2>4, <3>2, <3>3 DEF Sound
  <2>7. ASSUME NEW q \in Processes, q # p, process[q].open = d
        PROVE  Seen(process[q], e) /\ process[q].pc # "transaction"
    <3>1. Seen(process[q], c)
      BY <2>7 DEF SchemasSeen, c
    <3>2. process[q].pc # "transaction"
      BY <2>1, <2>5, <2>7 DEF SchemasSeen
    <3> QED
      BY <2>3, <2>4, <3>1, <3>2 DEF Seen
  <2>8. Seen(process'[p], e)
    BY <2>2 DEF Seen
  <2> QED
    BY <2>0, <2>2, <2>3, <2>5, <2>6, <2>7, <2>8, OneSchema DEF e
<1>16. ASSUME NEW p \in Processes, CopyDatabase(p) PROVE SchemasSeen'
  <2>1. content' = content /\ \A d \in Databases : Sound(content[d])
    BY <1>16 DEF CopyDatabase, paths, data, count, SchemasSeen
  <2>2. ASSUME NEW q \in Processes
        PROVE  \/ /\ process'[q].pc = process[q].pc /\ process'[q].open = process[q].open
                  /\ process'[q].pending = process[q].pending /\ process'[q].done = process[q].done
               \/ process'[q].pc \in {"copying", "archiving", "moving", "rollback", "closing", "closed"}
               \/ process'[q].pc \in {"idle", "locked", "opened"} /\ process'[q].done = {}
    <3>1. process[p] \in Process /\ process[q] \in Process
      BY DEF TypeOK
    <3>2. process[p].pc \in {"idle", "locked"} => process[p].done = {}
      BY DEF SchemasSeen, Seen
    <3> QED
      BY <1>16, <3>1, <3>2 DEF CopyDatabase, paths, data, count, TypeOK, Process
  <2> QED
    BY <2>1, <2>2, SameSchemas
<1>17. ASSUME NEW p \in Processes, NEW k \in Keys, ArchiveUpload(p, k) PROVE SchemasSeen'
  <2>1. content' = content /\ \A d \in Databases : Sound(content[d])
    BY <1>17 DEF ArchiveUpload, paths, data, count, SchemasSeen
  <2>2. ASSUME NEW q \in Processes
        PROVE  \/ /\ process'[q].pc = process[q].pc /\ process'[q].open = process[q].open
                  /\ process'[q].pending = process[q].pending /\ process'[q].done = process[q].done
               \/ process'[q].pc \in {"copying", "archiving", "moving", "rollback", "closing", "closed"}
               \/ process'[q].pc \in {"idle", "locked", "opened"} /\ process'[q].done = {}
    <3>1. process[p] \in Process /\ process[q] \in Process
      BY DEF TypeOK
    <3>2. process[p].pc \in {"idle", "locked"} => process[p].done = {}
      BY DEF SchemasSeen, Seen
    <3> QED
      BY <1>17, <3>1, <3>2 DEF ArchiveUpload, paths, data, count, TypeOK, Process
  <2> QED
    BY <2>1, <2>2, SameSchemas
<1>18. ASSUME NEW p \in Processes, Publish(p) PROVE SchemasSeen'
  <2>1. content' = content /\ \A d \in Databases : Sound(content[d])
    BY <1>18 DEF Publish, paths, data, count, SchemasSeen
  <2>2. ASSUME NEW q \in Processes
        PROVE  \/ /\ process'[q].pc = process[q].pc /\ process'[q].open = process[q].open
                  /\ process'[q].pending = process[q].pending /\ process'[q].done = process[q].done
               \/ process'[q].pc \in {"copying", "archiving", "moving", "rollback", "closing", "closed"}
               \/ process'[q].pc \in {"idle", "locked", "opened"} /\ process'[q].done = {}
    <3>1. process[p] \in Process /\ process[q] \in Process
      BY DEF TypeOK
    <3>2. process[p].pc \in {"idle", "locked"} => process[p].done = {}
      BY DEF SchemasSeen, Seen
    <3> QED
      BY <1>18, <3>1, <3>2, IdleHasDoneNothing DEF Publish, paths, data, count, TypeOK, Process
  <2> QED
    BY <2>1, <2>2, SameSchemas
<1>19. ASSUME NEW p \in Processes, AbandonBackup(p) PROVE SchemasSeen'
  <2>1. content' = content /\ \A d \in Databases : Sound(content[d])
    BY <1>19 DEF AbandonBackup, paths, data, count, SchemasSeen
  <2>2. ASSUME NEW q \in Processes
        PROVE  \/ /\ process'[q].pc = process[q].pc /\ process'[q].open = process[q].open
                  /\ process'[q].pending = process[q].pending /\ process'[q].done = process[q].done
               \/ process'[q].pc \in {"copying", "archiving", "moving", "rollback", "closing", "closed"}
               \/ process'[q].pc \in {"idle", "locked", "opened"} /\ process'[q].done = {}
    <3>1. process[p] \in Process /\ process[q] \in Process
      BY DEF TypeOK
    <3>2. process[p].pc \in {"idle", "locked"} => process[p].done = {}
      BY DEF SchemasSeen, Seen
    <3> QED
      BY <1>19, <3>1, <3>2, IdleHasDoneNothing DEF AbandonBackup, paths, data, count, TypeOK, Process
  <2> QED
    BY <2>1, <2>2, SameSchemas
<1>20. ASSUME NEW p \in Processes, NEW n \in 1..MaxBackups, BeginRestore(p, n) PROVE SchemasSeen'
  <2> DEFINE e == NextDatabase
             copy == [backups[n].database EXCEPT !.first = backups[n].database.applied, !.ran = NoDatabase.ran,
                                                 !.missing = backups[n].database.rows \ backups[n].files]
  <2>1. /\ \A d \in Databases : Sound(content'[d])
        /\ \A q \in Processes : process[q].open = 0 \/ content' = content
    <3>1. content' = [content EXCEPT ![e] = copy] /\ backups[n] # NoBackup
      BY <1>20 DEF BeginRestore
    <3>2. Usable(backups[n].database) /\ backups[n].database \in Database
      BY <3>1 DEF InUse, TypeOK, Backup
    <3>3. /\ copy.state = backups[n].database.state /\ copy.applied = backups[n].database.applied
          /\ copy.first = copy.applied /\ copy.ran = [v \in Versions |-> 0]
      BY <3>2 DEF Database, NoDatabase
    <3> HIDE DEF copy
    <3>4. Sound(copy)
      BY <3>2, <3>3 DEF Sound, Usable
    <3>5. \A d \in Databases : content'[d] = content[d] \/ content'[d] = copy
      BY <3>1 DEF TypeOK
    <3>6. \A q \in Processes : process[q].pc = "idle"
      BY <1>20 DEF BeginRestore, Acquire, MayLock, Locked
    <3>7. \A q \in Processes : process[q].open = 0
      BY <3>6 DEF Locked, Opened
    <3> QED
      BY <3>4, <3>5, <3>7 DEF SchemasSeen
  <2>2. ASSUME NEW q \in Processes
        PROVE  \/ /\ process'[q].pc = process[q].pc /\ process'[q].open = process[q].open
                  /\ process'[q].pending = process[q].pending /\ process'[q].done = process[q].done
               \/ process'[q].pc \in {"copying", "archiving", "moving", "rollback", "closing", "closed"}
               \/ process'[q].pc \in {"idle", "locked", "opened"} /\ process'[q].done = {}
    <3>1. process[p] \in Process /\ process[q] \in Process
      BY DEF TypeOK
    <3>2. process[p].pc \in {"idle", "locked"} => process[p].done = {}
      BY DEF SchemasSeen, Seen
    <3> QED
      BY <1>20, <3>1, <3>2 DEF BeginRestore, Acquire, paths, data, count, Idle, TypeOK, Process
  <2> QED
    BY <2>1, <2>2, SameSchemas
<1>21. ASSUME NEW p \in Processes, Move(p) PROVE SchemasSeen'
  <2>1. content' = content /\ \A d \in Databases : Sound(content[d])
    BY <1>21 DEF Move, paths, data, count, SchemasSeen
  <2>2. ASSUME NEW q \in Processes
        PROVE  \/ /\ process'[q].pc = process[q].pc /\ process'[q].open = process[q].open
                  /\ process'[q].pending = process[q].pending /\ process'[q].done = process[q].done
               \/ process'[q].pc \in {"copying", "archiving", "moving", "rollback", "closing", "closed"}
               \/ process'[q].pc \in {"idle", "locked", "opened"} /\ process'[q].done = {}
    <3>1. process[p] \in Process /\ process[q] \in Process
      BY DEF TypeOK
    <3>2. process[p].pc \in {"idle", "locked"} => process[p].done = {}
      BY DEF SchemasSeen, Seen
    <3>3. \/ process' = [process EXCEPT ![p].next = process[p].next + 1]
          \/ process' = [process EXCEPT ![p].next = process[p].next + 1, ![p].renamed = @ \cup {process[p].next}]
      BY <1>21 DEF Move
    <3>4. \A r \in Processes : r # p => process'[r] = process[r]
      BY <3>3 DEF TypeOK
    <3>5. /\ process'[p].pc = process[p].pc /\ process'[p].open = process[p].open
          /\ process'[p].pending = process[p].pending /\ process'[p].done = process[p].done
      BY <3>1, <3>3 DEF TypeOK, Process
    <3> QED
      BY <3>4, <3>5
  <2> QED
    BY <2>1, <2>2, SameSchemas
<1>22. ASSUME NEW p \in Processes, MoveFails(p) PROVE SchemasSeen'
  <2>1. content' = content /\ \A d \in Databases : Sound(content[d])
    BY <1>22 DEF MoveFails, paths, data, count, Goes, SchemasSeen
  <2>2. ASSUME NEW q \in Processes
        PROVE  \/ /\ process'[q].pc = process[q].pc /\ process'[q].open = process[q].open
                  /\ process'[q].pending = process[q].pending /\ process'[q].done = process[q].done
               \/ process'[q].pc \in {"copying", "archiving", "moving", "rollback", "closing", "closed"}
               \/ process'[q].pc \in {"idle", "locked", "opened"} /\ process'[q].done = {}
    <3>1. process[p] \in Process /\ process[q] \in Process
      BY DEF TypeOK
    <3>2. process[p].pc \in {"idle", "locked"} => process[p].done = {}
      BY DEF SchemasSeen, Seen
    <3> QED
      BY <1>22, <3>1, <3>2 DEF MoveFails, paths, data, count, Goes, TypeOK, Process
  <2> QED
    BY <2>1, <2>2, SameSchemas
<1>23. ASSUME NEW p \in Processes, Rollback(p) PROVE SchemasSeen'
  <2>1. content' = content /\ \A d \in Databases : Sound(content[d])
    BY <1>23 DEF Rollback, paths, data, count, SchemasSeen
  <2>2. ASSUME NEW q \in Processes
        PROVE  \/ /\ process'[q].pc = process[q].pc /\ process'[q].open = process[q].open
                  /\ process'[q].pending = process[q].pending /\ process'[q].done = process[q].done
               \/ process'[q].pc \in {"copying", "archiving", "moving", "rollback", "closing", "closed"}
               \/ process'[q].pc \in {"idle", "locked", "opened"} /\ process'[q].done = {}
    <3>1. process[p] \in Process /\ process[q] \in Process
      BY DEF TypeOK
    <3>2. process[p].pc \in {"idle", "locked"} => process[p].done = {}
      BY DEF SchemasSeen, Seen
    <3> QED
      BY <1>23, <3>1, <3>2 DEF Rollback, paths, data, count, TypeOK, Process
  <2> QED
    BY <2>1, <2>2, SameSchemas
<1>24. ASSUME NEW p \in Processes, RollbackFails(p) PROVE SchemasSeen'
  <2>1. content' = content /\ \A d \in Databases : Sound(content[d])
    BY <1>24 DEF RollbackFails, paths, data, count, SchemasSeen
  <2>2. ASSUME NEW q \in Processes
        PROVE  \/ /\ process'[q].pc = process[q].pc /\ process'[q].open = process[q].open
                  /\ process'[q].pending = process[q].pending /\ process'[q].done = process[q].done
               \/ process'[q].pc \in {"copying", "archiving", "moving", "rollback", "closing", "closed"}
               \/ process'[q].pc \in {"idle", "locked", "opened"} /\ process'[q].done = {}
    <3>1. process[p] \in Process /\ process[q] \in Process
      BY DEF TypeOK
    <3>2. process[p].pc \in {"idle", "locked"} => process[p].done = {}
      BY DEF SchemasSeen, Seen
    <3> QED
      BY <1>24, <3>1, <3>2 DEF RollbackFails, paths, data, count, TypeOK, Process
  <2> QED
    BY <2>1, <2>2, SameSchemas
<1>25. ASSUME NEW p \in Processes, EndRestore(p) PROVE SchemasSeen'
  <2>1. /\ \A d \in Databases : Sound(content'[d])
        /\ \A q \in Processes : process[q].open # 0 => content' = content
    <3>1. CASE process[p].staged = 0 \/ at.db = process[p].staged
      BY <1>25, <3>1 DEF EndRestore, DiscardCopies, SchemasSeen
    <3>2. CASE process[p].staged # 0 /\ at.db # process[p].staged
      <4>1. content' = [content EXCEPT ![process[p].staged] = NoDatabase]
        BY <1>25, <3>2 DEF EndRestore, DiscardCopies
      <4>2. \A d \in Databases : content'[d] = content[d] \/ content'[d] = NoDatabase
        BY <4>1 DEF TypeOK
      <4>3. Sound(NoDatabase)
        BY DEF Sound, NoDatabase, Versions
      <4>4. \A q \in Processes : process[q].open = 0
        BY <3>2, RestoreIsAlone DEF Locked
      <4> QED
        BY <4>2, <4>3, <4>4 DEF SchemasSeen
    <3> QED
      BY <3>1, <3>2
  <2>2. ASSUME NEW q \in Processes
        PROVE  \/ /\ process'[q].pc = process[q].pc /\ process'[q].open = process[q].open
                  /\ process'[q].pending = process[q].pending /\ process'[q].done = process[q].done
               \/ process'[q].pc \in {"copying", "archiving", "moving", "rollback", "closing", "closed"}
               \/ process'[q].pc \in {"idle", "locked", "opened"} /\ process'[q].done = {}
    <3>1. process[p] \in Process /\ process[q] \in Process
      BY DEF TypeOK
    <3>2. process[p].pc \in {"idle", "locked"} => process[p].done = {}
      BY DEF SchemasSeen, Seen
    <3> QED
      BY <1>25, <3>1, <3>2, IdleHasDoneNothing DEF EndRestore, paths, data, count, TypeOK, Process
  <2> QED
    BY <2>1, <2>2, SameSchemas
<1>26. ASSUME UNCHANGED vars PROVE SchemasSeen'
  <2>1. content' = content /\ process' = process
    BY <1>26 DEF vars
  <2> QED
    BY <2>1 DEF SchemasSeen, Seen
<1> QED
  BY <1>1, <1>2, <1>3, <1>4, <1>5, <1>6, <1>7, <1>8, <1>9, <1>10, <1>11, <1>12, <1>13,
     <1>14, <1>15, <1>16, <1>17, <1>18, <1>19, <1>20, <1>21, <1>22, <1>23, <1>24, <1>25, <1>26
     DEF Next, Serve, Migrate, Create, Restore

-----------------------------------------------------------------------------
(* The invariants together.                                                *)

\* The inductive invariant.
Inv == TypeOK /\ Locked /\ Archived /\ Undoable /\ InUse /\ SchemasSeen

\* An installation begins with the invariant, ...
LEMMA InitInv == Init => Inv
<1> SUFFICES ASSUME Init PROVE Inv
  OBVIOUS
<1>1. /\ \A p \in Processes : process[p] = Idle /\ lock[p] = "none"
      /\ \A r \in 1..MaxRestores : saved[r] = NoPlaces
      /\ \A n \in 1..MaxBackups : backups[n] = NoBackup
  BY DEF Init
<1>2. /\ at \in Places /\ content \in [Databases -> Database]
      /\ at.db # 0 => content[at.db].state # "none"
      /\ \A d \in Databases : Sound(content[d])
  <2>1. 1 \in Databases /\ 0 \notin Versions
    BY DatabaseFilesAssumption DEF Databases, Versions
  <2>2. Sound(NoDatabase)
    BY DEF Sound, NoDatabase
  <2>3. CASE at = NoPlaces /\ content = [d \in Databases |-> NoDatabase]
    BY <2>2, <2>3, IdleIsProcess DEF NoPlaces
  <2>4. CASE \E seen \in Histories, refuses \in SUBSET Versions :
                /\ at = [NoPlaces EXCEPT !.db = 1]
                /\ content = [d \in Databases |->
                                IF d = 1 THEN [NoDatabase EXCEPT !.state = "live", !.applied = seen,
                                                                 !.first = seen, !.refuses = refuses]
                                ELSE NoDatabase]
    <3> PICK seen \in Histories, refuses \in SUBSET Versions :
                /\ at = [NoPlaces EXCEPT !.db = 1]
                /\ content = [d \in Databases |->
                                IF d = 1 THEN [NoDatabase EXCEPT !.state = "live", !.applied = seen,
                                                                 !.first = seen, !.refuses = refuses]
                                ELSE NoDatabase]
      BY <2>4
    <3> DEFINE first == [NoDatabase EXCEPT !.state = "live", !.applied = seen,
                                           !.first = seen, !.refuses = refuses]
    <3>1. seen \in SUBSET Nat /\ 0 \notin seen /\ refuses \in SUBSET Nat
      BY DatabaseFilesAssumption DEF Versions
    <3>2. first \in Database /\ first.state = "live" /\ Sound(first)
      <4>1. /\ first.state = "live" /\ first.applied = seen /\ first.first = seen
            /\ first.ran = [v \in Versions |-> 0]
        BY DEF NoDatabase
      <4>2. first \in Database
        BY <3>1, IdleIsProcess DEF Database
      <4> HIDE DEF first
      <4> QED
        BY <3>1, <4>1, <4>2 DEF Sound
    <3>3. at \in Places /\ at.db = 1
      BY <2>1, IdleIsProcess DEF Places, NoPlaces, Databases
    <3>4. content[1] = first /\ \A d \in Databases : d # 1 => content[d] = NoDatabase
      BY <2>1
    <3>5. content \in [Databases -> Database]
      BY <3>2, IdleIsProcess
    <3> HIDE DEF first
    <3> QED
      BY <2>2, <3>2, <3>3, <3>4, <3>5
  <2> QED
    BY <2>3, <2>4 DEF Init
<1>3. TypeOK
  <2>1. /\ saved \in [1..MaxRestores -> Places] /\ backups \in [1..MaxBackups -> Backup]
        /\ process \in [Processes -> Process] /\ dir \in [Databases -> SUBSET Keys]
    BY IdleIsProcess DEF Init
  <2>2. /\ lock \in [Processes -> {"none", "shared", "exclusive"}] /\ logged \subseteq Databases
        /\ interrupted \in BOOLEAN
    BY DEF Init
  <2>3. commands \in Nat /\ faults \in Nat /\ restores \in 0..MaxRestores
    <3>1. commands = 0 /\ faults = 0 /\ restores = 0
      BY DEF Init
    <3> QED
      BY <3>1, DatabaseFilesAssumption
  <2> QED
    BY <1>1, <1>2, <2>1, <2>2, <2>3 DEF TypeOK
<1>4. Locked
  BY <1>1, IdleHasNothing DEF Locked, Opened
<1>5. Archived
  BY <1>1, IdleHasNothing DEF Archived, BackupsAreComplete, NoBackup
<1>6. Undoable
  BY <1>1, IdleHasNothing DEF Undoable
<1>7. InUse
  BY <1>1, <1>2, IdleHasNothing DEF InUse, NoPlaces
<1>8. SchemasSeen
  BY <1>1, <1>2, IdleHasDoneNothing DEF SchemasSeen, Seen
<1> QED
  BY <1>3, <1>4, <1>5, <1>6, <1>7, <1>8 DEF Inv

\* ... every step keeps it, ...
LEMMA NextInv == Inv /\ [Next]_vars => Inv'
  BY TypeStep, LockedStep, ArchivedStep, UndoableStep, InUseStep, MigratedStep DEF Inv

\* ... so it always holds.
LEMMA Invariance == Spec => []Inv
  BY InitInv, NextInv, PTL DEF Spec

-----------------------------------------------------------------------------
\* The state is of its type, and an exclusive lock is alone.
THEOREM TypeCorrect == Spec => []TypeOK
<1>1. Inv => TypeOK
  BY DEF Inv
<1> QED
  BY <1>1, Invariance, PTL

\* The lock is held from before a database is opened until after it is closed,
\* so a restore, which takes it alone, finds none open and lets none be opened.
THEOREM OpenFilesAreKept == Spec => []OpenFilesStay
<1>1. Inv => OpenFilesStay
  <2> SUFFICES ASSUME Inv PROVE OpenFilesStay
    OBVIOUS
  <2>1. Replacing => \A p \in Processes : process[p].open = 0
    BY RestoreIsAlone DEF Inv, Replacing
  <2> QED
    BY <2>1 DEF Inv, Locked, OpenFilesStay
<1> QED
  BY <1>1, Invariance, PTL

\* However many processes look at a database first and write it later: what a
\* transaction does not find as it was, it fails on, so each migration is
\* carried out once, all or none, and nobody serves a database before.
THEOREM MigrationsRunWhole == Spec => []MigrationsAreWhole
<1>1. Inv => MigrationsAreWhole
  <2> SUFFICES ASSUME Inv PROVE MigrationsAreWhole
    OBVIOUS
  <2>1. ServesCurrentSchema
    BY DEF Inv, SchemasSeen, Seen, ServesCurrentSchema
  <2>2. OnceEach /\ AsAWhole
    BY DEF Inv, SchemasSeen, Sound, OnceEach, AsAWhole
  <2> QED
    BY <2>1, <2>2 DEF MigrationsAreWhole
<1> QED
  BY <1>1, Invariance, PTL

\* The database is copied first and the uploads are walked after it: a file that
\* a row of the copy refers to is walked to, unless it is removed before.
THEOREM BackupsHoldTheirFiles == Spec => []BackupsAreComplete
<1>1. Inv => BackupsAreComplete
  BY DEF Inv, Archived
<1> QED
  BY <1>1, Invariance, PTL

\* The renames are undone from the last to the first, each from where it was
\* written down, so that a rollback that succeeds restores every path.
THEOREM FailedRestoresChangeNothing == Spec => FailedRestoreChangesNothing
<1>1. Inv /\ [Next]_vars =>
        [\A p \in Processes :
            process[p].pc = "rollback" /\ process'[p].pc = "closed" /\ ~process[p].stuck
                => at = process[p].before]_vars
  BY FailedRestoreStep DEF Inv
<1> QED
  BY <1>1, Invariance, PTL DEF Spec, FailedRestoreChangesNothing

-----------------------------------------------------------------------------
(* What the migrations make of tickets, for every ticket and history.      *)

\* The roles, the accounts and the statuses of a ticket survive the migrations.
LEMMA NothingIsDistorted == Distorted = {}
<1>1. ASSUME NEW ticket \in OldTicket, ~Refused(ticket) PROVE IsKept(ticket)
  <2> DEFINE a == OfAccount(RenamedRole, ticket.assignee)
             r == OfAccount(RenamedRole, ticket.requester)
             kept == IF /\ a # Null /\ a.role \in {"admin", "staff"} /\ ~a.disabled
                        /\ a.member \in {"manager", "staff"} THEN a ELSE Null
             closes == Simplified(ticket.status)
  <2>1. ticket.requester # Null /\ r = RenamedRole(ticket.requester)
    BY <1>1 DEF Refused, RefusesParticipants, OfAccount
  <2>2a. WithRenamedRoles(ticket) = [ticket EXCEPT !.assignee = a, !.requester = r]
    BY DEF WithRenamedRoles
  <2> HIDE DEF a, r
  <2>2. WithRenamedRoles(ticket) =
            [status |-> ticket.status, closedAt |-> ticket.closedAt, assignee |-> a, requester |-> r]
    BY <2>2a DEF OldTicket
  <2>3. WithAccounts(WithRenamedRoles(ticket)) =
            [status |-> ticket.status, closedAt |-> ticket.closedAt, assignee |-> kept, requester |-> r]
    BY <2>2 DEF WithAccounts
  <2> HIDE DEF kept
  <2>4. WithCreator(WithAccounts(WithRenamedRoles(ticket))) =
            [status |-> ticket.status, closedAt |-> ticket.closedAt, assignee |-> kept,
             requester |-> r, creator |-> r]
    BY <2>3 DEF WithCreator
  <2>5. closes = Simplified(WithCreator(WithAccounts(WithRenamedRoles(ticket))).status)
    BY <2>4
  <2> HIDE DEF closes
  <2> DEFINE new == Migrated(ticket)
  <2>6. /\ new.status = closes /\ new.closedAt = (closes = "closed")
        /\ new.assignee = kept /\ new.requester = r /\ new.creator = r
    BY <2>4, <2>5 DEF Migrated, WithSimpleStatus
  <2> HIDE DEF new
  <2>7. closes \in {"open", "closed"}
    BY DEF closes, Simplified
  <2>8. kept = IF a # Null /\ Assignable(a.role, a.member, a.disabled) THEN a ELSE Null
    BY DEF kept, Assignable
  <2>9. /\ new.requester = RenamedRole(ticket.requester) /\ new.creator = new.requester
        /\ new.status \in {"open", "closed"} /\ (new.closedAt <=> new.status = "closed")
    BY <2>1, <2>6, <2>7
  <2>10. IsKept(ticket) <=>
            /\ new.requester = RenamedRole(ticket.requester) /\ new.creator = new.requester
            /\ new.assignee = IF a # Null /\ Assignable(a.role, a.member, a.disabled) THEN a ELSE Null
            /\ new.status \in {"open", "closed"} /\ (new.closedAt <=> new.status = "closed")
    BY DEF IsKept, new, a
  <2> QED
    BY <2>6, <2>8, <2>9, <2>10
<1> QED
  BY <1>1 DEF Distorted

\* What does not change from one to the next does not change at all.
LEMMA NeverChanged ==
    ASSUME NEW f, NEW a \in Nat, NEW b \in Nat, a <= b,
           \A k \in Nat : a <= k /\ k < b => f[k] = f[k + 1]
    PROVE  f[a] = f[b]
<1> DEFINE S == {k \in a..b : f[k] # f[a]}
<1>1. SUFFICES ASSUME f[a] # f[b] PROVE FALSE
  OBVIOUS
<1>2. S \in SUBSET Nat /\ S # {}
  BY <1>1
<1> HIDE DEF S
<1>3. PICK m \in S : \A k \in S : m <= k
  BY <1>2, LeastOfNaturals
<1>4. m \in a..b /\ f[m] # f[a] /\ m # a
  BY <1>3 DEF S
<1>5. m - 1 \in a..b /\ m - 1 \in Nat /\ m - 1 < b /\ a <= m - 1 /\ ~(m <= m - 1) /\ m - 1 + 1 = m
  BY <1>4
<1>6. f[m - 1] = f[a]
  BY <1>3, <1>5 DEF S
<1>7. f[m - 1] = f[m]
  BY <1>5
<1> QED
  BY <1>4, <1>6, <1>7

\* The changes that are left say what the deleted ones between them said.
LEMMA HistoriesAreKept == ASSUME NEW n \in Nat, NEW s \in [1..n + 1 -> OldStatuses] PROVE StaysConnected(n, s)
<1> DEFINE rows == [i \in 1..n |-> [previous |-> s[i], current |-> s[i + 1]]]
           f == [i \in 1..n + 1 |-> Simplified(s[i])]
           ids == {i \in 1..n : f[i] # f[i + 1]}
           new == SimpleHistory(rows)
<1>1. DOMAIN rows = 1..n /\ \A i \in 1..n : rows[i].previous = s[i] /\ rows[i].current = s[i + 1]
  OBVIOUS
<1>2. \A i \in 1..n : i \in 1..n + 1 /\ i + 1 \in 1..n + 1
  OBVIOUS
<1>3. /\ DOMAIN new = ids
      /\ \A i \in ids : new[i].previous = f[i] /\ new[i].current = f[i + 1]
  BY <1>1, <1>2 DEF SimpleHistory
<1> HIDE DEF new
<1>4. ids \subseteq 1..n /\ \A i \in 1..n : i \notin ids => f[i] = f[i + 1]
  OBVIOUS
<1>5. \A i \in ids : f[i] # f[i + 1]
  OBVIOUS
<1>6. f[1] = Simplified(s[1]) /\ f[n + 1] = Simplified(s[n + 1])
  <2>1. 1 \in 1..n + 1 /\ n + 1 \in 1..n + 1
    OBVIOUS
  <2> QED
    BY <2>1
<1> HIDE DEF ids, f
<1>7. ASSUME NEW a \in 1..n + 1, NEW b \in 1..n + 1, a <= b,
             \A k \in ids : ~(a <= k /\ k < b)
      PROVE  f[a] = f[b]
  <2>1. ASSUME NEW k \in Nat, a <= k, k < b PROVE f[k] = f[k + 1]
    <3>1. k \in 1..n
      BY <2>1
    <3> QED
      BY <1>4, <1>7, <2>1, <3>1
  <2>2. a \in Nat /\ b \in Nat
    OBVIOUS
  <2> QED
    BY <1>7, <2>1, <2>2, NeverChanged
<1>8. ASSUME NEW i \in ids, NEW j \in ids, i < j, \A k \in ids : ~(i < k /\ k < j)
      PROVE  f[j] = f[i + 1]
  <2>1. i \in 1..n /\ j \in 1..n
    BY <1>4
  <2>2. i + 1 \in 1..n + 1 /\ j \in 1..n + 1 /\ i + 1 <= j
    BY <1>8, <2>1
  <2>3. ASSUME NEW k \in ids, i + 1 <= k, k < j PROVE FALSE
    <3>1. k \in 1..n
      BY <1>4
    <3> QED
      BY <1>8, <2>1, <2>3, <3>1
  <2> QED
    BY <1>7, <2>2, <2>3
<1>9. ASSUME NEW i \in ids, \A k \in ids : i <= k PROVE f[i] = f[1]
  <2>1. i \in 1..n /\ 1 \in 1..n + 1 /\ i \in 1..n + 1 /\ 1 <= i
    BY <1>4
  <2>2. ASSUME NEW k \in ids, 1 <= k, k < i PROVE FALSE
    <3>1. k \in 1..n /\ i <= k
      BY <1>4, <1>9
    <3> QED
      BY <2>1, <2>2, <3>1
  <2> QED
    BY <1>7, <2>1, <2>2
<1>10. ASSUME NEW i \in ids, \A k \in ids : k <= i PROVE f[i + 1] = f[n + 1]
  <2>1. i \in 1..n /\ i + 1 \in 1..n + 1 /\ n + 1 \in 1..n + 1 /\ i + 1 <= n + 1
    BY <1>4
  <2>2. ASSUME NEW k \in ids, i + 1 <= k, k < n + 1 PROVE FALSE
    <3>1. k \in 1..n /\ k <= i
      BY <1>4, <1>10
    <3> QED
      BY <2>1, <2>2, <3>1
  <2> QED
    BY <1>7, <2>1, <2>2
<1>11. ASSUME ids = {} PROVE f[1] = f[n + 1]
  <2>1. 1 \in 1..n + 1 /\ n + 1 \in 1..n + 1 /\ 1 <= n + 1
    OBVIOUS
  <2> QED
    BY <1>7, <1>11, <2>1
<1>12. Connects(new, Simplified(s[1]), Simplified(s[n + 1]))
  BY <1>3, <1>5, <1>6, <1>8, <1>9, <1>10, <1>11 DEF Connects
<1> QED
  BY <1>12 DEF StaysConnected, new

\* A migrated database has its tickets as they were, whatever their roles,
\* accounts and statuses were before.
THEOREM MigratedTicketsAreKept == Spec => []TicketsAreKept
<1>1. TicketsAreKept
  BY NothingIsDistorted DEF TicketsAreKept
<1> QED
  BY <1>1, PTL

\* ... and its histories still lead to its tickets' statuses, however long
\* they are and whatever changes have become none.
THEOREM HistoriesStayConnected == Spec => []HistoryStaysConnected
<1>1. Disconnected = {}
  <2>1. ASSUME NEW n \in 0..MaxChanges, NEW s \in [1..n + 1 -> OldStatuses] PROVE StaysConnected(n, s)
    <3>1. n \in Nat
      OBVIOUS
    <3> QED
      BY <3>1, HistoriesAreKept
  <2> QED
    BY <2>1 DEF Disconnected
<1>2. HistoryStaysConnected
  BY <1>1 DEF HistoryStaysConnected
<1> QED
  BY <1>2, PTL

-----------------------------------------------------------------------------
(* What a restore moves, and what must not be lost or mixed up.            *)

Restores(p) == process[p].pc \in {"moving", "rollback"}

\* Where a restore stands, even when the undoing of it has failed: each place
\* is empty or has the copy, until what was moved away is back.
Recoverable(p) ==
    LET c == process[p] IN
    /\ c.name = restores
    /\ c.pc = "rollback" => c.next <= 5
    /\ \A i \in 1..3 : c.pc = "moving" /\ c.next <= i => saved[c.name][Part(i)] = 0
    /\ 1 \in c.renamed => at.db \in {0, c.staged}
    /\ 2 \in c.renamed => at.wal = 0
    /\ 3 \in c.renamed => at.uploads \in {0, c.staged}
    /\ 4 \in c.renamed => at.db = c.staged /\ (2 \in c.renamed \/ c.before.wal = 0)
    /\ 5 \in c.renamed => at.uploads = c.staged
    /\ \A i \in 4..5 : c.pc = "moving" /\ i < c.next => i \in c.renamed
    /\ c.stuck => interrupted /\ c.pc = "rollback"

Recovering ==
    /\ \A r \in 1..MaxRestores : r > restores => saved[r] = NoPlaces
    /\ \A p \in Processes : Restores(p) => Recoverable(p)

\* There is a log at the path, or the restore has moved it away.
HasLog(p) == at.wal # 0 \/ 2 \in process[p].renamed

\* A log that nobody uses was left by a fault, and so on.
LogCost(p) ==
    LET c == process[p] IN
    /\ HasLog(p) => faults >= 1
    /\ c.pc = "rollback" /\ HasLog(p) => faults >= 2
    /\ c.stuck /\ HasLog(p) => faults >= 3
    /\ faults < 3 => c.before.wal \in {0, c.before.db} \/ c.before.db = 0

LogsCost ==
    /\ at.wal # 0 /\ (\A q \in Processes : process[q].open = 0) => faults >= 1
    /\ \A p \in Processes : Restores(p) => LogCost(p)
    /\ LogsStayWithTheirDatabase

\* The files of a directory, and the rows that refer to them.
FilesIn(d) == IF d = 0 THEN {} ELSE dir[d]

RowsBelong(places) ==
    places.db # 0 =>
        content[places.db].rows \subseteq FilesIn(places.uploads) \cup content[places.db].missing

\* What is at the paths belongs together, or what was there before the restore,
\* and the copies do.
Paired(p) ==
    LET c == process[p] IN
    /\ ~interrupted => c.before.wal \in {0, c.before.db} /\ RowsBelong(c.before)
    /\ content[c.staged].rows \subseteq dir[c.staged] \cup content[c.staged].missing

Together ==
    /\ ~interrupted /\ (\A p \in Processes : ~Restores(p)) => at.wal \in {0, at.db} /\ RowsBelong(at)
    /\ \A p \in Processes : Restores(p) => Paired(p)

\* A step without a restore takes nothing away from the paths but a log that
\* was written into its database.
Ordinary ==
    /\ \A q \in Processes : /\ ~Restores(q) /\ ~Restores(q)'
                            /\ process[q].staged = 0 /\ process'[q].staged = 0
    /\ UNCHANGED <<saved, restores>> /\ (interrupted => interrupted')
    /\ faults' \in Nat /\ faults' >= faults
    /\ at'.db = at.db \/ at.db = 0
    /\ at'.uploads = at.uploads \/ at.uploads = 0
    /\ \A d \in Databases :
           /\ content'[d].state # "none" => content[d].state # "none" \/ at'.db = d
           /\ dir'[d] # {} => dir[d] # {} \/ at'.uploads = d
    /\ \/ at'.wal = at.wal /\ logged' = logged /\ at'.db = at.db
       \/ at'.wal = 0 /\ logged' = logged \ {at.wal} /\ at'.db = at.db
       \/ at'.wal = at'.db /\ logged' = logged \cup {at'.db}
    /\ at'.wal # 0 /\ (\A q \in Processes : process'[q].open = 0) =>
           faults' >= 1 \/ (at.wal # 0 /\ \A q \in Processes : process[q].open = 0)
    /\ RowsBelong(at) => RowsBelong(at)'

\* Nobody but a process of its own steps beside a restore.
LEMMA Beside ==
    ASSUME TypeOK, Locked, Locked', NEW p \in Processes, ~Restores(p), ~Restores(p)',
           process[p].pc # "idle" \/ \A q \in Processes : q # p => lock[q] # "exclusive",
           \A q \in Processes : q # p => process'[q].pc = process[q].pc
    PROVE  \A q \in Processes : /\ ~Restores(q) /\ ~Restores(q)'
                                /\ process[q].staged = 0 /\ process'[q].staged = 0
<1>1. \A q \in Processes : ~Restores(q)
  BY RestoreIsAlone DEF Restores, Locked
<1>2. \A q \in Processes : ~Restores(q)'
  BY <1>1 DEF Restores
<1> QED
  BY <1>1, <1>2 DEF Locked, Restores

\* The steps that leave the paths and the directories alone.
LEMMA QuietStep ==
    ASSUME TypeOK, Locked, Locked', NEW p \in Processes, ~Restores(p), ~Restores(p)',
           process[p].pc # "idle" \/ \A q \in Processes : q # p => lock[q] # "exclusive",
           \A q \in Processes : q # p => process'[q] = process[q],
           process'[p].open = process[p].open,
           UNCHANGED <<at, saved, interrupted, dir, restores, faults, logged>>,
           \A d \in Databases : content'[d].state # "none" => content[d].state # "none" \/ at.db = d,
           RowsBelong(at) => RowsBelong(at)'
    PROVE  Ordinary
<1>1. \A q \in Processes : /\ ~Restores(q) /\ ~Restores(q)'
                           /\ process[q].staged = 0 /\ process'[q].staged = 0
  BY Beside
<1>2. faults \in Nat /\ faults >= faults
  BY DEF TypeOK
<1>3. \A q \in Processes : process'[q].open = process[q].open
  OBVIOUS
<1> QED
  BY <1>1, <1>2, <1>3 DEF Ordinary

\* ... and the databases, too.
LEMMA QuietProcess ==
    ASSUME TypeOK, Locked, Locked', NEW p \in Processes, process[p].pc \notin {"moving", "rollback"},
           process'[p].pc \notin {"moving", "rollback"},
           process[p].pc # "idle" \/ \A q \in Processes : q # p => lock[q] # "exclusive",
           \A q \in Processes : q # p => process'[q] = process[q],
           process'[p].open = process[p].open,
           UNCHANGED <<at, saved, interrupted, content, dir, restores, faults, logged>>
    PROVE  Ordinary
<1>1. RowsBelong(at) => RowsBelong(at)'
  BY DEF RowsBelong, FilesIn
<1> QED
  BY <1>1, QuietStep DEF Restores

\* The steps of commands that write nothing but what they know.
LEMMA QuietCommands ==
    ASSUME TypeOK, Locked, Locked', NEW p \in Processes,
           \/ Unlock(p) \/ (\E command \in {"serve", "migrate", "backup"} : Begin(p, command))
           \/ StopServing(p) \/ Inspect(p) \/ BeginTransaction(p) \/ Up(p)
           \/ (\E k \in Keys : ArchiveUpload(p, k)) \/ Publish(p) \/ AbandonBackup(p)
    PROVE  Ordinary
<1>0. process[p] \in Process /\ process[p] = [process[p] EXCEPT !.open = process[p].open]
  BY DEF TypeOK, Process
<1>1. CASE Unlock(p)
  <2>1. process[p].pc = "closed" /\ process'[p] = Idle /\ \A q \in Processes : q # p => process'[q] = process[q]
    BY <1>1 DEF Unlock, TypeOK
  <2>2. process[p].open = 0
    BY <2>1 DEF Locked, Opened
  <2>3. UNCHANGED <<at, saved, interrupted, content, dir, restores, faults, logged>>
    BY <1>1 DEF Unlock, paths, data, count
  <2> QED
    BY <2>1, <2>2, <2>3, IdleHasNothing, QuietProcess
<1>2. ASSUME NEW command \in {"serve", "migrate", "backup"}, Begin(p, command) PROVE Ordinary
  <2>1. /\ process' = [process EXCEPT ![p].pc = "locked", ![p].command = command]
        /\ process[p].pc = "idle" /\ MayLock(p, "shared")
        /\ UNCHANGED <<at, saved, interrupted, content, dir, restores, faults, logged>>
    BY <1>2 DEF Begin, Acquire, paths, data
  <2>2. /\ process'[p].pc = "locked" /\ process'[p].open = process[p].open
        /\ \A q \in Processes : q # p => process'[q] = process[q] /\ lock[q] # "exclusive"
    BY <1>0, <2>1 DEF TypeOK, Process, MayLock
  <2> QED
    BY <2>1, <2>2, QuietProcess
<1>3. CASE StopServing(p) \/ BeginTransaction(p)
  <2>1. /\ process' = [process EXCEPT ![p].pc = IF StopServing(p) THEN "closing" ELSE "transaction"]
        /\ process[p].pc \in {"serving", "migrating"}
        /\ UNCHANGED <<at, saved, interrupted, content, dir, restores, faults, logged>>
    <3>1. ~(StopServing(p) /\ BeginTransaction(p))
      BY DEF StopServing, BeginTransaction
    <3> QED
      BY <1>3, <3>1 DEF StopServing, BeginTransaction, Goes, paths, data, count
  <2>2. /\ process'[p].pc \in {"closing", "transaction"} /\ process'[p].open = process[p].open
        /\ \A q \in Processes : q # p => process'[q] = process[q]
    BY <1>0, <2>1 DEF TypeOK, Process
  <2> QED
    BY <2>1, <2>2, QuietProcess
<1>4. CASE Inspect(p)
  <2>1. /\ process[p].pc = "opened"
        /\ \E pc \in {"install", "serving", "closing", "migrating"} : \E pending :
              process' = [process EXCEPT ![p].pc = pc, ![p].pending = pending]
        /\ UNCHANGED <<at, saved, interrupted, content, dir, restores, faults, logged>>
    BY <1>4 DEF Inspect, paths, data, count
  <2>2. /\ process'[p].pc \in {"install", "serving", "closing", "migrating"}
        /\ process'[p].open = process[p].open
        /\ \A q \in Processes : q # p => process'[q] = process[q]
    BY <1>0, <2>1 DEF TypeOK, Process
  <2> QED
    BY <2>1, <2>2, QuietProcess
<1>5. CASE Up(p)
  <2>1. /\ process[p].pc = "transaction"
        /\ \/ process' = [process EXCEPT ![p].pc = "closing", ![p].done = {}]
           \/ \E v : process' = [process EXCEPT ![p].done = @ \cup {v}]
        /\ UNCHANGED <<at, saved, interrupted, content, dir, restores, faults, logged>>
    BY <1>5 DEF Up, paths, data, count
  <2>2. /\ process'[p].pc \in {"closing", "transaction"} /\ process'[p].open = process[p].open
        /\ \A q \in Processes : q # p => process'[q] = process[q]
    BY <1>0, <2>1 DEF TypeOK, Process
  <2> QED
    BY <2>1, <2>2, QuietProcess
<1>6. ASSUME NEW k \in Keys, ArchiveUpload(p, k) PROVE Ordinary
  <2>1. process[p].pc = "archiving" /\ \A q \in Processes : q # p => process'[q] = process[q]
    BY <1>6 DEF ArchiveUpload, TypeOK
  <2>1a. process'[p].pc = process[p].pc /\ process'[p].open = process[p].open
    <3>1. PICK files : process' = [process EXCEPT ![p].left = @ \ {k}, ![p].made.files = files]
      BY <1>6 DEF ArchiveUpload
    <3>2. process'[p] = [process[p] EXCEPT !.left = @ \ {k}, !.made.files = files]
      BY <3>1 DEF TypeOK
    <3> QED
      BY <1>0, <3>2 DEF Process
  <2>2. UNCHANGED <<at, saved, interrupted, content, dir, restores, faults, logged>>
    BY <1>6 DEF ArchiveUpload, paths, data, count
  <2> QED
    BY <2>1, <2>1a, <2>2, QuietProcess
<1>7. CASE Publish(p)
  <2>1. /\ process[p].pc = "archiving" /\ process'[p] = [Idle EXCEPT !.pc = "closed"]
        /\ \A q \in Processes : q # p => process'[q] = process[q]
    BY <1>7 DEF Publish, TypeOK
  <2>2. process[p].open = 0
    BY <2>1 DEF Locked, Opened
  <2>3. UNCHANGED <<at, saved, interrupted, content, dir, restores, faults, logged>>
    BY <1>7 DEF Publish, paths, count
  <2> QED
    BY <2>1, <2>2, <2>3, IdleHasNothing, QuietProcess
<1>8. CASE AbandonBackup(p)
  <2>1. /\ process[p].pc \in {"copying", "archiving"}
        /\ process'[p] = IF process[p].pc = "copying" THEN [process[p] EXCEPT !.pc = "closing"]
                         ELSE [Idle EXCEPT !.pc = "closed"]
        /\ \A q \in Processes : q # p => process'[q] = process[q]
    BY <1>8 DEF AbandonBackup, TypeOK
  <2>2. process'[p].open = process[p].open /\ process'[p].pc \in {"closing", "closed"}
    <3>1. CASE process[p].pc = "copying"
      BY <1>0, <2>1, <3>1 DEF Process
    <3>2. CASE process[p].pc = "archiving"
      BY <2>1, <3>2, IdleHasNothing DEF Locked, Opened
    <3> QED
      BY <2>1, <3>1, <3>2
  <2>3. UNCHANGED <<at, saved, interrupted, content, dir, restores, faults, logged>>
    BY <1>8 DEF AbandonBackup, paths, data, count
  <2> QED
    BY <2>1, <2>2, <2>3, QuietProcess
<1> QED
  BY <1>1, <1>2, <1>3, <1>4, <1>5, <1>6, <1>7, <1>8

\* What has a database open has the one at the path.
LEMMA OpenIsThere ==
    ASSUME TypeOK, Locked, NEW p \in Processes, process[p].pc \in Opened
    PROVE  /\ process[p] \in Process /\ at \in Places
           /\ process[p].open \in Databases /\ content[process[p].open] \in Database
           /\ at.db = process[p].open /\ at.wal = process[p].open
           /\ process[p].pc \notin {"idle", "moving", "rollback"}
           /\ at.db \in 0..MaxDatabases /\ at.wal \in 0..MaxDatabases /\ at.uploads \in 0..MaxDatabases
<1>1. process[p] \in Process /\ at \in Places
  BY DEF TypeOK
<1>2. process[p].open \in 0..MaxDatabases /\ process[p].open # 0
  BY <1>1 DEF Process, Locked
<1>3. process[p].open \in Databases
  BY <1>2, DatabaseFilesAssumption DEF Databases
<1>4. content[process[p].open] \in Database
  BY <1>3 DEF TypeOK
<1>5. at.db = process[p].open /\ at.wal = process[p].open
  BY <1>2 DEF Locked
<1>6. process[p].pc \notin {"idle", "moving", "rollback"}
  BY DEF Opened
<1> QED
  BY <1>1, <1>3, <1>4, <1>5, <1>6 DEF Places

\* Steps that write into the database that they have open.
LEMMA QuietWrite ==
    ASSUME TypeOK, Locked, Locked', NEW p \in Processes, process[p].pc \in Opened,
           process'[p].pc \in Opened, process'[p].open = process[p].open,
           \A q \in Processes : q # p => process'[q] = process[q],
           UNCHANGED <<at, saved, interrupted, dir, restores, faults, logged>>,
           NEW c \in Database, content' = [content EXCEPT ![process[p].open] = c],
           c.rows \subseteq content[process[p].open].rows \cup Files,
           c.missing = content[process[p].open].missing
    PROVE  Ordinary
<1> DEFINE d == process[p].open
<1>1. /\ d \in Databases /\ at.db = d /\ process[p].pc \notin {"idle", "moving", "rollback"}
      /\ process'[p].pc \notin {"moving", "rollback"}
  BY OpenIsThere DEF Opened
<1>2. content'[d] = c /\ \A e \in Databases : e # d => content'[e] = content[e]
  BY <1>1 DEF TypeOK
<1> HIDE DEF d
<1>3. RowsBelong(at) => RowsBelong(at)'
  <2>1. c.rows \subseteq content[d].rows \cup Files /\ c.missing = content[d].missing
    BY DEF d
  <2>2. Files = FilesIn(at.uploads) /\ Files' = FilesIn(at.uploads)'
    BY DEF Files, FilesIn
  <2>3. Files' = Files /\ at' = at
    BY DEF Files
  <2> QED
    BY <1>1, <1>2, <2>1, <2>2, <2>3 DEF RowsBelong
<1>4. \A e \in Databases : content'[e].state # "none" => content[e].state # "none" \/ at.db = e
  BY <1>1, <1>2
<1> QED
  BY <1>1, <1>3, <1>4, QuietStep DEF Restores

\* The writes into a database lose no file that a row refers to.
LEMMA OrdinaryWrites ==
    ASSUME TypeOK, Locked, Locked', NEW p \in Processes,
           \/ InstallCurrentSchema(p) \/ CommitMigrations(p)
           \/ \E k \in Keys : AttachUpload(p, k) \/ DeleteAttachment(p, k)
    PROVE  Ordinary
<1> DEFINE d == process[p].open
           c == content[d]
<1>0. process[p].pc \in Opened /\ process[p] \in Process /\ c \in Database /\ d \in Databases
      /\ content \in [Databases -> Database]
  <2>1. process[p].pc \in Opened
    BY DEF InstallCurrentSchema, CommitMigrations, AttachUpload, DeleteAttachment, Opened
  <2> QED
    BY <2>1, OpenIsThere DEF TypeOK
<1>1. CASE InstallCurrentSchema(p)
  <2> DEFINE new == [c EXCEPT !.state = "live", !.applied = @ \cup Versions,
                              !.first = @ \cup (Versions \ c.applied)]
  <2>1. /\ content' = [content EXCEPT ![d] = new]
        /\ UNCHANGED <<at, saved, interrupted, dir, restores, faults, logged>>
        /\ process' = [process EXCEPT ![p].pc = IF process[p].command = "serve" THEN "serving" ELSE "closing"]
    <3>1. content' = [content EXCEPT ![d].state = "live", ![d].applied = @ \cup Versions,
                                     ![d].first = @ \cup (Versions \ content[d].applied)]
      BY <1>1 DEF InstallCurrentSchema
    <3>2. content' = [content EXCEPT ![d] = new]
      BY <1>0, <3>1
    <3> QED
      BY <1>1, <3>2 DEF InstallCurrentSchema, Goes, paths, count
  <2>2. new \in Database /\ new.rows = c.rows /\ new.missing = c.missing
    <3>1. Versions \subseteq Nat
      BY DatabaseFilesAssumption DEF Versions
    <3> HIDE DEF c
    <3> QED
      BY <1>0, <3>1 DEF Database
  <2>3. /\ process'[p].pc \in Opened /\ process'[p].open = d
        /\ \A q \in Processes : q # p => process'[q] = process[q]
    BY <1>0, <2>1 DEF TypeOK, Process, Opened
  <2> HIDE DEF new
  <2> QED
    BY <1>0, <2>1, <2>2, <2>3, QuietWrite
<1>2. CASE CommitMigrations(p)
  <2> DEFINE done == process[p].done
             new == [c EXCEPT !.applied = @ \cup done,
                              !.ran = [v \in Versions |-> IF v \in done THEN @[v] + 1 ELSE @[v]]]
  <2>1. /\ content' = [content EXCEPT ![d] = new]
        /\ UNCHANGED <<at, saved, interrupted, dir, restores, faults, logged>>
        /\ process' = [process EXCEPT ![p].pc = "closing"]
    BY <1>0, <1>2 DEF CommitMigrations, Goes, paths, count
  <2>2. new \in Database /\ new.rows = c.rows /\ new.missing = c.missing
    <3>1. done \subseteq Nat
      BY <1>0, DatabaseFilesAssumption DEF Process, Versions
    <3>2. c.ran \in [Versions -> Nat]
      BY <1>0 DEF Database
    <3>3. [v \in Versions |-> IF v \in done THEN c.ran[v] + 1 ELSE c.ran[v]] \in [Versions -> Nat]
      BY <3>2
    <3> HIDE DEF c, done
    <3> QED
      BY <1>0, <3>1, <3>3 DEF Database
  <2>3. /\ process'[p].pc \in Opened /\ process'[p].open = d
        /\ \A q \in Processes : q # p => process'[q] = process[q]
    BY <1>0, <2>1 DEF TypeOK, Process, Opened
  <2> HIDE DEF new
  <2> QED
    BY <1>0, <2>1, <2>2, <2>3, QuietWrite
<1>3. ASSUME NEW k \in Keys, AttachUpload(p, k) \/ DeleteAttachment(p, k) PROVE Ordinary
  <2>1. PICK rows \in SUBSET Keys :
            /\ content' = [content EXCEPT ![d].rows = rows]
            /\ rows \subseteq c.rows \cup Files
    <3>1. c.rows \subseteq Keys
      BY <1>0 DEF Database
    <3>2. CASE AttachUpload(p, k)
      <4>1. content' = [content EXCEPT ![d].rows = c.rows \cup {k}] /\ k \in Files
        BY <1>0, <3>2 DEF AttachUpload
      <4> QED
        BY <3>1, <4>1
    <3>3. CASE DeleteAttachment(p, k)
      <4>1. content' = [content EXCEPT ![d].rows = c.rows \ {k}]
        BY <1>0, <3>3 DEF DeleteAttachment
      <4> QED
        BY <3>1, <4>1
    <3> QED
      BY <1>3, <3>2, <3>3
  <2> DEFINE new == [c EXCEPT !.rows = rows]
  <2>2. /\ content' = [content EXCEPT ![d] = new]
        /\ UNCHANGED <<at, saved, interrupted, dir, restores, faults, logged, process>>
    BY <1>0, <1>3, <2>1 DEF AttachUpload, DeleteAttachment, paths, count
  <2>3. new \in Database /\ new.rows = rows /\ new.missing = c.missing
    <3> HIDE DEF c
    <3> QED
      BY <1>0, <2>1 DEF Database
  <2> HIDE DEF new
  <2> QED
    BY <1>0, <2>1, <2>2, <2>3, QuietWrite
<1> QED
  BY <1>1, <1>2, <1>3

\* The server's files come and go.
LEMMA OrdinaryFiles ==
    ASSUME TypeOK, Locked, Locked', NEW p \in Processes, NEW k \in Keys,
           WriteUpload(p, k) \/ RemoveUpload(p, k)
    PROVE  Ordinary
<1>0. /\ process[p].pc = "serving" /\ process[p].pc \in Opened
      /\ UNCHANGED <<saved, interrupted, content, restores, faults, logged>>
  BY DEF WriteUpload, RemoveUpload, paths, count, Opened
<1>1. /\ at \in Places /\ process[p].open \in Databases /\ at.db = process[p].open /\ at.db \in Databases
      /\ dir \in [Databases -> SUBSET Keys] /\ faults \in Nat
      /\ at.uploads # 0 => at.uploads \in Databases
  <2>1. at.uploads \in 0..MaxDatabases
    BY <1>0, OpenIsThere
  <2> QED
    BY <1>0, <2>1, OpenIsThere, DatabaseFilesAssumption DEF TypeOK, Databases
<1>2. /\ \A q \in Processes : process'[q].pc = process[q].pc /\ process'[q].open = process[q].open
  <2>1. CASE WriteUpload(p, k)
    BY <2>1 DEF WriteUpload
  <2>2. CASE RemoveUpload(p, k)
    <3>1. ASSUME NEW q \in Processes
          PROVE  process'[q].pc = process[q].pc /\ process'[q].open = process[q].open
      <4>1. process[q] \in Process
        BY DEF TypeOK
      <4>2. \/ process'[q] = process[q]
            \/ \E gone : process'[q] = [process[q] EXCEPT !.made.gone = gone]
        BY <2>2 DEF RemoveUpload
      <4> QED
        BY <4>1, <4>2 DEF Process
    <3> QED
      BY <3>1
  <2> QED
    BY <2>1, <2>2
<1>3. \A q \in Processes : /\ ~Restores(q) /\ ~Restores(q)'
                           /\ process[q].staged = 0 /\ process'[q].staged = 0
  BY <1>0, <1>2, Beside DEF Restores
<1>4. CASE WriteUpload(p, k)
  <2> DEFINE d == IF at.uploads = 0 THEN NextDirectory ELSE at.uploads
  <2>1. d \in Databases /\ d # 0
    <3>1. NextDirectory \in Databases
      BY NextDirectoryIsOne
    <3> QED
      BY <1>1, <3>1 DEF Databases
  <2>2. at' = [at EXCEPT !.uploads = d] /\ dir' = [dir EXCEPT ![d] = @ \cup {k}]
    BY <1>4 DEF WriteUpload
  <2>3. at.uploads # 0 => d = at.uploads
    OBVIOUS
  <2> HIDE DEF d
  <2>4. /\ at'.db = at.db /\ at'.wal = at.wal /\ at'.uploads = d
        /\ dir'[d] = dir[d] \cup {k} /\ \A e \in Databases : e # d => dir'[e] = dir[e]
    BY <1>1, <2>1, <2>2 DEF Places
  <2>5. RowsBelong(at) => RowsBelong(at)'
    <3>1. FilesIn(at.uploads) \subseteq FilesIn(at.uploads)'
      BY <2>1, <2>3, <2>4 DEF FilesIn
    <3> QED
      BY <1>0, <2>4, <3>1 DEF RowsBelong
  <2> QED
    BY <1>0, <1>1, <1>2, <1>3, <2>3, <2>4, <2>5 DEF Ordinary
<1>5. CASE RemoveUpload(p, k)
  <2>1. /\ at' = at /\ dir' = [dir EXCEPT ![at.uploads] = @ \ {k}]
        /\ k \in Files \ content[process[p].open].rows
    BY <1>5 DEF RemoveUpload, paths
  <2>2. at.uploads \in Databases /\ at.uploads # 0
    BY <1>1, <2>1 DEF Files
  <2>3. dir'[at.uploads] = dir[at.uploads] \ {k}
        /\ \A e \in Databases : e # at.uploads => dir'[e] = dir[e]
    BY <1>1, <2>1, <2>2
  <2>4. RowsBelong(at) => RowsBelong(at)'
    <3>1. FilesIn(at.uploads) \subseteq FilesIn(at.uploads)' \cup {k} /\ k \notin content[at.db].rows
      BY <1>1, <2>1, <2>2, <2>3 DEF FilesIn
    <3> QED
      BY <1>0, <2>1, <3>1 DEF RowsBelong
  <2>5. \A e \in Databases : dir'[e] # {} => dir[e] # {}
    BY <1>1, <2>2, <2>3
  <2> QED
    BY <1>0, <1>1, <1>2, <1>3, <2>1, <2>4, <2>5 DEF Ordinary
<1> QED
  BY <1>4, <1>5

\* A database that is opened has its log beside it, and a new one has no rows.
LEMMA OrdinaryOpen ==
    ASSUME TypeOK, Locked, Locked', SchemasSeen, NEW p \in Processes, OpenDatabase(p)
    PROVE  Ordinary
<1> DEFINE d == IF at.db = 0 THEN NextDatabase ELSE at.db
<1>0. /\ process[p].pc = "locked" /\ process[p] \in Process /\ at \in Places
      /\ at' = [at EXCEPT !.db = d, !.wal = d]
      /\ content' = IF at.db = 0 THEN [content EXCEPT ![d].state = "empty"] ELSE content
      /\ logged' = logged \cup {d}
      /\ process' = [process EXCEPT ![p].open = d,
                       ![p].pc = IF process[p].command = "backup" THEN "copying" ELSE "opened"]
      /\ UNCHANGED <<saved, interrupted, dir, restores, faults>>
  BY DEF OpenDatabase, count, TypeOK
<1>1. d \in Databases /\ d # 0 /\ (at.db = 0 => d \in Fresh) /\ (at.db # 0 => d = at.db)
  <2>1. CASE at.db = 0
    BY <2>1, NextDatabaseIsFresh DEF OpenDatabase
  <2>2. CASE at.db # 0
    BY <1>0, <2>2, DatabaseFilesAssumption DEF Places, Databases
  <2> QED
    BY <2>1, <2>2
<1> HIDE DEF d
<1>2. /\ at'.db = d /\ at'.wal = d /\ at'.uploads = at.uploads
      /\ process'[p].pc \in {"copying", "opened"} /\ process'[p].open = d
      /\ \A q \in Processes : q # p => process'[q] = process[q]
  BY <1>0 DEF Places, Process, TypeOK
<1>3. \A q \in Processes : /\ ~Restores(q) /\ ~Restores(q)'
                           /\ process[q].staged = 0 /\ process'[q].staged = 0
  <2>1. ~Restores(p) /\ ~Restores(p)' /\ process[p].pc # "idle"
    BY <1>0, <1>2 DEF Restores
  <2> QED
    BY <1>2, <2>1, Beside
<1>4. /\ \A e \in Databases : e # d => content'[e] = content[e]
      /\ content'[d].rows = content[d].rows /\ content'[d].missing = content[d].missing
  <2>1. content[d] \in Database
    BY <1>1 DEF TypeOK
  <2>2. content'[d] \in {content[d], [content[d] EXCEPT !.state = "empty"]}
    BY <1>0, <1>1 DEF TypeOK
  <2>3. \A e \in Databases : e # d => content'[e] = content[e]
    BY <1>0, <1>1 DEF TypeOK
  <2> QED
    BY <2>1, <2>2, <2>3 DEF Database
<1>5. at.db = 0 => content[d].rows = {}
  <2>1. ASSUME at.db = 0 PROVE content[d].rows = {}
    <3>1. content[d].state = "none"
      BY <1>1, <2>1 DEF Fresh
    <3>2. content[d] = NoDatabase
      BY <1>1, <3>1 DEF SchemasSeen, Sound
    <3> QED
      BY <3>2 DEF NoDatabase
  <2> QED
    BY <2>1
<1>6. RowsBelong(at) => RowsBelong(at)'
  <2>1. FilesIn(at.uploads)' = FilesIn(at.uploads)
    BY <1>0, <1>2 DEF FilesIn
  <2> QED
    BY <1>1, <1>2, <1>4, <1>5, <2>1 DEF RowsBelong
<1>7. faults' \in Nat /\ faults' >= faults
  BY <1>0 DEF TypeOK
<1> QED
  BY <1>0, <1>1, <1>2, <1>3, <1>4, <1>6, <1>7 DEF Ordinary

\* The last one to close takes the log with it.
LEMMA OrdinaryClose ==
    ASSUME TypeOK, Locked, Locked', NEW p \in Processes, CloseDatabase(p) \/ CopyDatabase(p)
    PROVE  Ordinary
<1> DEFINE last == \A q \in Processes \ {p} : process[q].open # process[p].open
<1>0. /\ process[p].pc \in {"closing", "copying"} /\ process[p].pc \in Opened
      /\ at' = IF last THEN [at EXCEPT !.wal = 0] ELSE at
      /\ logged' = IF last THEN logged \ {process[p].open} ELSE logged
      /\ UNCHANGED <<saved, interrupted, content, dir, restores, faults>>
  BY DEF CloseDatabase, CopyDatabase, Closes, Opened, data, count
<1>1. /\ process[p] \in Process /\ at \in Places /\ process[p].open \in Databases
      /\ at.db = process[p].open /\ at.wal = process[p].open /\ at.db # 0
      /\ faults \in Nat
  BY <1>0, OpenIsThere, DatabaseFilesAssumption DEF TypeOK, Databases
<1>2. process'[p].pc \in {"closed", "archiving"} /\ \A q \in Processes : q # p => process'[q] = process[q]
  <2>1. CASE CloseDatabase(p)
    BY <2>1, IdleHasNothing DEF CloseDatabase, TypeOK
  <2>2. CASE CopyDatabase(p)
    BY <1>1, <2>2 DEF CopyDatabase, TypeOK, Process
  <2> QED
    BY <2>1, <2>2
<1>3. \A q \in Processes : /\ ~Restores(q) /\ ~Restores(q)'
                           /\ process[q].staged = 0 /\ process'[q].staged = 0
  <2>1. ~Restores(p) /\ ~Restores(p)' /\ process[p].pc # "idle"
    BY <1>0, <1>2 DEF Restores
  <2> QED
    BY <1>2, <2>1, Beside
<1> HIDE DEF last
<1>4. at'.db = at.db /\ at'.uploads = at.uploads /\ at'.wal = IF last THEN 0 ELSE at.wal
  BY <1>0, <1>1 DEF Places
<1>5. at'.wal # 0 => \E q \in Processes : process'[q].open # 0
  <2>1. ASSUME ~last PROVE \E q \in Processes : process'[q].open # 0
    <3>1. PICK q \in Processes \ {p} : process[q].open = process[p].open
      BY <2>1 DEF last
    <3> QED
      BY <1>1, <1>2, <3>1
  <2> QED
    BY <1>4, <2>1
<1>6. RowsBelong(at) => RowsBelong(at)'
  BY <1>0, <1>4 DEF RowsBelong, FilesIn
<1>7. faults >= faults
  BY <1>1
<1>8. \/ at'.wal = at.wal /\ logged' = logged /\ at'.db = at.db
      \/ at'.wal = 0 /\ logged' = logged \ {at.wal} /\ at'.db = at.db
  BY <1>0, <1>1, <1>4
<1> QED
  BY <1>0, <1>1, <1>3, <1>4, <1>5, <1>6, <1>7, <1>8 DEF Ordinary

\* A process other than a restore stops.
LEMMA OrdinaryCrash ==
    ASSUME TypeOK, Locked, Locked', NEW p \in Processes, Crash(p), ~Restores(p)
    PROVE  Ordinary
<1>0. /\ process[p].pc # "idle" /\ process' = [process EXCEPT ![p] = Idle]
      /\ faults' = faults + 1 /\ faults \in Nat
      /\ UNCHANGED <<at, saved, restores, logged>>
      /\ interrupted => interrupted'
  BY DEF Crash, TypeOK
<1>1. process'[p] = Idle /\ \A q \in Processes : q # p => process'[q] = process[q]
  BY <1>0 DEF TypeOK
<1>2. process[p].staged = 0
  BY DEF Locked, Restores
<1>3. UNCHANGED <<content, dir>>
  BY <1>2 DEF Crash, DiscardCopies
<1>4. \A q \in Processes : /\ ~Restores(q) /\ ~Restores(q)'
                           /\ process[q].staged = 0 /\ process'[q].staged = 0
  <2>1. ~Restores(p)'
    BY <1>1, IdleHasNothing DEF Restores
  <2> QED
    BY <1>0, <1>1, <2>1, Beside
<1>5. RowsBelong(at) => RowsBelong(at)'
  BY <1>0, <1>3 DEF RowsBelong, FilesIn
<1>6. faults' \in Nat /\ faults' >= faults /\ faults' >= 1
  BY <1>0
<1> QED
  BY <1>0, <1>3, <1>4, <1>5, <1>6 DEF Ordinary

Safe == Recovering /\ LogsCost /\ Together /\ NothingIsLost

\* Such steps keep everything.
LEMMA OrdinaryIsSafe ==
    ASSUME TypeOK, Locked, Safe, Ordinary
    PROVE  Safe'
<1>0. /\ \A q \in Processes : ~Restores(q) /\ ~Restores(q)' /\ process[q].staged = 0 /\ process'[q].staged = 0
      /\ UNCHANGED <<saved, restores>> /\ (interrupted => interrupted') /\ faults' >= faults
      /\ faults \in Nat /\ faults' \in Nat
  BY DEF Ordinary, TypeOK
<1>1. Recovering'
  BY <1>0 DEF Safe, Recovering
<1>2. LogsCost'
  <2>1. at'.wal # 0 /\ (\A q \in Processes : process'[q].open = 0) => faults' >= 1
    BY <1>0 DEF Ordinary, Safe, LogsCost
  <2>2. LogsStayWithTheirDatabase'
    BY <1>0 DEF Ordinary, Safe, LogsCost, LogsStayWithTheirDatabase
  <2> QED
    BY <1>0, <2>1, <2>2 DEF LogsCost
<1>3. Together'
  BY <1>0 DEF Ordinary, Safe, Together
<1>4. NothingIsLost'
  <2>1. ASSUME NEW d \in Databases, content'[d].state # "none" PROVE Kept(d, "db")'
    <3>1. d # 0
      BY DatabaseFilesAssumption DEF Databases
    <3> QED
      BY <1>0, <2>1, <3>1 DEF Ordinary, Safe, NothingIsLost, Kept
  <2>2. ASSUME NEW d \in Databases, dir'[d] # {} PROVE Kept(d, "uploads")'
    <3>1. d # 0
      BY DatabaseFilesAssumption DEF Databases
    <3> QED
      BY <1>0, <2>2, <3>1 DEF Ordinary, Safe, NothingIsLost, Kept
  <2>3. ASSUME NEW d \in Databases, d \in logged', ~interrupted' PROVE Kept(d, "wal")'
    <3>1. d # 0
      BY DatabaseFilesAssumption DEF Databases
    <3>2. at.wal \in {0, at.db}
      BY <1>0, <2>3 DEF Safe, Together
    <3>3. d \in logged => Kept(d, "wal")
      BY <1>0, <2>3 DEF Safe, NothingIsLost
    <3> QED
      BY <1>0, <2>3, <3>1, <3>2, <3>3 DEF Ordinary, Kept
  <2> QED
    BY <2>1, <2>2, <2>3 DEF NothingIsLost
<1> QED
  BY <1>1, <1>2, <1>3, <1>4 DEF Safe

\* A restore begins, beside nobody.
LEMMA BeginRestoreIsSafe ==
    ASSUME TypeOK, Locked, InUse, Safe, NEW p \in Processes, NEW n \in 1..MaxBackups, BeginRestore(p, n)
    PROVE  Safe'
<1> DEFINE backup == backups[n]
           copy == [backup.database EXCEPT !.first = backup.database.applied, !.ran = NoDatabase.ran,
                                           !.missing = backup.database.rows \ backup.files]
<1>0. PICK d : d = NextDatabase
  OBVIOUS
<1>1. /\ d \in Fresh /\ d \in Databases /\ d # 0
      /\ restores' = restores + 1 /\ restores < MaxRestores /\ restores \in Nat
      /\ content' = [content EXCEPT ![d] = copy] /\ dir' = [dir EXCEPT ![d] = backup.files]
      /\ process' = [process EXCEPT ![p] =
                        [Idle EXCEPT !.pc = "moving", !.command = "restore", !.staged = d, !.next = 1,
                                     !.name = restores + 1, !.before = at]]
      /\ UNCHANGED <<at, saved, interrupted, faults, logged>> /\ faults \in Nat
      /\ at \in Places
  BY <1>0, NextDatabaseIsFresh DEF BeginRestore, paths, TypeOK
<1>2. \A q \in Processes : process[q].pc = "idle" /\ process[q].open = 0 /\ process[q].staged = 0
  <2>1. \A q \in Processes : process[q].pc = "idle"
    BY DEF BeginRestore, Acquire, MayLock, Locked
  <2> QED
    BY <2>1 DEF Locked, Opened
<1>3. /\ process'[p].pc = "moving" /\ process'[p].staged = d /\ process'[p].next = 1
      /\ process'[p].name = restores + 1 /\ process'[p].before = at /\ process'[p].renamed = {}
      /\ process'[p].stuck = FALSE /\ process'[p].open = 0
  BY <1>1 DEF TypeOK, Idle
<1>4. \A q \in Processes : q # p => process'[q] = process[q]
  BY <1>1 DEF TypeOK
<1>5. Restores(p)' /\ \A q \in Processes : ~Restores(q) /\ (q # p => ~Restores(q)')
  BY <1>2, <1>3, <1>4 DEF Restores
<1>6. /\ content'[d] = copy /\ \A e \in Databases : e # d => content'[e] = content[e]
      /\ dir'[d] = backup.files /\ \A e \in Databases : e # d => dir'[e] = dir[e]
  BY <1>1 DEF TypeOK
<1>7. copy.rows = backup.database.rows /\ copy.missing = backup.database.rows \ backup.files
  <2>1. backup.database \in Database
    BY DEF TypeOK, Backup
  <2> QED
    BY <2>1 DEF Database
<1> HIDE DEF copy, backup
<1>8. Recovering'
  <2>1. \A r \in 1..MaxRestores : r > restores' => saved'[r] = NoPlaces
    BY <1>1 DEF Safe, Recovering
  <2>2. \A i \in 1..3 : saved'[restores + 1][Part(i)] = 0
    <3>1. saved[restores + 1] = NoPlaces
      BY <1>1, DatabaseFilesAssumption DEF Safe, Recovering
    <3> QED
      BY <1>1, <3>1 DEF Part, NoPlaces
  <2>3. Recoverable(p)'
    BY <1>1, <1>3, <2>2 DEF Recoverable
  <2> QED
    BY <1>5, <2>1, <2>3 DEF Recovering
<1>9. LogsCost'
  <2>1. at.wal # 0 => faults >= 1
    BY <1>2 DEF Safe, LogsCost
  <2>2. LogsStayWithTheirDatabase /\ LogsStayWithTheirDatabase'
    BY <1>1 DEF Safe, LogsCost, LogsStayWithTheirDatabase
  <2>3. LogCost(p)'
    BY <1>1, <1>3, <2>1, <2>2 DEF LogCost, HasLog, LogsStayWithTheirDatabase
  <2> QED
    BY <1>1, <1>5, <2>1, <2>2, <2>3 DEF LogsCost
<1>10. Together'
  <2>1. content'[d].rows \subseteq dir'[d] \cup content'[d].missing
    BY <1>6, <1>7
  <2>2. ~interrupted => at.wal \in {0, at.db} /\ RowsBelong(at)
    BY <1>5 DEF Safe, Together
  <2>3. at.db # d /\ at.uploads # d /\ (at.db # 0 => at.db \in Databases)
        /\ (at.uploads # 0 => at.uploads \in Databases)
    <3>1. content[d].state = "none" /\ at.uploads # d
      BY <1>1 DEF Fresh
    <3>2. at.db # 0 => content[at.db].state # "none"
      BY DEF InUse
    <3>3. at.db \in 0..MaxDatabases /\ at.uploads \in 0..MaxDatabases
      BY <1>1 DEF Places
    <3> QED
      BY <1>1, <3>1, <3>2, <3>3, DatabaseFilesAssumption DEF Databases
  <2>4. RowsBelong(at) => RowsBelong(at)'
    BY <1>1, <1>6, <2>3 DEF RowsBelong, FilesIn
  <2>5. ~interrupted' => process'[p].before.wal \in {0, process'[p].before.db} /\ RowsBelong(process[p].before)'
    BY <1>1, <1>3, <2>2, <2>4 DEF RowsBelong, FilesIn
  <2>6. Paired(p)'
    BY <1>3, <2>1, <2>5 DEF Paired
  <2> QED
    BY <1>5, <2>6 DEF Together
<1>11. NothingIsLost'
  <2>1. ASSUME NEW e \in Databases, \A q \in Processes : process'[q].staged # e
        PROVE  (content'[e].state # "none" => Kept(e, "db")') /\ (dir'[e] # {} => Kept(e, "uploads")')
    <3>1. e # d
      BY <1>3, <2>1
    <3>2. \A q \in Processes : process[q].staged # e
      BY <1>2, <2>1, DatabaseFilesAssumption DEF Databases
    <3> QED
      BY <1>1, <1>6, <3>1, <3>2 DEF Safe, NothingIsLost, Kept
  <2>2. ASSUME NEW e \in Databases, e \in logged', ~interrupted' PROVE Kept(e, "wal")'
    BY <1>1, <2>2 DEF Safe, NothingIsLost, Kept
  <2> QED
    BY <2>1, <2>2 DEF NothingIsLost
<1> QED
  BY <1>8, <1>9, <1>10, <1>11 DEF Safe

Parts == {"db", "wal", "uploads"}

\* Something is put at one of the paths, and something into its place among
\* the saved ones.
Placed(r, x, a, b) ==
    /\ at'[x] = a /\ saved'[r][x] = b
    /\ \A y \in Parts : y # x => at'[y] = at[y] /\ saved'[r][y] = saved[r][y]
    /\ \A k \in 1..MaxRestores : k # r => saved'[k] = saved[k]

\* How the moves and their undoing write it.
LEMMA PlacesThere ==
    ASSUME TypeOK, NEW r \in 1..MaxRestores, NEW x \in Parts, NEW a, NEW b,
           at' = [at EXCEPT ![x] = a],
           saved' = [saved EXCEPT ![r][x] = b] \/ (saved' = saved /\ b = saved[r][x])
    PROVE  Placed(r, x, a, b)
<1>1. at \in Places /\ saved[r] \in Places
  BY DEF TypeOK
<1>2. DOMAIN at = Parts /\ DOMAIN saved[r] = Parts
  BY <1>1 DEF Places, Parts
<1>3. at'[x] = a /\ \A y \in Parts : y # x => at'[y] = at[y]
  BY <1>2
<1>4. CASE saved' = saved /\ b = saved[r][x]
  BY <1>3, <1>4 DEF Placed
<1>5. CASE saved' = [saved EXCEPT ![r][x] = b]
  <2>1. saved'[r] = [saved[r] EXCEPT ![x] = b] /\ \A k \in 1..MaxRestores : k # r => saved'[k] = saved[k]
    BY <1>5 DEF TypeOK
  <2>2. saved'[r][x] = b /\ \A y \in Parts : y # x => saved'[r][y] = saved[r][y]
    BY <1>2, <2>1
  <2> QED
    BY <1>3, <2>1, <2>2 DEF Placed
<1> QED
  BY <1>4, <1>5

\* Nothing is lost by it when what was there is among the two, or is a copy.
LEMMA PlacesNothingAway ==
    ASSUME NothingIsLost, NEW p \in Processes, NEW r \in 1..MaxRestores, NEW x \in Parts, NEW a, NEW b,
           Placed(r, x, a, b), UNCHANGED <<content, dir, logged, interrupted>>,
           \A q \in Processes : process'[q].staged = process[q].staged,
           \A d \in Databases : at[x] = d => d \in {a, b} \/ (x # "wal" /\ d = process[p].staged),
           \A d \in Databases : saved[r][x] = d => d \in {a, b}
    PROVE  NothingIsLost'
<1>1. ASSUME NEW d \in Databases, NEW y \in Parts, y = "wal" \/ d # process[p].staged, Kept(d, y)
      PROVE  Kept(d, y)'
  <2>1. CASE y = x
    <3>1. CASE at[x] = d \/ saved[r][x] = d
      <4>1. at'[x] = d \/ saved'[r][x] = d
        BY <1>1, <2>1, <3>1 DEF Placed
      <4> QED
        BY <2>1, <4>1 DEF Kept
    <3>2. CASE ~(at[x] = d \/ saved[r][x] = d)
      <4>1. PICK k \in 1..MaxRestores : saved[k][x] = d /\ k # r
        BY <1>1, <2>1, <3>2 DEF Kept
      <4>2. saved'[k][x] = d
        BY <4>1 DEF Placed
      <4> QED
        BY <2>1, <4>2 DEF Kept
    <3> QED
      BY <3>1, <3>2
  <2>2. CASE y # x
    <3>1. at'[y] = at[y] /\ \A k \in 1..MaxRestores : saved'[k][y] = saved[k][y]
      BY <2>2 DEF Placed
    <3> QED
      BY <1>1, <3>1 DEF Kept
  <2> QED
    BY <2>1, <2>2
<1>2. ASSUME NEW d \in Databases, \A q \in Processes : process'[q].staged # d
      PROVE  (content'[d].state # "none" => Kept(d, "db")') /\ (dir'[d] # {} => Kept(d, "uploads")')
  <2>1. \A q \in Processes : process[q].staged # d
    BY <1>2
  <2>2. (content[d].state # "none" => Kept(d, "db")) /\ (dir[d] # {} => Kept(d, "uploads"))
    BY <2>1 DEF NothingIsLost
  <2>3. "db" \in Parts /\ "uploads" \in Parts
    BY DEF Parts
  <2> QED
    BY <1>1, <2>1, <2>2, <2>3
<1>3. ASSUME NEW d \in Databases, d \in logged', ~interrupted' PROVE Kept(d, "wal")'
  <2>1. Kept(d, "wal")
    BY <1>3 DEF NothingIsLost
  <2> QED
    BY <1>1, <2>1 DEF Parts
<1> QED
  BY <1>2, <1>3 DEF NothingIsLost

\* The restore that goes on is the only one.
LEMMA GoesOn ==
    ASSUME TypeOK, Locked, NEW p \in Processes, Restores(p),
           \A q \in Processes : q # p => process'[q] = process[q],
           process'[p].open = process[p].open, process'[p].staged = process[p].staged
    PROVE  /\ \A q \in Processes : q # p => ~Restores(q) /\ ~Restores(q)'
           /\ \A q \in Processes : process[q].open = 0 /\ process'[q].open = 0
                                   /\ process'[q].staged = process[q].staged
           /\ process[p].name \in 1..MaxRestores /\ process[p].staged \in Databases
<1>1. /\ \A q \in Processes : q # p => process[q].pc = "idle"
      /\ \A q \in Processes : process[q].open = 0
  BY RestoreIsAlone DEF Restores
<1>2. process[p].name \in 1..MaxRestores /\ process[p].staged \in Databases
  BY DEF Locked, Restores
<1>3. \A q \in Processes : q # p => process'[q].pc = "idle" /\ process'[q].open = 0
  BY <1>1
<1> QED
  BY <1>1, <1>2, <1>3 DEF Restores

\* What a move does, if anything.
LEMMA MoveDoes ==
    ASSUME TypeOK, Locked, NEW p \in Processes, Move(p), NEW c, c = process[p], NEW n, n = c.next
    PROVE  /\ c \in Process /\ c.pc = "moving" /\ n \in 1..5 /\ Part(n) \in Parts
           /\ c.name \in 1..MaxRestores /\ c.staged \in Databases
           /\ \A q \in Processes : q # p => process'[q] = process[q]
           /\ process'[p].pc = "moving" /\ process'[p].stuck = c.stuck /\ process'[p].next = n + 1
           /\ process'[p].staged = c.staged /\ process'[p].name = c.name
           /\ process'[p].before = c.before /\ process'[p].open = c.open
           /\ UNCHANGED <<interrupted, content, dir, restores, faults, logged>>
           /\ \/ /\ n <= 3 /\ at[Part(n)] = 0 /\ UNCHANGED <<at, saved>> /\ process'[p].renamed = c.renamed
              \/ /\ n <= 3 /\ Placed(c.name, Part(n), 0, at[Part(n)])
                 /\ at[Part(n)] # 0 /\ process'[p].renamed = c.renamed \cup {n}
              \/ /\ ~(n <= 3) /\ Placed(c.name, Part(n), c.staged, saved[c.name][Part(n)])
                 /\ process'[p].renamed = c.renamed \cup {n}
<1>1. /\ c \in Process /\ c.pc = "moving" /\ n \in 1..5
      /\ c.name \in 1..MaxRestores /\ c.staged \in Databases
  BY DEF Move, Locked, TypeOK, Process
<1>2. Part(n) \in Parts
  BY <1>1 DEF Part, Parts
<1>3. UNCHANGED <<interrupted, content, dir, restores, faults, logged>>
  BY DEF Move, data, count
<1>4. CASE Skips(n)
  <2>1. /\ process' = [process EXCEPT ![p].next = n + 1] /\ UNCHANGED <<at, saved>>
        /\ n <= 3 /\ at[Part(n)] = 0
    BY <1>4 DEF Move, Skips
  <2>2. /\ process'[p] = [c EXCEPT !.next = n + 1]
        /\ \A q \in Processes : q # p => process'[q] = process[q]
    BY <2>1 DEF TypeOK
  <2>3. /\ process'[p].pc = "moving" /\ process'[p].stuck = c.stuck /\ process'[p].next = n + 1
        /\ process'[p].staged = c.staged /\ process'[p].name = c.name
        /\ process'[p].before = c.before /\ process'[p].open = c.open /\ process'[p].renamed = c.renamed
    BY <1>1, <2>2 DEF Process
  <2> QED
    BY <1>1, <1>2, <1>3, <2>1, <2>2, <2>3
<1>5. CASE ~Skips(n)
  <2>1. process' = [process EXCEPT ![p].next = n + 1, ![p].renamed = @ \cup {n}] /\ Renames(p, n)
    BY <1>5 DEF Move
  <2>2. /\ process'[p] = [c EXCEPT !.next = n + 1, !.renamed = @ \cup {n}]
        /\ \A q \in Processes : q # p => process'[q] = process[q]
    BY <2>1 DEF TypeOK
  <2>3. /\ process'[p].pc = "moving" /\ process'[p].stuck = c.stuck /\ process'[p].next = n + 1
        /\ process'[p].staged = c.staged /\ process'[p].name = c.name
        /\ process'[p].before = c.before /\ process'[p].open = c.open
        /\ process'[p].renamed = c.renamed \cup {n}
    BY <1>1, <2>2 DEF Process
  <2>4. CASE n <= 3
    <3>1. /\ at' = [at EXCEPT ![Part(n)] = 0]
          /\ saved' = [saved EXCEPT ![c.name][Part(n)] = at[Part(n)]]
      BY <2>1, <2>4 DEF Renames, Recovery
    <3>2. Placed(c.name, Part(n), 0, at[Part(n)])
      BY <1>1, <1>2, <3>1, PlacesThere
    <3> QED
      BY <1>1, <1>2, <1>3, <1>5, <2>2, <2>3, <2>4, <3>2 DEF Skips
  <2>5. CASE ~(n <= 3)
    <3>1. at' = [at EXCEPT ![Part(n)] = c.staged] /\ saved' = saved
      BY <2>1, <2>5 DEF Renames
    <3>2. Placed(c.name, Part(n), c.staged, saved[c.name][Part(n)])
      BY <1>1, <1>2, <3>1, PlacesThere
    <3> QED
      BY <1>1, <1>2, <1>3, <2>2, <2>3, <2>5, <3>2
  <2> QED
    BY <2>4, <2>5
<1> QED
  BY <1>4, <1>5

\* A move keeps everything: what it moves away is saved where nothing was, and
\* a copy comes to where nothing is.
LEMMA MoveIsSafe ==
    ASSUME TypeOK, Locked, Undoable, Safe, NEW p \in Processes, Move(p)
    PROVE  Safe'
<1>0. PICK c : c = process[p]
  OBVIOUS
<1>1. PICK n : n = c.next
  OBVIOUS
<1>2. /\ c \in Process /\ c.pc = "moving" /\ n \in 1..5 /\ Part(n) \in Parts
      /\ c.name \in 1..MaxRestores /\ c.staged \in Databases
      /\ \A q \in Processes : q # p => process'[q] = process[q]
      /\ process'[p].pc = "moving" /\ process'[p].stuck = c.stuck /\ process'[p].next = n + 1
      /\ process'[p].staged = c.staged /\ process'[p].name = c.name
      /\ process'[p].before = c.before /\ process'[p].open = c.open
      /\ UNCHANGED <<interrupted, content, dir, restores, faults, logged>>
      /\ \/ /\ n <= 3 /\ at[Part(n)] = 0 /\ UNCHANGED <<at, saved>> /\ process'[p].renamed = c.renamed
         \/ /\ n <= 3 /\ Placed(c.name, Part(n), 0, at[Part(n)])
            /\ at[Part(n)] # 0 /\ process'[p].renamed = c.renamed \cup {n}
         \/ /\ ~(n <= 3) /\ Placed(c.name, Part(n), c.staged, saved[c.name][Part(n)])
            /\ process'[p].renamed = c.renamed \cup {n}
  BY <1>0, <1>1, MoveDoes
<1>3. Restores(p) /\ Restores(p)' /\ c.renamed \subseteq 1..5
  BY <1>0, <1>2 DEF Restores, Process
<1>4. /\ \A q \in Processes : q # p => ~Restores(q) /\ ~Restores(q)'
      /\ \A q \in Processes : process[q].open = 0 /\ process'[q].open = 0
                              /\ process'[q].staged = process[q].staged
  BY <1>0, <1>2, <1>3, GoesOn
<1>5. \/ /\ n <= 3 /\ at[Part(n)] = 0 /\ UNCHANGED <<at, saved>> /\ process'[p].renamed = c.renamed
      \/ /\ process'[p].renamed = c.renamed \cup {n}
         /\ \/ /\ n = 1 /\ at'.db = 0 /\ at.db # 0 /\ at'.wal = at.wal /\ at'.uploads = at.uploads
            \/ /\ n = 2 /\ at'.wal = 0 /\ at.wal # 0 /\ at'.db = at.db /\ at'.uploads = at.uploads
            \/ /\ n = 3 /\ at'.uploads = 0 /\ at.uploads # 0 /\ at'.db = at.db /\ at'.wal = at.wal
            \/ /\ n = 4 /\ at'.db = c.staged /\ at'.wal = at.wal /\ at'.uploads = at.uploads
            \/ /\ n = 5 /\ at'.uploads = c.staged /\ at'.db = at.db /\ at'.wal = at.wal
  BY <1>2 DEF Placed, Part, Parts
<1>6. /\ ~c.stuck /\ \A i \in c.renamed : i < n
      /\ Left(p, "db", 1, 4) /\ Left(p, "wal", 2, 0) /\ Left(p, "uploads", 3, 5)
  <2>1. process[p].pc = "moving"
    BY <1>0, <1>2
  <2>2. ~process[p].stuck /\ \A i \in process[p].renamed : i < process[p].next
    BY <2>1 DEF Undoable
  <2>3. Left(p, "db", 1, 4) /\ Left(p, "wal", 2, 0) /\ Left(p, "uploads", 3, 5)
    BY <2>1, <2>2 DEF Undoable
  <2> QED
    BY <1>0, <1>1, <2>2, <2>3
<1>7. 4 <= n => at.wal = 0 /\ at.db \in {0, c.staged} /\ (2 \in c.renamed \/ c.before.wal = 0)
  BY <1>0, <1>1, <1>2, <1>3, <1>6 DEF Left
<1>8. (n = 4 => at.db = 0) /\ (n = 5 => at.uploads = 0)
  BY <1>0, <1>1, <1>2, <1>3, <1>6 DEF Left
<1>9. Recoverable(p) /\ LogCost(p) /\ Paired(p)
  BY <1>3 DEF Safe, Recovering, LogsCost, Together
<1>10. Recovering'
  <2>1. \A r \in 1..MaxRestores : r > restores' => saved'[r] = NoPlaces
    <3>1. c.name = restores
      BY <1>0, <1>9 DEF Recoverable
    <3>2. \A r \in 1..MaxRestores : r # c.name => saved'[r] = saved[r]
      BY <1>2 DEF Placed
    <3>3. restores \in Nat
      BY DEF TypeOK
    <3> QED
      BY <1>2, <3>1, <3>2, <3>3 DEF Safe, Recovering
  <2>2. \A i \in 1..3 : n + 1 <= i => saved'[c.name][Part(i)] = 0
    <3> SUFFICES ASSUME NEW i \in 1..3, n + 1 <= i PROVE saved'[c.name][Part(i)] = 0
      OBVIOUS
    <3>1. saved[c.name][Part(i)] = 0
      BY <1>0, <1>1, <1>2, <1>9 DEF Recoverable
    <3>2. Part(i) # Part(n) /\ Part(i) \in Parts /\ n <= 3
      BY <1>2 DEF Part, Parts
    <3> QED
      BY <1>2, <3>1, <3>2 DEF Placed
  <2>3. /\ 1 \in process'[p].renamed => at'.db \in {0, c.staged}
        /\ 2 \in process'[p].renamed => at'.wal = 0
        /\ 3 \in process'[p].renamed => at'.uploads \in {0, c.staged}
        /\ 4 \in process'[p].renamed => at'.db = c.staged /\ (2 \in process'[p].renamed \/ c.before.wal = 0)
        /\ 5 \in process'[p].renamed => at'.uploads = c.staged
    BY <1>0, <1>2, <1>5, <1>6, <1>7, <1>9 DEF Recoverable
  <2>4. \A i \in 4..5 : i < n + 1 => i \in process'[p].renamed
    BY <1>0, <1>1, <1>2, <1>5, <1>9 DEF Recoverable
  <2>5. Recoverable(p)'
    BY <1>0, <1>2, <1>6, <1>9, <2>2, <2>3, <2>4 DEF Recoverable
  <2> QED
    BY <1>4, <2>1, <2>5 DEF Recovering
<1>11. LogsCost'
  <2>1. HasLog(p)' => HasLog(p)
    BY <1>0, <1>2, <1>5 DEF HasLog
  <2>2. at'.wal # 0 => at.wal # 0
    BY <1>5
  <2>3. LogCost(p)'
    BY <1>0, <1>2, <1>6, <1>9, <2>1 DEF LogCost
  <2>4. LogsStayWithTheirDatabase'
    BY <1>2, <1>5, <1>7 DEF Safe, LogsCost, LogsStayWithTheirDatabase
  <2> QED
    BY <1>2, <1>4, <2>2, <2>3, <2>4 DEF Safe, LogsCost
<1>12. Together'
  <2>1. Paired(p)'
    BY <1>0, <1>2, <1>9 DEF Paired, RowsBelong, FilesIn
  <2> QED
    BY <1>3, <1>4, <2>1 DEF Together
<1>13. NothingIsLost'
  <2>1. CASE UNCHANGED <<at, saved>>
    BY <1>2, <1>4, <2>1 DEF Safe, NothingIsLost, Kept
  <2>2. CASE n <= 3 /\ Placed(c.name, Part(n), 0, at[Part(n)])
    <3>1. saved[c.name][Part(n)] = 0
      BY <1>0, <1>1, <1>2, <1>9, <2>2 DEF Recoverable
    <3> QED
      BY <1>2, <1>4, <2>2, <3>1, PlacesNothingAway DEF Safe
  <2>3. CASE ~(n <= 3) /\ Placed(c.name, Part(n), c.staged, saved[c.name][Part(n)])
    <3>1. at[Part(n)] = 0 /\ \A d \in Databases : d # 0
      BY <1>2, <1>8, <2>3, DatabaseFilesAssumption DEF Part, Databases
    <3> QED
      BY <1>2, <1>4, <2>3, <3>1, PlacesNothingAway DEF Safe
  <2> QED
    BY <1>2, <2>1, <2>2, <2>3
<1> QED
  BY <1>10, <1>11, <1>12, <1>13 DEF Safe

\* What the undoing of a rename does.
LEMMA RollbackDoes ==
    ASSUME TypeOK, Locked, NEW p \in Processes, Rollback(p), NEW c, c = process[p], NEW n, n = LastRenamed(p)
    PROVE  /\ c \in Process /\ c.pc = "rollback" /\ n \in c.renamed /\ n \in 1..5 /\ Part(n) \in Parts
           /\ \A j \in c.renamed : j <= n
           /\ c.name \in 1..MaxRestores /\ c.staged \in Databases
           /\ \A q \in Processes : q # p => process'[q] = process[q]
           /\ process'[p].pc = "rollback" /\ process'[p].stuck = c.stuck /\ process'[p].next = c.next
           /\ process'[p].staged = c.staged /\ process'[p].name = c.name
           /\ process'[p].before = c.before /\ process'[p].open = c.open
           /\ process'[p].renamed = c.renamed \ {n}
           /\ UNCHANGED <<interrupted, content, dir, restores, faults, logged>>
           /\ \/ n <= 3 /\ Placed(c.name, Part(n), saved[c.name][Part(n)], 0)
              \/ ~(n <= 3) /\ Placed(c.name, Part(n), 0, saved[c.name][Part(n)])
<1>1. /\ c \in Process /\ c.pc = "rollback" /\ n \in c.renamed /\ n \in 1..5 /\ \A j \in c.renamed : j <= n
      /\ c.name \in 1..MaxRestores /\ c.staged \in Databases
  BY LastRenamedIsOne DEF Rollback, Locked, TypeOK
<1>2. Part(n) \in Parts
  BY <1>1 DEF Part, Parts
<1>3. UNCHANGED <<interrupted, content, dir, restores, faults, logged>>
  BY DEF Rollback, data, count
<1>4. /\ process'[p] = [c EXCEPT !.renamed = @ \ {n}] /\ Undoes(p, n)
      /\ \A q \in Processes : q # p => process'[q] = process[q]
  BY DEF Rollback, TypeOK
<1>5. /\ process'[p].pc = "rollback" /\ process'[p].stuck = c.stuck /\ process'[p].next = c.next
      /\ process'[p].staged = c.staged /\ process'[p].name = c.name
      /\ process'[p].before = c.before /\ process'[p].open = c.open
      /\ process'[p].renamed = c.renamed \ {n}
  BY <1>1, <1>4 DEF Process
<1>6. CASE n <= 3
  <2>1. /\ at' = [at EXCEPT ![Part(n)] = saved[c.name][Part(n)]]
        /\ saved' = [saved EXCEPT ![c.name][Part(n)] = 0]
    BY <1>4, <1>6 DEF Undoes, Recovery
  <2>2. Placed(c.name, Part(n), saved[c.name][Part(n)], 0)
    BY <1>1, <1>2, <2>1, PlacesThere
  <2> QED
    BY <1>1, <1>2, <1>3, <1>4, <1>5, <1>6, <2>2
<1>7. CASE ~(n <= 3)
  <2>1. at' = [at EXCEPT ![Part(n)] = 0] /\ saved' = saved
    BY <1>4, <1>7 DEF Undoes
  <2>2. Placed(c.name, Part(n), 0, saved[c.name][Part(n)])
    BY <1>1, <1>2, <2>1, PlacesThere
  <2> QED
    BY <1>1, <1>2, <1>3, <1>4, <1>5, <1>7, <2>2
<1> QED
  BY <1>6, <1>7

\* The undoing of a rename keeps everything: only the copy is moved away.
LEMMA RollbackIsSafe ==
    ASSUME TypeOK, Locked, Undoable, Safe, NEW p \in Processes, Rollback(p)
    PROVE  Safe'
<1>0. PICK c : c = process[p]
  OBVIOUS
<1>1. PICK n : n = LastRenamed(p)
  OBVIOUS
<1>2. /\ c \in Process /\ c.pc = "rollback" /\ n \in c.renamed /\ n \in 1..5 /\ Part(n) \in Parts
      /\ \A j \in c.renamed : j <= n
      /\ c.name \in 1..MaxRestores /\ c.staged \in Databases
      /\ \A q \in Processes : q # p => process'[q] = process[q]
      /\ process'[p].pc = "rollback" /\ process'[p].stuck = c.stuck /\ process'[p].next = c.next
      /\ process'[p].staged = c.staged /\ process'[p].name = c.name
      /\ process'[p].before = c.before /\ process'[p].open = c.open
      /\ process'[p].renamed = c.renamed \ {n}
      /\ UNCHANGED <<interrupted, content, dir, restores, faults, logged>>
      /\ \/ n <= 3 /\ Placed(c.name, Part(n), saved[c.name][Part(n)], 0)
         \/ ~(n <= 3) /\ Placed(c.name, Part(n), 0, saved[c.name][Part(n)])
  BY <1>0, <1>1, RollbackDoes
<1>3. Restores(p) /\ Restores(p)' /\ c.renamed \subseteq 1..5
  BY <1>0, <1>2 DEF Restores, Process
<1>4. /\ \A q \in Processes : q # p => ~Restores(q) /\ ~Restores(q)'
      /\ \A q \in Processes : process[q].open = 0 /\ process'[q].open = 0
                              /\ process'[q].staged = process[q].staged
  BY <1>0, <1>2, <1>3, GoesOn
<1>5. \/ n = 1 /\ at'.db = saved[c.name].db /\ at'.wal = at.wal /\ at'.uploads = at.uploads
      \/ n = 2 /\ at'.wal = saved[c.name].wal /\ at'.db = at.db /\ at'.uploads = at.uploads
      \/ n = 3 /\ at'.uploads = saved[c.name].uploads /\ at'.db = at.db /\ at'.wal = at.wal
      \/ n = 4 /\ at'.db = 0 /\ at'.wal = at.wal /\ at'.uploads = at.uploads
      \/ n = 5 /\ at'.uploads = 0 /\ at'.db = at.db /\ at'.wal = at.wal
  BY <1>2 DEF Placed, Part, Parts
<1>6. ~c.stuck => Left(p, "db", 1, 4) /\ Left(p, "wal", 2, 0) /\ Left(p, "uploads", 3, 5)
  <2>1. process[p].pc = "rollback"
    BY <1>0, <1>2
  <2>2. ~process[p].stuck => Left(p, "db", 1, 4) /\ Left(p, "wal", 2, 0) /\ Left(p, "uploads", 3, 5)
    BY <2>1 DEF Undoable
  <2> QED
    BY <1>0, <2>2
<1>7. Recoverable(p) /\ LogCost(p) /\ Paired(p)
  BY <1>3 DEF Safe, Recovering, LogsCost, Together
<1>8. (n <= 4 => 5 \notin c.renamed) /\ (n <= 3 => 4 \notin c.renamed) /\ (n <= 2 => 3 \notin c.renamed)
      /\ (n <= 1 => 2 \notin c.renamed) /\ 0 \notin c.renamed
  BY <1>2, <1>3
<1>9. Recovering'
  <2>1. \A r \in 1..MaxRestores : r > restores' => saved'[r] = NoPlaces
    <3>1. c.name = restores
      BY <1>0, <1>7 DEF Recoverable
    <3>2. \A r \in 1..MaxRestores : r # c.name => saved'[r] = saved[r]
      BY <1>2 DEF Placed
    <3>3. restores \in Nat
      BY DEF TypeOK
    <3> QED
      BY <1>2, <3>1, <3>2, <3>3 DEF Safe, Recovering
  <2>2. /\ 1 \in process'[p].renamed => at'.db \in {0, c.staged}
        /\ 2 \in process'[p].renamed => at'.wal = 0
        /\ 3 \in process'[p].renamed => at'.uploads \in {0, c.staged}
        /\ 4 \in process'[p].renamed => at'.db = c.staged /\ (2 \in process'[p].renamed \/ c.before.wal = 0)
        /\ 5 \in process'[p].renamed => at'.uploads = c.staged
    BY <1>0, <1>2, <1>5, <1>7, <1>8 DEF Recoverable
  <2>3. Recoverable(p)'
    BY <1>0, <1>2, <1>7, <2>2 DEF Recoverable
  <2> QED
    BY <1>4, <2>1, <2>3 DEF Recovering
<1>10. LogsCost'
  <2>1. HasLog(p)' => HasLog(p)
    BY <1>0, <1>2, <1>5 DEF HasLog
  <2>2. at'.wal # 0 => faults >= 1
    BY <1>0, <1>2, <1>5, <1>7 DEF LogCost, HasLog
  <2>3. LogCost(p)'
    BY <1>0, <1>2, <1>7, <2>1 DEF LogCost
  <2>4. LogsStayWithTheirDatabase'
    <3> SUFFICES ASSUME faults < 3 PROVE at'.wal \in {0, at'.db} \/ at'.db = 0
      BY <1>2 DEF LogsStayWithTheirDatabase
    <3>0. at.wal \in {0, at.db} \/ at.db = 0
      BY DEF Safe, LogsCost, LogsStayWithTheirDatabase
    <3>00. faults \in Nat /\ (c.before.wal \in {0, c.before.db} \/ c.before.db = 0)
      BY <1>0, <1>7 DEF LogCost, TypeOK
    <3>1. CASE n >= 3
      BY <1>2, <1>5, <3>0, <3>1
    <3>2. CASE n = 2
      <4>1. ~c.stuck
        BY <1>0, <1>2, <1>7, <3>00, <3>2 DEF LogCost, HasLog
      <4>2. saved[c.name].wal = c.before.wal /\ at.db \in {0, c.before.db}
        BY <1>0, <1>2, <1>6, <1>8, <3>2, <4>1 DEF Left
      <4>3. at'.wal = c.before.wal /\ at'.db = at.db
        BY <1>5, <3>2, <4>2
      <4> QED
        BY <3>00, <4>2, <4>3
    <3>3. CASE n = 1
      <4>1. CASE c.stuck
        <5>1. at.wal = 0
          BY <1>0, <1>7, <3>00, <4>1 DEF LogCost, HasLog
        <5> QED
          BY <1>5, <3>3, <5>1
      <4>2. CASE ~c.stuck
        <5>1. saved[c.name].db = c.before.db /\ at.wal = c.before.wal
          BY <1>0, <1>2, <1>6, <1>8, <3>3, <4>2 DEF Left
        <5> QED
          BY <1>5, <3>00, <3>3, <5>1
      <4> QED
        BY <4>1, <4>2
    <3> QED
      BY <1>2, <3>1, <3>2, <3>3
  <2> QED
    BY <1>2, <1>4, <2>2, <2>3, <2>4 DEF LogsCost
<1>11. Together'
  <2>1. Paired(p)'
    BY <1>0, <1>2, <1>7 DEF Paired, RowsBelong, FilesIn
  <2> QED
    BY <1>3, <1>4, <2>1 DEF Together
<1>12. NothingIsLost'
  <2>0. \A d \in Databases : d # 0
    BY DatabaseFilesAssumption DEF Databases
  <2>1. CASE n <= 3 /\ Placed(c.name, Part(n), saved[c.name][Part(n)], 0)
    <3>1. \A d \in Databases : at[Part(n)] = d => Part(n) # "wal" /\ d = c.staged
      BY <1>0, <1>2, <1>7, <2>0, <2>1 DEF Recoverable, Part
    <3> QED
      BY <1>0, <1>2, <1>4, <2>1, <3>1, PlacesNothingAway DEF Safe
  <2>2. CASE ~(n <= 3) /\ Placed(c.name, Part(n), 0, saved[c.name][Part(n)])
    <3>1. \A d \in Databases : at[Part(n)] = d => Part(n) # "wal" /\ d = c.staged
      BY <1>0, <1>2, <1>7, <2>2 DEF Recoverable, Part
    <3> QED
      BY <1>0, <1>2, <1>4, <2>2, <3>1, PlacesNothingAway DEF Safe
  <2> QED
    BY <1>2, <2>1, <2>2
<1> QED
  BY <1>9, <1>10, <1>11, <1>12 DEF Safe

\* A move fails, or the undoing of one: nothing is moved.
LEMMA FailureIsSafe ==
    ASSUME TypeOK, Locked, Undoable, Safe, NEW p \in Processes, MoveFails(p) \/ RollbackFails(p)
    PROVE  Safe'
<1>0. PICK c : c = process[p]
  OBVIOUS
<1>1. /\ c \in Process /\ faults' = faults + 1 /\ faults \in Nat /\ Restores(p)
      /\ UNCHANGED <<at, saved, content, dir, restores, logged>>
      /\ c.renamed \subseteq 1..5
  <2>1. UNCHANGED <<at, saved, content, dir, restores, logged>>
    BY DEF MoveFails, RollbackFails, paths, data
  <2> QED
    BY <1>0, <2>1 DEF MoveFails, RollbackFails, Restores, TypeOK, Process
<1>2. /\ process'[p].pc = "rollback" /\ process'[p].next = c.next /\ c.next <= 5
      /\ process'[p].staged = c.staged /\ process'[p].name = c.name
      /\ process'[p].before = c.before /\ process'[p].open = c.open
      /\ \A q \in Processes : q # p => process'[q] = process[q]
      /\ \/ /\ process'[p].stuck = c.stuck /\ process'[p].renamed = c.renamed /\ ~c.stuck
            /\ interrupted' = interrupted
         \/ /\ process'[p].stuck /\ interrupted' = TRUE /\ c.pc = "rollback"
            /\ \E n \in 1..5 : process'[p].renamed = c.renamed \ {n} /\ \A j \in c.renamed : j <= n
  <2>1. CASE MoveFails(p)
    <3>1. process'[p] = [c EXCEPT !.pc = "rollback"] /\ \A q \in Processes : q # p => process'[q] = process[q]
      BY <1>0, <2>1 DEF MoveFails, Goes, TypeOK
    <3>2. c.next <= 5 /\ interrupted' = interrupted /\ c.pc = "moving"
      BY <1>0, <2>1 DEF MoveFails, paths
    <3>3. ~c.stuck
      BY <1>0, <3>2 DEF Undoable
    <3> QED
      BY <1>1, <3>1, <3>2, <3>3 DEF Process
  <2>2. CASE RollbackFails(p)
    <3>1. PICK n : n = LastRenamed(p)
      OBVIOUS
    <3>2. n \in 1..5 /\ \A j \in c.renamed : j <= n
      BY <1>0, <2>2, <3>1, LastRenamedIsOne DEF RollbackFails
    <3>3. /\ process'[p] = [c EXCEPT !.renamed = @ \ {n}, !.stuck = TRUE]
          /\ \A q \in Processes : q # p => process'[q] = process[q]
      BY <1>0, <2>2, <3>1 DEF RollbackFails, TypeOK
    <3>4. c.pc = "rollback" /\ interrupted' = TRUE
      BY <1>0, <2>2 DEF RollbackFails
    <3>5. c.next <= 5
      <4>1. Recoverable(p)
        BY <1>1 DEF Safe, Recovering
      <4> QED
        BY <1>0, <3>4, <4>1 DEF Recoverable
    <3>6. /\ process'[p].pc = "rollback" /\ process'[p].next = c.next
          /\ process'[p].staged = c.staged /\ process'[p].name = c.name
          /\ process'[p].before = c.before /\ process'[p].open = c.open
          /\ process'[p].stuck = TRUE /\ process'[p].renamed = c.renamed \ {n}
      BY <1>1, <3>3, <3>4 DEF Process
    <3> QED
      BY <3>2, <3>3, <3>4, <3>5, <3>6
  <2> QED
    BY <2>1, <2>2
<1>3. /\ \A q \in Processes : q # p => ~Restores(q) /\ ~Restores(q)'
      /\ \A q \in Processes : process[q].open = 0 /\ process'[q].open = 0
                              /\ process'[q].staged = process[q].staged
  BY <1>0, <1>1, <1>2, GoesOn
<1>4. Recoverable(p) /\ LogCost(p) /\ Paired(p)
  BY <1>1 DEF Safe, Recovering, LogsCost, Together
<1>5. Recovering'
  <2>1. /\ process'[p].renamed \subseteq c.renamed
        /\ 4 \in process'[p].renamed /\ 2 \in c.renamed => 2 \in process'[p].renamed
    BY <1>1, <1>2
  <2>2. Recoverable(p)'
    BY <1>0, <1>1, <1>2, <1>4, <2>1 DEF Recoverable
  <2> QED
    BY <1>1, <1>3, <2>2 DEF Safe, Recovering
<1>6. LogsCost'
  <2>1. HasLog(p)' => HasLog(p)
    BY <1>0, <1>1, <1>2 DEF HasLog
  <2>2. LogCost(p)'
    BY <1>0, <1>1, <1>2, <1>4, <2>1 DEF LogCost, Restores
  <2>3. LogsStayWithTheirDatabase'
    BY <1>1 DEF Safe, LogsCost, LogsStayWithTheirDatabase
  <2> QED
    BY <1>1, <1>3, <2>2, <2>3 DEF Safe, LogsCost
<1>7. Together'
  <2>1. Paired(p)'
    BY <1>0, <1>1, <1>2, <1>4 DEF Paired, RowsBelong, FilesIn
  <2>2. Restores(p)'
    BY <1>2 DEF Restores
  <2> QED
    BY <1>3, <2>1, <2>2 DEF Together
<1>8. NothingIsLost'
  BY <1>1, <1>2, <1>3 DEF Safe, NothingIsLost, Kept
<1> QED
  BY <1>5, <1>6, <1>7, <1>8 DEF Safe

\* What is at the paths when a restore is over, or stopped with nothing moved:
\* what was there before it, or the copy.
LEMMA OverOrNothingMoved ==
    ASSUME TypeOK, Locked, Undoable, Safe, NEW p \in Processes, Restores(p), ~interrupted,
           process[p].renamed = {} \/ (process[p].pc = "moving" /\ process[p].next = 6)
    PROVE  at.wal \in {0, at.db} /\ RowsBelong(at)
<1>0. PICK c : c = process[p]
  OBVIOUS
<1>1. /\ c \in Process /\ at \in Places /\ c.before \in Places /\ c.renamed \subseteq 1..5
      /\ c.staged \in Databases
  BY <1>0 DEF TypeOK, Process, Locked, Restores
<1>2. Recoverable(p) /\ Paired(p)
  BY DEF Safe, Recovering, Together
<1>3. ~c.stuck
  BY <1>0, <1>2 DEF Recoverable
<1>4. Left(p, "db", 1, 4) /\ Left(p, "wal", 2, 0) /\ Left(p, "uploads", 3, 5)
  <2>1. process[p].pc \in {"moving", "rollback"} /\ ~process[p].stuck
    BY <1>0, <1>3 DEF Restores
  <2> QED
    BY <2>1 DEF Undoable
<1>5. CASE c.renamed = {}
  <2>1. at["db"] = c.before["db"] /\ at["wal"] = c.before["wal"] /\ at["uploads"] = c.before["uploads"]
    BY <1>0, <1>4, <1>5 DEF Left
  <2>2. at = c.before
    BY <1>1, <2>1 DEF Places
  <2> QED
    BY <1>0, <1>2, <2>2 DEF Paired
<1>6. CASE c.pc = "moving" /\ c.next = 6
  <2>1. 4 \in c.renamed /\ 5 \in c.renamed
    BY <1>0, <1>2, <1>6 DEF Recoverable
  <2>2. at.db = c.staged /\ at.uploads = c.staged /\ c.staged # 0
    BY <1>0, <1>1, <1>2, <2>1, DatabaseFilesAssumption DEF Recoverable, Databases
  <2>3. at.wal = 0
    BY <1>0, <1>1, <1>4, <1>6 DEF Left
  <2>4. RowsBelong(at)
    BY <1>0, <1>2, <2>2 DEF Paired, RowsBelong, FilesIn
  <2> QED
    BY <2>3, <2>4
<1> QED
  BY <1>0, <1>5, <1>6

\* A restore is over, or stops: the copies that are not in use are no loss.
LEMMA OverIsSafe ==
    ASSUME TypeOK, Locked, Undoable, Safe, NEW p \in Processes, Restores(p),
           EndRestore(p) \/ Crash(p)
    PROVE  Safe'
<1>0. PICK s : s = process[p].staged
  OBVIOUS
<1>1. /\ s \in Databases /\ at \in Places /\ faults \in Nat /\ s # 0
      /\ content \in [Databases -> Database] /\ dir \in [Databases -> SUBSET Keys]
  BY <1>0, DatabaseFilesAssumption DEF TypeOK, Locked, Restores, Databases
<1>2. /\ content' = IF at.db = s THEN content ELSE [content EXCEPT ![s] = NoDatabase]
      /\ dir' = IF at.uploads = s THEN dir ELSE [dir EXCEPT ![s] = {}]
  BY <1>0, <1>1 DEF EndRestore, Crash, DiscardCopies
<1>3. /\ UNCHANGED <<at, saved, restores, logged>> /\ faults' \in Nat /\ faults' >= faults
      /\ interrupted => interrupted'
      /\ process'[p] \in {Idle, [Idle EXCEPT !.pc = "closed"]}
      /\ \A q \in Processes : q # p => process'[q] = process[q]
  <2>1. CASE EndRestore(p)
    BY <1>1, <2>1 DEF EndRestore, paths, count, TypeOK
  <2>2. CASE Crash(p)
    BY <1>1, <2>2 DEF Crash, TypeOK
  <2> QED
    BY <2>1, <2>2
<1>4. /\ process'[p].pc \in {"idle", "closed"} /\ process'[p].open = 0 /\ process'[p].staged = 0
  BY <1>3, IdleHasNothing
<1>5. /\ \A q \in Processes : q # p => process[q].pc = "idle" /\ process[q].staged = 0
      /\ \A q \in Processes : process[q].open = 0
  <2>1. /\ \A q \in Processes : q # p => process[q].pc = "idle"
        /\ \A q \in Processes : process[q].open = 0
    BY RestoreIsAlone DEF Restores
  <2> QED
    BY <2>1 DEF Locked
<1>6. \A q \in Processes : ~Restores(q)' /\ process'[q].staged = 0 /\ process'[q].open = 0
  BY <1>3, <1>4, <1>5 DEF Restores
<1>7. Recovering'
  BY <1>3, <1>6 DEF Safe, Recovering
<1>8. LogsCost'
  <2>1. at'.wal # 0 => faults' >= 1
    BY <1>1, <1>3, <1>5 DEF Safe, LogsCost
  <2>2. LogsStayWithTheirDatabase'
    BY <1>1, <1>3 DEF Safe, LogsCost, LogsStayWithTheirDatabase
  <2> QED
    BY <1>6, <2>1, <2>2 DEF LogsCost
<1>9. Together'
  <2> SUFFICES ASSUME ~interrupted' PROVE at'.wal \in {0, at'.db} /\ RowsBelong(at)'
    BY <1>6 DEF Together
  <2>1. process[p].renamed = {} \/ (process[p].pc = "moving" /\ process[p].next = 6)
    <3>1. CASE EndRestore(p)
      BY <3>1 DEF EndRestore, RestoreEnds
    <3>2. CASE Crash(p)
      <4>1. process[p].renamed = {} \/ process[p].next = 6
        BY <3>2 DEF Crash
      <4>2. Recoverable(p)
        BY DEF Safe, Recovering
      <4>3. process[p].pc = "rollback" => process[p].next <= 5
        BY <4>2 DEF Recoverable
      <4> QED
        BY <4>1, <4>3 DEF Restores
    <3> QED
      BY <3>1, <3>2
  <2>2. at.wal \in {0, at.db} /\ RowsBelong(at)
    BY <1>3, <2>1, OverOrNothingMoved
  <2>3. /\ at.db \in Databases => content'[at.db] = content[at.db]
        /\ at.uploads \in Databases => dir'[at.uploads] = dir[at.uploads]
    BY <1>1, <1>2
  <2>4. (at.db # 0 => at.db \in Databases) /\ (at.uploads # 0 => at.uploads \in Databases)
    BY <1>1, DatabaseFilesAssumption DEF Places, Databases
  <2> QED
    BY <1>3, <2>2, <2>3, <2>4 DEF RowsBelong, FilesIn
<1>10. NothingIsLost'
  <2>1. ASSUME NEW d \in Databases
        PROVE  (content'[d].state # "none" => Kept(d, "db")') /\ (dir'[d] # {} => Kept(d, "uploads")')
    <3>1. CASE d = s
      <4>1. content'[d].state # "none" => at.db = d
        BY <1>1, <1>2, <3>1 DEF NoDatabase
      <4>2. dir'[d] # {} => at.uploads = d
        BY <1>1, <1>2, <3>1
      <4> QED
        BY <1>3, <4>1, <4>2 DEF Kept
    <3>2. CASE d # s
      <4>1. content'[d] = content[d] /\ dir'[d] = dir[d]
        BY <1>1, <1>2, <3>2
      <4>2. \A q \in Processes : process[q].staged # d
        BY <1>0, <1>5, <3>2, DatabaseFilesAssumption DEF Databases
      <4> QED
        BY <1>3, <4>1, <4>2 DEF Safe, NothingIsLost, Kept
    <3> QED
      BY <3>1, <3>2
  <2>2. ASSUME NEW d \in Databases, d \in logged', ~interrupted' PROVE Kept(d, "wal")'
    BY <1>3, <2>2 DEF Safe, NothingIsLost, Kept
  <2> QED
    BY <2>1, <2>2 DEF NothingIsLost
<1> QED
  BY <1>7, <1>8, <1>9, <1>10 DEF Safe

\* An installation begins with nothing to lose, ...
LEMMA InitSafe == Init => Safe
<1> SUFFICES ASSUME Init PROVE Safe
  OBVIOUS
<1>1. /\ \A p \in Processes : process[p] = Idle
      /\ \A r \in 1..MaxRestores : saved[r] = NoPlaces
      /\ faults = 0 /\ logged = {} /\ restores = 0 /\ interrupted = FALSE
      /\ \A d \in Databases : dir[d] = {}
  BY DEF Init
<1>2. \A p \in Processes : ~Restores(p)
  BY <1>1, IdleHasNothing DEF Restores
<1>3. /\ at.wal = 0 /\ at.db \in {0, 1} /\ (at.db = 1 => content[1].rows = {})
      /\ \A d \in Databases : content[d].state # "none" => at.db = d
  <2>1. CASE at = NoPlaces /\ content = [d \in Databases |-> NoDatabase]
    BY <2>1 DEF NoPlaces, NoDatabase
  <2>2. CASE \E seen \in Histories, refuses \in SUBSET Versions :
                /\ at = [NoPlaces EXCEPT !.db = 1]
                /\ content = [d \in Databases |->
                                IF d = 1 THEN [NoDatabase EXCEPT !.state = "live", !.applied = seen,
                                                                 !.first = seen, !.refuses = refuses]
                                ELSE NoDatabase]
    <3>1. PICK seen \in Histories, refuses \in SUBSET Versions :
                /\ at = [NoPlaces EXCEPT !.db = 1]
                /\ content = [d \in Databases |->
                                IF d = 1 THEN [NoDatabase EXCEPT !.state = "live", !.applied = seen,
                                                                 !.first = seen, !.refuses = refuses]
                                ELSE NoDatabase]
      BY <2>2
    <3>2. at.wal = 0 /\ at.db = 1
      BY <3>1 DEF NoPlaces
    <3>3. 1 \in Databases
      BY DatabaseFilesAssumption DEF Databases
    <3>4. content[1].rows = {}
      BY <3>1, <3>3 DEF NoDatabase
    <3>5. \A d \in Databases : d # 1 => content[d].state = "none"
      BY <3>1 DEF NoDatabase
    <3> QED
      BY <3>2, <3>4, <3>5
  <2> QED
    BY <2>1, <2>2 DEF Init
<1>4. Recovering
  BY <1>1, <1>2 DEF Recovering
<1>5. LogsCost
  BY <1>2, <1>3 DEF LogsCost, LogsStayWithTheirDatabase
<1>6. Together
  BY <1>2, <1>3 DEF Together, RowsBelong
<1>7. NothingIsLost
  BY <1>1, <1>3 DEF NothingIsLost, Kept
<1> QED
  BY <1>4, <1>5, <1>6, <1>7 DEF Safe

\* ... no step loses anything or mixes it up, ...
LEMMA SafeStep == Inv /\ Safe /\ [Next]_vars => Safe'
<1> SUFFICES ASSUME Inv, Safe, [Next]_vars PROVE Safe'
  OBVIOUS
<1>1. /\ TypeOK /\ Locked /\ Undoable /\ InUse /\ SchemasSeen
      /\ Locked'
  <2>1. Inv'
    BY NextInv
  <2> QED
    BY <2>1 DEF Inv
<1>2. ASSUME NEW p \in Processes,
             OpenDatabase(p) \/ CloseDatabase(p) \/ Unlock(p) \/ Serve(p) \/ Migrate(p) \/ Create(p)
                \/ (Crash(p) /\ ~Restores(p))
      PROVE  Ordinary
  <2>1. CASE OpenDatabase(p) \/ CloseDatabase(p) \/ CopyDatabase(p)
    BY <1>1, <2>1, OrdinaryOpen, OrdinaryClose
  <2>2. CASE Crash(p) /\ ~Restores(p)
    BY <1>1, <2>2, OrdinaryCrash
  <2>3. ASSUME NEW k \in Keys, WriteUpload(p, k) \/ RemoveUpload(p, k) PROVE Ordinary
    BY <1>1, <2>3, OrdinaryFiles
  <2>4. CASE InstallCurrentSchema(p) \/ CommitMigrations(p)
             \/ \E k \in Keys : AttachUpload(p, k) \/ DeleteAttachment(p, k)
    BY <1>1, <2>4, OrdinaryWrites
  <2>5. CASE \/ Unlock(p) \/ (\E command \in {"serve", "migrate", "backup"} : Begin(p, command))
             \/ StopServing(p) \/ Inspect(p) \/ BeginTransaction(p) \/ Up(p)
             \/ (\E k \in Keys : ArchiveUpload(p, k)) \/ Publish(p) \/ AbandonBackup(p)
    BY <1>1, <2>5, QuietCommands
  <2> QED
    BY <1>2, <2>1, <2>2, <2>3, <2>4, <2>5 DEF Serve, Migrate, Create
<1>3. ASSUME NEW p \in Processes, Restore(p) PROVE Safe'
  <2>1. ASSUME NEW n \in 1..MaxBackups, BeginRestore(p, n) PROVE Safe'
    BY <1>1, <2>1, BeginRestoreIsSafe
  <2>2. CASE Move(p)
    BY <1>1, <2>2, MoveIsSafe
  <2>3. CASE Rollback(p)
    BY <1>1, <2>3, RollbackIsSafe
  <2>4. CASE MoveFails(p) \/ RollbackFails(p)
    BY <1>1, <2>4, FailureIsSafe
  <2>5. CASE EndRestore(p)
    <3>1. Restores(p)
      BY <2>5 DEF EndRestore, RestoreEnds, Restores
    <3> QED
      BY <1>1, <2>5, <3>1, OverIsSafe
  <2> QED
    BY <1>3, <2>1, <2>2, <2>3, <2>4, <2>5 DEF Restore
<1>4. ASSUME NEW p \in Processes, Crash(p), Restores(p) PROVE Safe'
  BY <1>1, <1>4, OverIsSafe
<1>5. CASE Ordinary
  BY <1>1, <1>5, OrdinaryIsSafe
<1>6. CASE UNCHANGED vars
  <2>1. Recovering'
    BY <1>6 DEF vars, Safe, Recovering, Restores, Recoverable
  <2>2. LogsCost'
    BY <1>6 DEF vars, Safe, LogsCost, LogsStayWithTheirDatabase, Restores, LogCost, HasLog
  <2>3. Together'
    BY <1>6 DEF vars, Safe, Together, Restores, Paired, RowsBelong, FilesIn
  <2>4. NothingIsLost'
    BY <1>6 DEF vars, Safe, NothingIsLost, Kept
  <2> QED
    BY <2>1, <2>2, <2>3, <2>4 DEF Safe
<1> QED
  BY <1>2, <1>3, <1>4, <1>5, <1>6 DEF Next

\* ... so nothing ever is.
LEMMA AlwaysSafe == Spec => [](Inv /\ Safe)
  BY InitInv, InitSafe, NextInv, SafeStep, PTL DEF Spec

\* A file is removed only when no row of the database at the path refers to it,
\* a restore ends with both copies in their places or with everything back, and
\* a log that nobody closed is not put beside another database before a third
\* fault.
THEOREM FilesAreTogether == Spec => []FilesBelongTogether
<1>1. Inv /\ Safe => FilesBelongTogether
  <2> SUFFICES ASSUME Inv, Safe PROVE FilesBelongTogether
    OBVIOUS
  <2>1. RowsHaveFiles
    BY DEF Safe, Together, RowsHaveFiles, RowsBelong, FilesIn, Files, Replacing, Restores
  <2> QED
    BY <2>1 DEF Safe, LogsCost, FilesBelongTogether
<1> QED
  BY <1>1, AlwaysSafe, PTL

\* Whatever fails or stops, and however often: a restore moves what it finds
\* into directories that nothing was moved into before, and puts nothing where
\* something is but its own copy.
THEOREM NothingIsEverLost == Spec => []NothingIsLost
<1>1. Inv /\ Safe => NothingIsLost
  BY DEF Safe
<1> QED
  BY <1>1, AlwaysSafe, PTL
=============================================================================
