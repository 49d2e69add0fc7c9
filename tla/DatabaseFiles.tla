---------------------------- MODULE DatabaseFiles ---------------------------
(***************************************************************************)
(* The files of an installation, and the commands that use them: serve,    *)
(* db migrate, backup and restore, each a process of its own, beside each  *)
(* other.  The database file, its write-ahead log and the upload directory *)
(* are renamed one by one by a restore, with nothing but an advisory lock  *)
(* that keeps the others away, and any process may stop at any step.       *)
(*                                                                         *)
(* A database and an upload directory are known by a number each, so that  *)
(* one can be told from another; a restored pair has the same number.      *)
(* Processes run the same binary.                                          *)
(***************************************************************************)
EXTENDS Naturals, FiniteSets, FiniteSetsExt

CONSTANTS
    Processes,     \* processes
    Keys,          \* storage keys of uploads, ever
    Target,        \* the binary's migrations are 1..Target
    Histories,     \* bound: migrations that a first database may have seen
    MaxDatabases,  \* bound: databases ever created
    MaxRestores,   \* bound: restores ever staged
    MaxBackups,    \* bound: backups ever published
    MaxCommands,   \* bound: commands ever begun
    MaxFaults      \* bound: renames that fail, and crashes

ASSUME DatabaseFilesAssumption ==
    /\ Target \in Nat /\ Histories \subseteq SUBSET (Nat \ {0})
    /\ MaxRestores \in Nat /\ MaxBackups \in Nat /\ MaxDatabases \in Nat /\ MaxDatabases > MaxRestores

VARIABLES
    at,           \* the configured paths: which database, log and directory are there, 0: none
    saved,        \* the recovery directories of each restore
    content,      \* the databases' contents
    dir,          \* the upload directories' contents
    backups,      \* the published backups
    lock,         \* the lock on <database>.lock that each process has
    process,      \* [Processes -> where its command stands]
    commands,     \* commands begun so far
    restores,     \* restores staged so far
    faults,       \* faults so far
    interrupted,  \* history: a restore stopped halfway, or a rollback failed
    logged        \* history: databases that were not closed since they were written

vars == <<at, saved, content, dir, backups, lock, process, commands, restores, faults,
          interrupted, logged>>

-----------------------------------------------------------------------------
Databases == 1..MaxDatabases
Versions == 1..Target

Places == [db : 0..MaxDatabases, wal : 0..MaxDatabases, uploads : 0..MaxDatabases]
NoPlaces == [db |-> 0, wal |-> 0, uploads |-> 0]

\* applied: schema_migrations.  rows: the keys that attachments refer to.
\* refuses: migrations that its data does not pass.  ran: history, how often
\* each was carried out.  first: history, what it had seen when it came to be.
\* missing: history, rows that came without a file out of a backup.
Database ==
    [state : {"none", "empty", "live"}, applied : SUBSET Nat, rows : SUBSET Keys,
     refuses : SUBSET Nat, ran : [Versions -> Nat], first : SUBSET Nat, missing : SUBSET Keys]

NoDatabase == [state |-> "none", applied |-> {}, rows |-> {}, refuses |-> {},
               ran |-> [v \in Versions |-> 0], first |-> {}, missing |-> {}]

\* owed: history, the rows whose files were there as the database was copied.
\* gone: history, files removed while the backup was made.
Backup == [database : Database, files : SUBSET Keys, owed : SUBSET Keys, gone : SUBSET Keys]
NoBackup == [database |-> NoDatabase, files |-> {}, owed |-> {}, gone |-> {}]

\* open: the database it has open.  pending: the migrations it found missing;
\* done: those in its transaction.  made, name: the backup it makes.
\* staged: the restored database and directory; next, renamed: where its
\* renames stand; before: history, the paths before them.
Process ==
    [pc : {"idle", "locked", "opened", "install", "serving", "migrating", "transaction",
           "copying", "archiving", "moving", "rollback", "closing", "closed"},
     command : {"none", "serve", "migrate", "backup", "restore"},
     open : 0..MaxDatabases, pending : SUBSET Versions, done : SUBSET Versions,
     made : Backup, left : SUBSET Keys, name : Nat,
     staged : 0..MaxDatabases, next : 0..6, renamed : SUBSET (1..5), before : Places, stuck : BOOLEAN]

Idle == [pc |-> "idle", command |-> "none", open |-> 0, pending |-> {}, done |-> {}, made |-> NoBackup,
         left |-> {}, name |-> 0, staged |-> 0, next |-> 0, renamed |-> {}, before |-> NoPlaces,
         stuck |-> FALSE]

TypeOK ==
    /\ at \in Places
    /\ saved \in [1..MaxRestores -> Places]
    /\ content \in [Databases -> Database]
    /\ dir \in [Databases -> SUBSET Keys]
    /\ backups \in [1..MaxBackups -> Backup]
    /\ lock \in [Processes -> {"none", "shared", "exclusive"}]
    /\ process \in [Processes -> Process]
    /\ commands \in Nat /\ faults \in Nat /\ restores \in 0..MaxRestores
    /\ interrupted \in BOOLEAN
    /\ logged \subseteq Databases
    \* Whoever has the lock exclusively has it alone.
    /\ \A p, q \in Processes : p # q /\ lock[p] = "exclusive" => lock[q] = "none"

\* A new installation, or one with a database that some release made.
Init ==
    /\ \/ /\ at = NoPlaces
          /\ content = [d \in Databases |-> NoDatabase]
       \/ \E seen \in Histories, refuses \in SUBSET Versions :
            /\ at = [NoPlaces EXCEPT !.db = 1]
            /\ content = [d \in Databases |->
                            IF d = 1 THEN [NoDatabase EXCEPT !.state = "live", !.applied = seen,
                                                             !.first = seen, !.refuses = refuses]
                            ELSE NoDatabase]
    /\ saved = [r \in 1..MaxRestores |-> NoPlaces]
    /\ dir = [d \in Databases |-> {}]
    /\ backups = [n \in 1..MaxBackups |-> NoBackup]
    /\ lock = [p \in Processes |-> "none"]
    /\ process = [p \in Processes |-> Idle]
    /\ commands = 0
    /\ restores = 0
    /\ faults = 0
    /\ interrupted = FALSE
    /\ logged = {}

-----------------------------------------------------------------------------
(* The lock, and commands in general.                                      *)

paths == <<at, saved, interrupted>>
data  == <<content, dir, backups>>
count == <<commands, restores, faults>>

\* flock, LOCK_SH or LOCK_EX, with LOCK_NB.
MayLock(p, mode) ==
    \A q \in Processes \ {p} : lock[q] = "none" \/ (mode = "shared" /\ lock[q] = "shared")

\* dblock.Acquire; a command that does not get the lock ends.
Acquire(p, mode) ==
    /\ commands < MaxCommands
    /\ commands' = commands + 1
    /\ process[p].pc = "idle"
    /\ MayLock(p, mode)
    /\ lock' = [lock EXCEPT ![p] = mode]

Goes(p, pc) == process' = [process EXCEPT ![p].pc = pc]

\* Mutant: a backup does not lock the database.
BeginUnlocked(p, command) ==
    /\ commands < MaxCommands
    /\ process[p].pc = "idle"
    /\ command = "backup" => at.db # 0
    /\ command = "backup" \/ MayLock(p, "shared")
    /\ commands' = commands + 1
    /\ lock' = IF command = "backup" THEN lock ELSE [lock EXCEPT ![p] = "shared"]
    /\ process' = [process EXCEPT ![p].pc = "locked", ![p].command = command]
    /\ UNCHANGED <<paths, data, restores, faults, logged>>

\* Open and Migrate of the store, and Create of a backup, which looks first
\* whether there is a database.
Begin(p, command) ==
    /\ command = "backup" => at.db # 0
    /\ Acquire(p, "shared")
    /\ process' = [process EXCEPT ![p].pc = "locked", ![p].command = command]
    /\ UNCHANGED <<paths, data, restores, faults, logged>>

\* The numbers of databases and directories that are not there, or no more.
SavedDirectories == {saved[r].uploads : r \in 1..MaxRestores}
Fresh == {d \in Databases : content[d].state = "none" /\ d \notin SavedDirectories \cup {at.uploads}}
NextDatabase == Min(Fresh)
NextDirectory == Min(Databases \ SavedDirectories)

\* SQLite opens the file, or makes one; in WAL mode it then has a log beside
\* it, and a log that has no database it removes.
OpenDatabase(p) ==
    LET d == IF at.db = 0 THEN NextDatabase ELSE at.db IN
    /\ process[p].pc = "locked"
    /\ at.db = 0 => Fresh # {}
    /\ at' = [at EXCEPT !.db = d, !.wal = d]
    /\ content' = IF at.db = 0 THEN [content EXCEPT ![d].state = "empty"] ELSE content
    /\ logged' = logged \cup {d}
    /\ process' = [process EXCEPT ![p].open = d,
                                  ![p].pc = IF process[p].command = "backup" THEN "copying" ELSE "opened"]
    /\ UNCHANGED <<saved, interrupted, dir, backups, lock, count>>

\* The last one to close a database writes its log into it.
Closes(p) ==
    LET last == \A q \in Processes \ {p} : process[q].open # process[p].open IN
    /\ at' = IF last THEN [at EXCEPT !.wal = 0] ELSE at
    /\ logged' = IF last THEN logged \ {process[p].open} ELSE logged

\* db.Close, of the server and of a migration.
CloseDatabase(p) ==
    /\ process[p].pc = "closing"
    /\ Closes(p)
    /\ process' = [process EXCEPT ![p] = [Idle EXCEPT !.pc = "closed"]]
    /\ UNCHANGED <<saved, interrupted, data, lock, count>>

\* lock.Close
Unlock(p) ==
    /\ process[p].pc = "closed"
    /\ lock' = [lock EXCEPT ![p] = "none"]
    /\ process' = [process EXCEPT ![p] = Idle]
    /\ UNCHANGED <<paths, data, count, logged>>

\* The copies that a restore did not move to the paths: removed at its end, and
\* never looked at again when it stops before.
DiscardCopies(p) ==
    LET d == process[p].staged IN
    /\ content' = IF d = 0 \/ at.db = d THEN content ELSE [content EXCEPT ![d] = NoDatabase]
    /\ dir' = IF d = 0 \/ at.uploads = d THEN dir ELSE [dir EXCEPT ![d] = {}]

\* The process stops, and the system releases its lock.  A restore that is
\* between its renames leaves them there.
Crash(p) ==
    /\ process[p].pc # "idle"
    /\ faults < MaxFaults
    /\ faults' = faults + 1
    /\ lock' = [lock EXCEPT ![p] = "none"]
    /\ process' = [process EXCEPT ![p] = Idle]
    /\ interrupted' = (interrupted \/ (process[p].renamed # {} /\ process[p].next # 6))
    /\ DiscardCopies(p)
    /\ UNCHANGED <<at, saved, backups, commands, restores, logged>>

-----------------------------------------------------------------------------
(* serve and db migrate.                                                   *)

Newer(d) == \E v \in content[d].applied : v > Target
Pending(d) == Versions \ content[d].applied

\* Store.init, of a database that is not empty.
Accepts(d) == ~Newer(d) /\ Pending(d) = {}

\* inspectMigrationStatus, and what init and migrateDB make of it.
Inspect(p) ==
    LET d == process[p].open
        command == process[p].command
        pc == CASE content[d].state = "empty" -> "install"
                [] content[d].state # "empty" /\ command = "serve" ->
                        IF Accepts(d) THEN "serving" ELSE "closing"
                [] OTHER -> IF Newer(d) \/ Pending(d) = {} THEN "closing" ELSE "migrating"
    IN  /\ process[p].pc = "opened"
        /\ process' = [process EXCEPT ![p].pc = pc, ![p].pending = IF pc = "migrating" THEN Pending(d) ELSE {}]
        /\ UNCHANGED <<paths, data, lock, count, logged>>

\* No transaction of another process writes this database.
MayWrite(p) ==
    \A q \in Processes \ {p} : ~(process[q].pc = "transaction" /\ process[q].open = process[p].open)

\* installCurrentSchema, which may come second: it creates what is not there.
InstallCurrentSchema(p) ==
    /\ process[p].pc = "install"
    /\ MayWrite(p)
    /\ content' = [content EXCEPT ![process[p].open].state = "live",
                                  ![process[p].open].applied = @ \cup Versions,
                                  ![process[p].open].first = @ \cup (Versions \ content[process[p].open].applied)]
    /\ Goes(p, IF process[p].command = "serve" THEN "serving" ELSE "closing")
    /\ UNCHANGED <<paths, dir, backups, lock, count, logged>>

\* applyPendingMigrations begins its transaction.
BeginTransaction(p) ==
    /\ process[p].pc = "migrating"
    /\ MayWrite(p)
    /\ Goes(p, "transaction")
    /\ UNCHANGED <<paths, data, lock, count, logged>>

\* The migration refuses the data, or its row is there already.
Fails(d, v) == v \in content[d].refuses \/ v \in content[d].applied

\* The next migration, and its row.  An error ends the transaction.
Up(p) ==
    LET d == process[p].open
        left == process[p].pending \ process[p].done
        v == CHOOSE w \in left : \A x \in left : w <= x
    IN  /\ process[p].pc = "transaction"
        /\ left # {}
        /\ process' = IF Fails(d, v) THEN [process EXCEPT ![p].pc = "closing", ![p].done = {}]
                      ELSE [process EXCEPT ![p].done = @ \cup {v}]
        /\ UNCHANGED <<paths, data, lock, count, logged>>

\* Mutant: what was done before the error is committed.
MayCommitSome(p) == process[p].done # {}

MayCommit(p) == process[p].done = process[p].pending

CommitMigrations(p) ==
    LET d == process[p].open
        done == process[p].done
    IN  /\ process[p].pc = "transaction"
        /\ MayCommit(p)
        /\ content' = [content EXCEPT ![d].applied = @ \cup done,
                                      ![d].ran = [v \in Versions |-> IF v \in done THEN @[v] + 1 ELSE @[v]]]
        /\ Goes(p, "closing")
        /\ UNCHANGED <<paths, dir, backups, lock, count, logged>>

\* The server ends in good order.
StopServing(p) ==
    /\ process[p].pc = "serving"
    /\ Goes(p, "closing")
    /\ UNCHANGED <<paths, data, lock, count, logged>>

-----------------------------------------------------------------------------
(* What the server does to its files, of which Desk says more.             *)

Files == IF at.uploads = 0 THEN {} ELSE dir[at.uploads]

Unused(k) == \A d \in Databases : k \notin dir[d] /\ k \notin content[d].rows

\* A file is written; the directory is made when it is the first one.
WriteUpload(p, k) ==
    LET d == IF at.uploads = 0 THEN NextDirectory ELSE at.uploads IN
    /\ process[p].pc = "serving"
    /\ Unused(k)
    /\ at' = [at EXCEPT !.uploads = d]
    /\ dir' = [dir EXCEPT ![d] = @ \cup {k}]
    /\ UNCHANGED <<saved, interrupted, content, backups, lock, process, count, logged>>

AttachUpload(p, k) ==
    /\ process[p].pc = "serving"
    /\ MayWrite(p)
    /\ k \in Files
    /\ content' = [content EXCEPT ![process[p].open].rows = @ \cup {k}]
    /\ UNCHANGED <<paths, dir, backups, lock, process, count, logged>>

DeleteAttachment(p, k) ==
    /\ process[p].pc = "serving"
    /\ MayWrite(p)
    /\ k \in content[process[p].open].rows
    /\ content' = [content EXCEPT ![process[p].open].rows = @ \ {k}]
    /\ UNCHANGED <<paths, dir, backups, lock, process, count, logged>>

RemoveUpload(p, k) ==
    /\ process[p].pc = "serving"
    /\ k \in Files \ content[process[p].open].rows
    /\ dir' = [dir EXCEPT ![at.uploads] = @ \ {k}]
    /\ process' = [q \in Processes |-> IF process[q].pc # "archiving" THEN process[q]
                                       ELSE [process[q] EXCEPT !.made.gone = @ \cup {k}]]
    /\ UNCHANGED <<paths, content, backups, lock, count, logged>>

-----------------------------------------------------------------------------
(* backup                                                                  *)

\* A name that is free: availablePath.
FreeName == CHOOSE n \in 1..MaxBackups + 1 :
                /\ n <= MaxBackups => backups[n] = NoBackup
                /\ \A m \in 1..n - 1 : backups[m] # NoBackup

\* copySQLiteDatabase, a snapshot, which closes the database; then the uploads
\* are walked.
CopyDatabase(p) ==
    /\ process[p].pc = "copying"
    /\ FreeName <= MaxBackups
    /\ Closes(p)
    /\ process' = [process EXCEPT ![p].pc = "archiving", ![p].open = 0, ![p].name = FreeName, ![p].left = Keys,
                    ![p].made = [NoBackup EXCEPT !.database = content[process[p].open],
                                                 !.owed = content[process[p].open].rows \cap Files]]
    /\ UNCHANGED <<saved, interrupted, data, lock, count>>

\* Mutant: the walk has listed the directory before the database is copied.
WalkedEarlier(p, k) == k \in Files /\ k \notin process[p].made.database.rows

Walked(p, k) == k \in Files

\* createUploadsArchive comes to a file, or to where it was.  A file that
\* was written after the copy may be missed.
ArchiveUpload(p, k) ==
    /\ process[p].pc = "archiving"
    /\ k \in process[p].left
    /\ \E taken \in BOOLEAN :
        /\ taken <=> Walked(p, k) /\ (k \notin process[p].made.owed => taken)
        /\ process' = [process EXCEPT ![p].left = @ \ {k},
                                      ![p].made.files = IF taken THEN @ \cup {k} ELSE @]
    /\ UNCHANGED <<paths, data, lock, count, logged>>

\* The finished directory gets its name; it fails when that is taken by now.
Publish(p) ==
    /\ process[p].pc = "archiving"
    /\ process[p].left = {}
    /\ backups' = IF backups[process[p].name] = NoBackup
                  THEN [backups EXCEPT ![process[p].name] = process[p].made] ELSE backups
    /\ process' = [process EXCEPT ![p] = [Idle EXCEPT !.pc = "closed"]]
    /\ UNCHANGED <<paths, content, dir, lock, count, logged>>

\* Anything fails, a file that vanishes between listing and opening too: the
\* unfinished directory is removed.
AbandonBackup(p) ==
    /\ process[p].pc \in {"copying", "archiving"}
    /\ process' = [process EXCEPT ![p] = IF @.pc = "copying" THEN [@ EXCEPT !.pc = "closing"]
                                         ELSE [Idle EXCEPT !.pc = "closed"]]
    /\ UNCHANGED <<paths, data, lock, count, logged>>

-----------------------------------------------------------------------------
(* restore                                                                 *)

\* The lock is taken, the backup is copied and extracted beside the paths, and
\* recovery directories of new names are made.  (If that fails, the copies
\* are removed and nothing has happened.)
BeginRestore(p, n) ==
    LET d == NextDatabase
        backup == backups[n]
        missing == backup.database.rows \ backup.files
    IN  /\ backup # NoBackup
        /\ Acquire(p, "exclusive")
        /\ Fresh # {} /\ restores < MaxRestores
        /\ restores' = restores + 1
        /\ content' = [content EXCEPT ![d] = [backup.database EXCEPT !.first = backup.database.applied,
                                                !.ran = NoDatabase.ran, !.missing = missing]]
        /\ dir' = [dir EXCEPT ![d] = backup.files]
        /\ process' = [process EXCEPT ![p] =
                        [Idle EXCEPT !.pc = "moving", !.command = "restore", !.staged = d, !.next = 1,
                                     !.name = restores + 1, !.before = at]]
        /\ UNCHANGED <<paths, backups, faults, logged>>

\* The moves, in their order: the first three make room, if there is anything.
\* The shared-memory file beside the log goes with it.
Part(i) == CASE i \in {1, 4} -> "db" [] i = 2 -> "wal" [] i \in {3, 5} -> "uploads"

Skips(i) == i <= 3 /\ at[Part(i)] = 0

\* Mutant: the recovery directory has the same name every time.
SameRecovery(p) == 1

\* createUniqueDir
Recovery(p) == process[p].name

Renames(p, i) ==
    LET r == Recovery(p)
        x == Part(i)
    IN  IF i <= 3
        THEN at' = [at EXCEPT ![x] = 0] /\ saved' = [saved EXCEPT ![r][x] = at[x]]
        ELSE at' = [at EXCEPT ![x] = process[p].staged] /\ UNCHANGED saved

\* moveRestoreFiles, the next move.
Move(p) ==
    LET i == process[p].next IN
    /\ process[p].pc = "moving"
    /\ i <= 5
    /\ IF Skips(i)
       THEN /\ process' = [process EXCEPT ![p].next = i + 1]
            /\ UNCHANGED <<at, saved>>
       ELSE /\ process' = [process EXCEPT ![p].next = i + 1, ![p].renamed = @ \cup {i}]
            /\ Renames(p, i)
    /\ UNCHANGED <<interrupted, data, lock, count, logged>>

MoveFails(p) ==
    /\ process[p].pc = "moving"
    /\ process[p].next <= 5
    /\ faults < MaxFaults
    /\ faults' = faults + 1
    /\ Goes(p, "rollback")
    /\ UNCHANGED <<paths, data, lock, commands, restores, logged>>

\* A rename is undone, the last one first.
Undoes(p, i) ==
    LET r == Recovery(p)
        x == Part(i)
    IN  IF i <= 3
        THEN at' = [at EXCEPT ![x] = saved[r][x]] /\ saved' = [saved EXCEPT ![r][x] = 0]
        ELSE at' = [at EXCEPT ![x] = 0] /\ UNCHANGED saved

LastRenamed(p) == CHOOSE i \in process[p].renamed : \A j \in process[p].renamed : j <= i

Rollback(p) ==
    /\ process[p].pc = "rollback"
    /\ process[p].renamed # {}
    /\ Undoes(p, LastRenamed(p))
    /\ process' = [process EXCEPT ![p].renamed = @ \ {LastRenamed(p)}]
    /\ UNCHANGED <<interrupted, data, lock, count, logged>>

\* It fails, is reported, and the rollback goes on.
RollbackFails(p) ==
    /\ process[p].pc = "rollback"
    /\ process[p].renamed # {}
    /\ faults < MaxFaults
    /\ faults' = faults + 1
    /\ process' = [process EXCEPT ![p].renamed = @ \ {LastRenamed(p)}, ![p].stuck = TRUE]
    /\ interrupted' = TRUE
    /\ UNCHANGED <<at, saved, data, lock, commands, restores, logged>>

\* Mutant: the rollback is over when the uploads are back; the log and the
\* database stay in the recovery directory.
RestoreEndsEarly(p) == process[p].pc = "rollback" /\ 3 \notin process[p].renamed

\* Mutant: the last move is forgotten.
RestoreEndsBeforeUploads(p) ==
    \/ process[p].pc = "moving" /\ process[p].next = 5
    \/ process[p].pc = "rollback" /\ process[p].renamed = {}

RestoreEnds(p) ==
    \/ process[p].pc = "moving" /\ process[p].next = 6
    \/ process[p].pc = "rollback" /\ process[p].renamed = {}

\* What is left of the copies is removed.
EndRestore(p) ==
    /\ RestoreEnds(p)
    /\ DiscardCopies(p)
    /\ process' = [process EXCEPT ![p] = [Idle EXCEPT !.pc = "closed"]]
    /\ UNCHANGED <<paths, backups, lock, count, logged>>

-----------------------------------------------------------------------------
Serve(p) ==
    \/ Begin(p, "serve")
    \/ StopServing(p)
    \/ \E k \in Keys :
        WriteUpload(p, k) \/ AttachUpload(p, k) \/ DeleteAttachment(p, k) \/ RemoveUpload(p, k)

Migrate(p) ==
    \/ Begin(p, "migrate")
    \/ Inspect(p)
    \/ InstallCurrentSchema(p)
    \/ BeginTransaction(p)
    \/ Up(p)
    \/ CommitMigrations(p)

Create(p) ==
    \/ Begin(p, "backup")
    \/ CopyDatabase(p)
    \/ \E k \in Keys : ArchiveUpload(p, k)
    \/ Publish(p)
    \/ AbandonBackup(p)

Restore(p) ==
    \/ \E n \in 1..MaxBackups : BeginRestore(p, n)
    \/ Move(p)
    \/ MoveFails(p)
    \/ Rollback(p)
    \/ RollbackFails(p)
    \/ EndRestore(p)

Next ==
    \E p \in Processes :
        \/ OpenDatabase(p) \/ CloseDatabase(p) \/ Unlock(p) \/ Crash(p)
        \/ Serve(p) \/ Migrate(p) \/ Create(p) \/ Restore(p)

Spec == Init /\ [][Next]_vars

-----------------------------------------------------------------------------
(* Safety.                                                                 *)

Replacing == ~\A p \in Processes : process[p].pc \notin {"moving", "rollback"}

\* Whoever has a database open has the one that is at the path, with its log:
\* no restore replaces it meanwhile, nor begins to.
OpenFilesStay ==
    \A p \in Processes :
        /\ process[p].open # 0 => at.db = process[p].open /\ at.wal = at.db
        /\ Replacing => process[p].open = 0

\* A server runs on a database that has seen the migrations of its binary and
\* no others, while others migrate, install and back up beside it.
ServesCurrentSchema ==
    \A p \in Processes : process[p].pc = "serving" => content[process[p].open].applied = Versions

\* A migration is carried out on a database once, and none that it had seen,
\* though two processes may have found it pending.
OnceEach ==
    \A d \in Databases, v \in Versions :
        content[d].ran[v] = IF v \in content[d].applied \ content[d].first THEN 1 ELSE 0

\* A database has seen the migrations it came with, or all of them: one that
\* fails takes the ones before it back.
AsAWhole ==
    \A d \in Databases : content[d].applied = content[d].first \/ Versions \subseteq content[d].applied

\* Migrations are carried out once each, all or none, and before anyone
\* serves the database, however the processes that look at it first and write
\* later overlap.
MigrationsAreWhole == ServesCurrentSchema /\ OnceEach /\ AsAWhole

\* A backup of a running server has every file that its database refers to,
\* except for those that were missing before, and those that were removed
\* while it was made.
BackupsAreComplete ==
    \A n \in 1..MaxBackups : backups[n].owed \subseteq backups[n].files \cup backups[n].gone

\* The database at the path and the directory at the path belong together, as
\* long as no restore stopped halfway: a file that is missing was missing in
\* the backup.
RowsHaveFiles ==
    at.db # 0 /\ ~interrupted /\ ~Replacing
        => content[at.db].rows \subseteq Files \cup content[at.db].missing

\* A log at the path belongs to the database at the path, or to one that was
\* moved away from it.  To put it beside another one, which SQLite would then
\* read it into, it takes three faults: a process that did not close its
\* database, a move that fails, and one whose undoing fails.
LogsStayWithTheirDatabase == faults < 3 => at.wal \in {0, at.db} \/ at.db = 0

\* What lies at the paths belongs together.
FilesBelongTogether == RowsHaveFiles /\ LogsStayWithTheirDatabase

Kept(d, part) == at[part] = d \/ ~\A r \in 1..MaxRestores : saved[r][part] # d

\* A database that was in use is at the path or in a recovery directory, and
\* so is its upload directory, whatever fails or stops, however often; and so
\* is the log of one that was not closed, unless a restore stopped halfway,
\* when whoever opens the path next loses it.
NothingIsLost ==
    \A d \in Databases :
        /\ (\A p \in Processes : process[p].staged # d) =>
                /\ content[d].state # "none" => Kept(d, "db")
                /\ dir[d] # {} => Kept(d, "uploads")
        /\ d \in logged /\ ~interrupted => Kept(d, "wal")

\* A restore that fails ends with the paths as they were when it began, unless
\* its rollback failed too.
FailedRestoreChangesNothing ==
    [][\A p \in Processes :
        process[p].pc = "rollback" /\ process'[p].pc = "closed" /\ ~process[p].stuck
            => at = process[p].before]_vars

=============================================================================
