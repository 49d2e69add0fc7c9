# Pappice in TLA+

Pappice is a self-hosted support desk: one Go process, one SQLite file, a
directory of uploads, and workers that send mail, call webhooks and read replies
from a mailbox. The specifications here describe the parts of it where order,
failure and concurrency decide whether it is correct. They are translated from
`src/`; each definition's lines are in `PROJECT.json` under `map`. TLC checks
small instances, TLAPS proves the theorems for every instance.

## 1. The system

### Process and data

`internal/app/serve.go` opens the store, starts the background workers and then
listens. `internal/store` opens SQLite with `SetMaxOpenConns(1)`: every
transaction runs alone, so **one transaction is one action** in the modules. What
spans two statements, an HTTP request, an SMTP or IMAP dialogue, or a file
operation is two or more actions, and anything may happen in between. Because the
workers start before the port is bound, and because the database lock
(`internal/dblock`) is shared among servers, two processes may briefly work on
one database during a restart; the runs called `..._overlap` are about that.

### Components

| Component | State | Operations | Talks to |
|---|---|---|---|
| Event log (`store/events.go`, `server/events.go`) | `domain_events`, `audit_events` | insert with every mutation, claim, project, apply, fail, prune | every handler writes it; it fills both outboxes |
| Webhook outbox (`store/webhooks.go`, `server/webhook_worker.go`, `server/webhook.go`) | `webhooks`, `webhook_notifications`, `webhook_deliveries` | enqueue and coalesce, claim, deliver, record, mark | filled by projections, calls receivers |
| Email outbox (`store/email.go`, `notify/notify.go`) | `email_notifications` | enqueue and coalesce, withdraw, claim, send, mark, retry by hand | filled by projections, calls the SMTP server |
| Email replies (`notify/imap.go`, `notify/reply.go`, `store/email_replies.go`) | `email_mailboxes`, `email_reply_tokens`, `ticket_requests` | select, search, fetch, save, flag, advance | reads a mailbox people use too, saves tickets |
| Ticket store (`store/tickets.go`, `store/ticket_requests.go`, `store/reads.go`) | `tickets`, `comments`, `ticket_status_changes`, `ticket_reads` | create, save (idempotent), delete, read | called by handlers and by email replies |
| Uploads (`server/attachments.go`) | files, `attachments` | store before commit, remove after failure or deletion | ticket store |
| Accounts (`store/users.go`, `server/auth.go`) | `users`, `sessions`, `account_links`, `api_tokens` | setup, create, update, delete, login, links, tokens | authorises everything; withdraws mail |
| Products and access (`store/products.go`) | `products`, `product_members` | create, update, delete, members | decides who sees and gets what |
| Backup, restore, lock (`backup`, `dblock`) | files | copy, archive, rename, roll back | replaces database and uploads |
| Schema and migrations (`store/migrations.go`) | schema version | ordered migrations | runs before everything |
| HTTP layer, rendering, CLI | none that lasts | decoding, wording, routing | thin over the store |

### What is hard, and what correctness means

* **Event log.** A projection is composed outside the transaction that applies
  it. Dispatchers crash, overlap, lose leases. Each event must be projected at
  most once and as a whole, must end processed or given up, must be given up only
  for cause, and nothing finished may be reopened.
* **Webhook outbox.** The request and the mark share no transaction, so delivery
  is at least once; a receiver can only tell a repetition by its id. An id must
  stand for one content, `sent` must mean received, the latest state must not get
  lost in coalescing, and requests must stay within the attempts.
* **Email outbox.** As above, but a mail *is* rewritten after it was attempted, and
  accounts come and go while their mail is under way.
* **Email replies.** The mailbox and the database share no transaction either.
  Messages are redelivered, renumbered, expunged and read by people. One comment
  per message identity, no message passed over, no ticket reopened by a repetition.
* **Ticket store and uploads.** Idempotent retries, unique numbers, files and rows
  that are created and removed in two systems.
* **Accounts.** At least one active administrator, one-time links, sessions that
  follow the account.
* **Backup and restore.** A copy of a running system in two parts; a replacement
  by several renames, undone when one of them fails.

The complete list of such places, with lines, is `hazards` in `PROJECT.json`.

## 2. Modules

| Module | What it is |
|---|---|
| `DomainEvents` | event log, dispatcher processes, and the handlers that change what a projection refers to |
| `WebhookOutbox` | webhooks, their notifications, the delivery worker, the receivers |
| `Notification` | what a webhook's owner is promised: at-least-once delivery of revisable content |
| `EmailOutbox` | queued mail, accounts as the queue sees them, the mail worker, the mail server |
| `EmailReplies` | a mailbox, the IMAP worker, replies saved on tickets |
| `Accounts` | accounts, links, sessions, API tokens, and the requests under way on them |
| `Access` | the rules of who may do what, as Go and SQL state them (pure operators) |
| `Notices` | whom a save is mailed to, event by event (pure operators, extends `Access`) |
| `Desk` | product, members, tickets, histories, keys, attachments and the upload directory (extends `Notices`) |
| `DatabaseFiles` | the files of an installation, and serve, migrate, backup and restore as processes on them |
| `Migrations` | what the migrations make of a ticket, its roles and its history (pure operators, extends `Access`) |
| `MigratedDatabases` | the databases of `DatabaseFiles`, migrated as `Migrations` says (composes the two) |
| `MC...` | the definitions TLC needs for an instance: symmetry, functions for constants |
| `...Proofs` | theorems about the module they extend; `NoticesProofs` is about `Access`, too |

### State and code

* A table is a function from ids to records; a status that no row has (`none`,
  `gone`, `pruned`) says that there is no row. Ids are AUTOINCREMENT and never
  used again.
* **Time** is two booleans per row: `due` (`next_attempt_at` has passed) and
  `leased` (`locked_until` has not). `LeaseExpires`, `BackoffElapses` and
  `BecomesDue` are the passing of time. A lease may run out while its holder is still
  at work; in the outboxes this counts as a fault, which bounds how often a
  worker is overtaken.
* **A worker** is its program counter, the batch it claimed, and the values it read
  before a later write: `MarkDomainEventFailed` and its siblings are two actions,
  `ReadAttempts` and `MarkFailed`.
* **Payloads** are version numbers. Two payloads differ or do not; wording never
  matters.
* **History variables** (`outbox`, `received`, `requests`, `accepted`, `newest`,
  `comments`, `effects`, `stranded`, `torn`, `overtaken`, `ran`, `interrupted` and others
  that are declared as `history`) record what happened and are read by no action.
* **Faults** (crash, end of context, a database error, an IMAP error) are counted,
  and the bound on them is in their guards. A receiver or SMTP server that refuses
  is no fault: it is a choice of the environment at every attempt.

### Notes on each module

`DomainEvents`. Handlers insert rows in the transaction of their change
(`CreateTicket`, `SaveTicket`, `DeleteTicket`, `DeleteWebhook`,
`CreatePasswordResetLink`, `DeleteUser`); all accounts are administrators, as who may
call a handler is not the module's subject. `Project` is the read that decides
whether the ticket or the account is still there, `Compose` the reads that collect
recipients and webhooks, `Apply` the transaction. `ForeignKeysHold` is what the
schema asks of that transaction. The retention limit is abstracted: `Prune` takes
processed rows at any time.

`WebhookOutbox`. `Enqueue` is the part of a projection that concerns webhooks;
`Coalescable` is the rule that only rows without an attempt are rewritten, and a
claim that takes over an expired lease counts the lost attempt. `Load`, `Deliver`,
`Record`, `MarkSent`, `ReadAttempts`, `MarkFailed` are the steps of
`dispatchPendingWebhooks`.

`EmailOutbox`. `Enqueue` may coalesce for one recipient and insert for another in
one transaction, and starts a rewritten mail's attempts over. Recipients are any
set of accounts: the rules that choose them belong to products and access.

`EmailReplies`. The cursor of no row is validity 0. `Renumber` is a new UIDVALIDITY:
the session ends and UIDs start over. What `readReply` rejects is the constant
`Automatic`; a message's key is its Message-ID or its raw bytes (`KeyOf`). The
attachments of a reply are left out: `Desk` has the same cleanup for requests.

`Accounts`. A request that is more than one transaction is a record in `request`: a login
verifies the password (`Login`), reads the account again (`CheckAccount`) and inserts the
session (`InsertSession`), three statements in `store/users.go`; setup and the use of
a link go on with the same two steps after their transaction. `ChangePassword` comes from
a session that `BeginChange` looked up before. A password is a number, and `proof` is the
one its holder showed to know. Administration is authorised by an account that may have
changed meanwhile, so `ByAdmin` asks only that there has been a setup. The checks of the
last administrator are inside the transactions, as in the code.

`Access`, `Notices`. Each rule is written as often as the source writes it: `ProductAccess`
and `TicketAccess` in Go, `Listed`, `Assignable` and the others from the SQL. A save is a
record of what it asks for; `Payload` and `SavedEvents` are the events that commit with it,
and `Emailed` is what each of them, projected alone, mails to whom.

`Desk`. One product, as tickets of different products share no row. A request is let in by
what it reads (`Begin...`), writes its uploads one at a time, runs its transaction
(`CreateTicket`, `SaveTicket`, `ReplaySave`, `DeleteTicket`, `DeleteProduct`) and removes files
last; `Cleanup` is every path on which they are removed, and the removal may fail.
`CreateTicket` is followed by `ReadCreated`, the read outside the transaction whose failure
the handler takes for a failed creation. `recorded` is `ticket_requests`, read and
written in the transaction of the save.

`DatabaseFiles`. A process is where its command stands; its lock goes with it when it
stops. A database or directory is a number, so that it can be told from the one that
took its place. `OpenDatabase`, `Inspect`, `BeginTransaction`, `Up` and `CommitMigrations` are
what `Open` and `Migrate` do with a moment in between each; `CopyDatabase` and `ArchiveUpload`
are the two parts of a backup beside a server that goes on writing and deleting; `Move` is one
rename of a restore, `Rollback` the undoing of one. Every rename may fail, every
undoing too, and `Crash` may come anywhere. All processes run the same binary.

`Migrations`. The migrations that rewrite tickets are functions, composed in the order of
their versions. Accounts stand in place of the addresses that the third migration looks
up. A history is its rows by their ids, so that a deleted row leaves a gap. The module has no
state; `MigratedDatabases` says what it makes of a database that `DatabaseFiles` has migrated.

## 3. Runs

All bounds are constants of the instance. Batches of 25, five attempts and polls of
100 become one or two; the code uses them in comparisons only. Two attempts are the least
that have a first and a last, and two rows or messages beside batches of one or two give a
batch that is full and leaves some, and one that is not.

| Run | Instance | Shows |
|---|---|---|
| `events_overlap` | 2 dispatchers, 2 events, 2 accounts, 2 attempts, 1 fault | `ProjectedOnce`, `ProjectionIsAtomic`, `NeverReopened` |
| `events_single` | 1 dispatcher, 2 events, 2 attempts, 1 fault, fairness | `FailureIsEarned`: an event given up was disturbed at each attempt; `FirstAttemptsInOrder`; `EventuallySettled` |
| `events_lost` | no fault at all | violates `CommittedWorkIsProjected` (finding 1) |
| `webhooks_overlap` | 2 workers, 2 rows, 3 contents, 2 attempts, 1 fault | `OneContentPerId`, `SentWasReceived`, `NewestIsKept`, `RequestsAreCounted` |
| `webhooks_single` | 1 worker, 2 rows, 2 contents, 2 attempts, 1 fault, fairness | `ImplementsNotification`, `EventuallySettled` |
| `emails_single` | 1 worker, 2 mails, 3 contents, a retry by hand, 1 fault, fairness | `NewestIsKept` (with it: sent means received, and sends are bounded by attempts and faults), `EventuallySettled` |
| `emails_overlap` | 2 workers, 2 mails, ticket and account mail, a retry by hand, 1 fault | `AcceptedOnce`, `NothingNewForDisabled` |
| `emails_disabled` | no fault at all | violates `DisabledIsSkipped` (finding 2) |
| `replies` | 1 worker, 3 messages of which 2 reuse one Message-ID and 1 is automatic, 2 UIDs, 2 UIDVALIDITYs, polls of one, 1 fault, fairness | `NothingSkipped`, `ImportedOnce`, `OnlyNewCommentsReopen`, `EventuallyCovered` |
| `accounts` | 2 accounts, 2 requests under way, 1 token, 3 passwords, 2 links, 2 sessions | `AdminRemains`, `OneLinkIsLeft`, `UnusedLinkIsAwaited`, `SessionsFollowPassword` |
| `desk` | an administrator and a customer, 2 requests under way of 4, 1 key, a save that closes and one that comments, 2 tickets, 2 files, 2 status changes, 1 change of an account or member, 1 fault | `HistoryExplainsStatus`, `OneEffectPerKey`, `AttachmentsHaveFiles`, `FilesHaveOwners`, `DisabledChangeNothing`; and on every ticket, for every role and every next save, `OneRule`, `FollowsDocumentation`, `SavesAreTold` |
| `files` | 2 processes, 1 upload, 2 migrations, no database, an old or a too new one at first, 3 databases, 2 restores, 1 backup, 5 commands, 3 faults | `OpenFilesStay`, `MigrationsAreWhole`, `BackupsAreComplete`, `FilesBelongTogether`, `NothingIsLost`, `FailedRestoreChangesNothing`; and on every migrated database, for every old ticket and every history of up to three changes, `TicketsAreKept`, `HistoryStaysConnected` |

Type invariants are not among the runs' properties: they are proved (`TypeCorrect` in
each of the seven modules that model state of the program).

Each property of a passing run has a mutant: a plausible mistake in one of the
definitions, under which TLC finds the property violated. Mutants are operators
marked `Mutant:` next to the definition they replace.

`CHECK_DEADLOCK FALSE` is said where the instance runs out of ids, versions, requests or
commands, which the program does not. The mailbox run checks deadlock, for a poll can
always be made.

**Why these bounds.** Two workers, requests or processes suffice for one to be
overtaken; two rows for batches, coalescing and order; three contents for one to be
sent, one to be superseded and one to be latest; one fault for a crash at each point, as a
second one meets states that retries lead to as well. Attempts are two throughout, so that
there is a retry after the fault. In `files` three faults are needed for what
`LogsStayWithTheirDatabase` excludes below three: a process that left its log, a rename
that fails and an undoing that fails. In `desk` a second ticket is one to number after the
first, or after the first is deleted, and four requests let two of them retry or clean up
around the other two.

**Where a property makes an exception**, the exception is what the code does, and
is named in it by a history variable. `UnusedLinkIsAwaited` excepts `overtaken`
accounts: a password change that was authorised before an administrator's reset
undoes it. `SessionsFollowPassword` excepts a session that is `late`: its login had passed
its check before the change. `AttachmentsHaveFiles` excepts `torn` files: the ticket was
committed, could not be read back, and the handler removed its uploads. `FilesHaveOwners`
excepts `stranded` files: after a crash or a failed removal nothing looks for them.
`SavesAreTold` excepts a save that assigns a ticket and comments in public, and
changes nothing else: its assignment leaves the mail to the comment and its comment leaves
it to the update, so the new assignee has none; and it excepts the requester of a ticket that
one save both changes and comments in public, from "nobody by two events": the comment tells it
as the requester, the update tells a customer of the new status and a member of the staff of
any change but that of the assignee alone. (`Telling` counts events: what one event hands the
outbox for an account and a ticket is one mail.) `NothingIsLost` excepts the log of a
database whose restore stopped halfway.

**What holds with one worker only.** In `EmailOutbox` the marks look at nothing but
the id. When two processes overlap, a late `MarkEmailSent` can close a mail that was
rewritten meanwhile, so `NewestIsKept` is checked for one worker. No document promises
it for two. `WebhookOutbox` keeps its properties with two workers, because what was
attempted is never rewritten.

### Fairness

`Run`, `RunEventDispatcher` and `RunWebhookDispatcher` loop on a ticker (5 s; a minute for
IMAP), every network call has a deadline, and database calls return. So a worker's
next step is weakly fair, each worker as a whole; and time passes, so expiry of
leases and backoff are weakly fair. Nothing is assumed of handlers, people,
receivers, mail servers or faults. Wake-up channels are not modelled: they only
shorten the wait for the next tick, and liveness does not rest on them.

### Findings

1. *An event whose actor is deleted is never projected.* The audit row carries the
   actor under a foreign key; `DeleteUser` refuses only accounts that tickets name. An
   administrator who deletes the account in use makes the event of that deletion
   fail all five attempts, and there is no audit row for it. `docs/architecture.md`
   says "Projection writes audit entries and queues notifications".
2. *Mail under way outlives the disabling of its account.* Only pending mail is
   withdrawn; what was being sent and fails, or had failed and is retried by hand, is
   taken up for the disabled account. `CHANGELOG.md` says "Skip queued mail for
   disabled accounts".

## 4. Proofs

The assumptions on the constants (`...Assumption` in each module) are all that is
assumed: bounds are naturals, at least one attempt, there is an account, sets whose
cardinality is taken are finite. TLC evaluates them in every run. Where a property is
checked for one worker, its theorem has one hypothesis more, `OneWorker` (there are no two
different workers): `Refinement`, `FailuresAreEarned`, `FirstAttemptsStayInOrder` and
`NewestMailIsKept`. Every other theorem is for any number of workers, rows, requests and faults.

* **`DomainEventsProofs`**: `TypeCorrect`, `NeverProjectedTwice`, `ProjectionAtomicity`,
  `RetryBudgetKept`, `SettledStays`. None of these is inductive by itself: whether
  `Apply` may run depends on what a dispatcher holds in memory. `Inv` therefore joins
  the type invariant, `RowInv` (a row's status says exactly what exists of its audit
  row and notifications, and how many attempts it can have had) and `WorkerInv` (what
  a dispatcher holds are rows that were inserted, the projection it composed is the
  one the row's kind asks for, the attempts it read are not more than the row's).
  `Monotone` collects what no step takes back, and makes `WorkerInv` of the worker
  that is *not* stepping survive.
  For a lone dispatcher, `FailuresAreEarned` and `FirstAttemptsStayInOrder`: `Sole` says that
  the rows of its batch are distinct and nobody else's; `CostInv` that an event whose actor is
  still there has no more attempts than there were faults and deletions, and fewer while the
  attempt under way is bound to fail (`Doomed`); `BatchOrder` that what is older than an
  unattempted event of the batch is past its own first attempt or ahead in the batch.
* **`WebhookOutboxProofs`**: `TypeCorrect`, `ContentIsFixed`, `SentMeansReceived`,
  `Refinement`. `NoteInv` says that nothing but the present content was received, and
  anything only after an attempt was counted; `HeldInv` that a worker's copy of a row
  that was claimed is what the row still says. `Stable` plays the part of `Monotone`.
  For the refinement `SoleInv` adds that a lone worker's rows are distinct and marked
  by nobody else: with two workers a late failure reopens a row that was confirmed,
  which `Notification` does not allow.
  `NewestNoteIsKept` follows the row that bears the newest content (`Bears`) through
  coalescing, which only ever rewrites a row without an attempt. `EveryRequestIsCounted` is
  a count (`CountInv`): the workers that hold a row and have still to call (`Asking`) or to
  make it due again (`Failing`) against its attempts, its requests and the faults. Each
  step is one of five moves (`NoteMoves`), and none of them unbalances the account.
* **`EmailOutboxProofs`**: `TypeCorrect`, `DisabledGetNothingNew`. Types are inductive once a
  busy worker is known to have a mail in hand (`Busy`). That nothing new is pending for a
  disabled account goes action by action: a row becomes pending by a projection, which
  looks at the account (`EnqueueRows`), by a failure, which counts, or by a retry by hand.
  `MailIsAcceptedOnce` counts the rights to send a mail: the workers that have it in hand
  and have not sent it (`Senders`), and the row while somebody may claim it (`Loose`). There
  is one at first, every step keeps, moves or uses one (`RightMoves`), and a further one is
  paid for by a fault. `NewestMailIsKept` is for a lone worker, whose copy of a mail is then
  the row (`CopyIsTrue`), so that its mark is about what it sent.
* **`EmailRepliesProofs`**: `OnceForAll`, `ReopeningIsEarned`. The argument leaves the
  worker out: a comment that came by email leaves a request behind while its ticket
  exists (`Recorded`), and `Save` looks for the request in the transaction that adds
  the comment. Where polls stop, begin again or overlap is of no importance.
  `NothingIsSkipped` and `TypeCorrect` are about the polls: the list of a poll is in
  ascending order (`Ordered`); every UID up to where the poll ends is saved, flagged or gone,
  or still in the list (`TakenCare`); and neither people nor other polls take that back
  without a new UIDVALIDITY (`MailGoesOn`), for which an earlier poll has nothing to say.
* **`AccountsProofs`**: `TypeCorrect`, `AdministratorIsLeft`, `LinksWorkOnce`,
  `LinksAreAwaited`, `SessionsFollow`. `ForeignKeys` says that rows refer to accounts that are
  there, so that a new account brings no link or session with it; `LinksOK` that links are
  numbered without gaps and an unused one set no password, so that a newer link is
  the only one left; `SessionsOK` that a password change under way knows a session of its
  own account. `AdminOK` is carried by the check inside each transaction, whatever the
  requests around it believe.
* **`NoticesProofs`**: `RulesAgree`, `CodeFollowsDocumentation`, `SavesTellWhomTheyShould`, by
  cases of roles and of what a save contains: the sets of counterexamples (`Disagreements`,
  `Undocumented`, `Untold`) are empty. `Untold` holds the saves that leave out somebody
  who waits for them, mail an account by two of their events, or tell a customer what is not its
  own; at most one event is mailed to staff, as the three rules exclude each other
  (`MailedEvents`). The set of accounts is any set: a
  save concerns its actor, the requester and the assignee. `DeskProofs` concludes
  `TicketsHaveOneRule`, `TicketsFollowDocumentation` and `NextSaveIsTold`.
* **`DeskProofs`**: `TypeCorrect`, `TicketsAreNumbered` (numbers of a product's tickets differ,
  which no run states), `HistoryIsExplained`, `KeysActOnce`, `AttachmentsKeepFiles`,
  `FilesAreOwned`, `DisabledAreStopped`. `Numbered` bounds a number by its place in the order of creation;
  `Explained` speaks of the history alone; `Keyed` ties one row of `ticket_requests` to one effect;
  `Kept` says that a file which has still to be attached is in one request only, and that one which
  is to be removed has no row.
* **`DatabaseFilesProofs`**: `TypeCorrect`, `OpenFilesAreKept`, `MigrationsRunWhole`,
  `BackupsHoldTheirFiles`, `FailedRestoresChangeNothing`, `NothingIsEverLost`, `FilesAreTogether`,
  `MigratedTicketsAreKept`, `HistoriesStayConnected`. `Locked` says who holds the lock, and
  how, at each point of a command; from it follows that a
  restore is alone. `Undoable` describes each path and its recovery directory by the renames
  that were made, which brings their undoing back to `before`. `Archived` follows the
  copied database's files through the walk of the directory. `InUse` says that what lies at
  the paths is a database, and `SchemasSeen` what a process may still rely on after it
  looked at the schema outside the transaction.
  `NothingIsEverLost` and `FilesAreTogether` need more, as `Undoable` speaks of a restore only
  until an undoing of it fails. `Recovering` says what each path can have on it even then:
  nothing, or the restore's own copy, until what was moved away is back; and that a recovery
  directory has nothing in it before its restore puts something there. `LogsCost` counts what it
  takes to have a log without a process: one fault for it to be there, a second one for the
  restore to be undone, a third one for that to fail. `Together` carries, through a restore,
  which files the rows it began with and the rows of its copy refer to. The steps without a
  restore have one thing in common (`Ordinary`: they take nothing from a path but a log that
  was written into its database), and that is all the argument needs of them.
  `MigratedTicketsAreKept` goes by cases of the statuses, roles and accounts of a ticket.
  `HistoriesStayConnected` is for histories of any length: between two rows that stay, all rows
  are of one simpler status (`NeverChanged`, by a least counterexample, as induction is out of
  reach).

**Model-checked only.** Liveness (`EventuallySettled`, `EventuallyCovered`), as fairness and
ENABLED are out of the prover's reach; and the two violations of section 3, which are
counterexamples. Every safety property and every action property of a passing run is a
theorem.

## 5. Plan

What is next, in this order:

1. `FailureIsEarned` and `FirstAttemptsInOrder` for overlapping dispatchers: which exceptions
   a second dispatcher asks for, and whether a count like that of `AcceptedOnce` bounds them.
2. `NewestIsKept` of `EmailOutbox` for two workers, up to a named exception for the late mark
   that section 3 describes.
3. The composition of `Desk` with `DomainEvents` and both outboxes: a save followed to
   the mail it causes. The parts share events only, which each module takes from
   any handler at any time, so that what is proved of a part holds in the whole; what a
   composition would add is the delay between a save and its projection, in which the
   ticket it describes changes.
4. Read markers, the rate limiter, the data changes of migrations 6 and 8.

## 6. Not modelled

* **HTTP layer**: decoding, headers, cookies, rendering. Handlers appear as the store
  operations they call and the checks before them. The rate limiter keeps counters in
  memory that no other part reads.
* **Process, configuration and command line**: what starts and stops is in the modules'
  crashes and fairness; reading configuration is input.
* **Rendering** of mail and webhooks, addresses, links, signatures; SMTP, TLS and IMAP below
  the level of commands. No property looks at the text.
* **Ticket data**: titles, descriptions and priorities are one flag, comments are their kind;
  read markers are left out, as nothing else depends on them.
* **Products**: names, keys, and more than one of them.
* **Uploads**: sizes, types, names and the limits on them.
* **Backup and restore**: archive formats, manifests, permissions, choosing the latest
  backup, symbolic links. **Schema**: the dry run of `db migrate`, validation against the schema
  text, the data changes of migrations 6 and 8, and processes of different versions
  beside each other.
* The browser front end and its demo, metrics and diagnostics.

## 7. Running

    tlc -workers 2 -config EmailReplies.cfg MCEmailReplies.tla
    tlapm EmailRepliesProofs.tla

The longest runs take two to three minutes with two workers; the largest proof,
`DatabaseFilesProofs`, four to eight.
