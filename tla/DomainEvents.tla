---------------------------- MODULE DomainEvents ----------------------------
(***************************************************************************)
(* The transactional event log of Pappice and the workers that project it. *)
(*                                                                         *)
(* Every mutation of the desk (a ticket saved, an account deleted, ...)    *)
(* inserts rows of domain_events in its own SQLite transaction.  A         *)
(* dispatcher claims the due rows under a lease, reads what it needs to    *)
(* build a projection, and applies the projection - one audit row, the     *)
(* email and webhook notifications, the row marked processed - in one      *)
(* transaction.  A failed projection is retried with backoff and given up  *)
(* after MaxAttempts.  SQLite runs with one connection, so a transaction   *)
(* is one step here, and everything the dispatcher does in between two     *)
(* statements may interleave with the handlers and with a second           *)
(* dispatcher process on the same database file (a restart that overlaps). *)
(*                                                                         *)
(* Time is abstracted to two booleans per row: due (next_attempt_at has    *)
(* passed) and leased (locked_until has not).                              *)
(***************************************************************************)
EXTENDS Naturals, Sequences, FiniteSets

CONSTANTS
    Users,        \* accounts; all of them administrators
    Tickets,      \* ticket ids, each used once (AUTOINCREMENT)
    Hooks,        \* webhooks subscribed to every ticket event
    Workers,      \* dispatcher processes on the database
    NoOne,        \* user id 0: no actor, no target account
    MaxEvents,    \* bound: rows ever inserted in domain_events
    MaxAttempts,  \* maxDispatchAttempts, 5 in the code
    BatchSize,    \* eventDispatchBatchSize, 25 in the code
    MaxFaults     \* bound: crashes, cancellations and database errors

ASSUME DomainEventsAssumption ==
    /\ MaxEvents \in Nat
    /\ MaxAttempts \in Nat \ {0}
    /\ BatchSize \in Nat \ {0}
    /\ MaxFaults \in Nat
    /\ NoOne \notin Users \cup Tickets

VARIABLES
    users,    \* accounts in the users table
    tickets,  \* [Tickets -> {"absent", "live", "deleted"}]
    authors,  \* [Tickets -> SUBSET Users]: accounts the ticket's history names
    hooks,    \* webhooks in the webhooks table
    row,      \* domain_events, "none" before the insert, "pruned" after
    lastId,   \* sqlite_sequence of domain_events
    ahead,    \* <<d, e>>: next_attempt_at of d sorts before that of e
    audit,    \* domain_event_id of the rows of audit_events (unique)
    outbox,   \* history: how often the event's notifications were queued
    worker,   \* what each dispatcher holds in memory
    faults    \* faults so far

tableVars == <<users, tickets, authors, hooks>>
logVars   == <<row, lastId, ahead>>
outVars   == <<audit, outbox>>
vars      == <<tableVars, logVars, outVars, worker, faults>>

-----------------------------------------------------------------------------
EventId == 1..MaxEvents

Settled == {"processed", "failed", "pruned"}
Status  == {"none", "pending", "processing"} \cup Settled

EventRow ==
    [kind     : {"ticket", "app", "link"},
     actor    : Users \cup {NoOne},
     about    : Users \cup Tickets \cup {NoOne},
     status   : Status,
     attempts : 0..MaxAttempts,
     due      : BOOLEAN,
     leased   : BOOLEAN]

\* A row as insertDomainEventTx writes it: pending, unattempted, due at once.
NewRow(kind, actor, about) ==
    [kind |-> kind, actor |-> actor, about |-> about, status |-> "pending",
     attempts |-> 0, due |-> TRUE, leased |-> FALSE]

NoRow ==
    [kind |-> "app", actor |-> NoOne, about |-> NoOne, status |-> "none",
     attempts |-> 0, due |-> FALSE, leased |-> FALSE]

\* The dispatcher's locals: the claimed batch with the current event first,
\* the projection built for it, the attempts MarkDomainEventFailed read.
WorkerState ==
    [pc     : {"idle", "project", "compose", "apply", "read", "write"},
     batch  : Seq(EventId),
     audited : BOOLEAN,
     emails : SUBSET Users,
     hooks  : SUBSET Hooks,
     seen   : 0..MaxAttempts]

Holding(pc, batch) ==
    [pc |-> pc, batch |-> batch, audited |-> FALSE,
     emails |-> {}, hooks |-> {}, seen |-> 0]

Idle == Holding("idle", <<>>)

TypeOK ==
    /\ users \in SUBSET Users
    /\ tickets \in [Tickets -> {"absent", "live", "deleted"}]
    /\ authors \in [Tickets -> SUBSET Users]
    /\ hooks \in SUBSET Hooks
    /\ row \in [EventId -> EventRow]
    /\ lastId \in 0..MaxEvents
    /\ ahead \in SUBSET (EventId \X EventId)
    /\ audit \in SUBSET EventId
    /\ outbox \in [EventId -> Nat]
    /\ worker \in [Workers -> WorkerState]
    /\ faults \in 0..MaxFaults

Init ==
    /\ users = Users
    /\ tickets = [t \in Tickets |-> "absent"]
    /\ authors = [t \in Tickets |-> {}]
    /\ hooks = Hooks
    /\ row = [e \in EventId |-> NoRow]
    /\ lastId = 0
    /\ ahead = {}
    /\ audit = {}
    /\ outbox = [e \in EventId |-> 0]
    /\ worker = [w \in Workers |-> Idle]
    /\ faults = 0

-----------------------------------------------------------------------------
(* The handlers.  Each is one transaction that ends in the insertion of    *)
(* its events, so the mutation and its events commit together.             *)

\* AUTOINCREMENT: an id is never handed out twice, pruned or not.
NewId(i) == lastId + i

\* insertDomainEventTx, n times in one transaction with the same timestamp.
InsertEvents(n, new) ==
    LET ids == {NewId(i) : i \in 1..n} IN
    /\ ids \subseteq EventId
    /\ row' = [e \in EventId |-> IF e \in ids THEN new ELSE row[e]]
    /\ lastId' = lastId + n
    /\ ahead' = ahead \cup
           {p \in EventId \X ids : p[1] < p[2] /\ (p[1] \in ids \/ row[p[1]].due)}
    /\ UNCHANGED <<outVars, worker, faults>>

\* CreateTicketWithAttachments: the actor becomes creator and requester.
CreateTicket(u, t) ==
    /\ u \in users
    /\ tickets[t] = "absent"
    /\ tickets' = [tickets EXCEPT ![t] = "live"]
    /\ authors' = [authors EXCEPT ![t] = {u}]
    /\ InsertEvents(1, NewRow("ticket", u, t))
    /\ UNCHANGED <<users, hooks>>

\* saveTicketTx: a patch and a comment insert one event each.  A comment, an
\* attachment or a status change names the actor in the ticket's history; a
\* patch of the title or the priority does not.
SaveTicket(u, t) ==
    /\ u \in users
    /\ tickets[t] = "live"
    /\ \E wrote \in SUBSET {u} :
           authors' = [authors EXCEPT ![t] = @ \cup wrote]
    /\ \E n \in 1..2 : InsertEvents(n, NewRow("ticket", u, t))
    /\ UNCHANGED <<users, tickets, hooks>>

DeleteTicket(u, t) ==
    /\ u \in users
    /\ tickets[t] = "live"
    /\ tickets' = [tickets EXCEPT ![t] = "deleted"]
    /\ authors' = [authors EXCEPT ![t] = {}]
    /\ InsertEvents(1, NewRow("app", u, NoOne))
    /\ UNCHANGED <<users, hooks>>

DeleteWebhook(u, h) ==
    /\ u \in users
    /\ h \in hooks
    /\ hooks' = hooks \ {h}
    /\ InsertEvents(1, NewRow("app", u, NoOne))
    /\ UNCHANGED <<users, tickets, authors>>

\* CreatePasswordResetLink: the event carries the link to mail to v.
CreatePasswordResetLink(u, v) ==
    /\ u \in users
    /\ v \in users
    /\ InsertEvents(1, NewRow("link", u, v))
    /\ UNCHANGED tableVars

\* DeleteUser: refused for an account a ticket's history names and for the
\* last active administrator.  Nothing stops an administrator from deleting
\* the account it acts with.
DeleteUser(u, v) ==
    /\ u \in users
    /\ v \in users
    /\ \A t \in Tickets : v \notin authors[t]
    /\ users \ {v} # {}
    /\ users' = users \ {v}
    /\ InsertEvents(1, NewRow("app", u, NoOne))
    /\ UNCHANGED <<tickets, authors, hooks>>

Handler ==
    \E u \in Users :
        \/ \E t \in Tickets :
               \/ CreateTicket(u, t)
               \/ SaveTicket(u, t)
               \/ DeleteTicket(u, t)
        \/ \E h \in Hooks : DeleteWebhook(u, h)
        \/ \E v \in Users :
               \/ CreatePasswordResetLink(u, v)
               \/ DeleteUser(u, v)

-----------------------------------------------------------------------------
(* The dispatcher.                                                         *)

\* Mutant: a row whose lease ran out is not taken again.
ClaimableOnce(e) == row[e].status = "pending" /\ row[e].due

Claimable(e) ==
    \/ row[e].status = "pending" /\ row[e].due
    \/ row[e].status = "processing" /\ ~row[e].leased

ClaimableIds == {e \in EventId : Claimable(e)}

\* Mutant: LIMIT without ORDER BY.
IsAnyBatch(batch) ==
    LET chosen == {batch[i] : i \in DOMAIN batch} IN
    /\ Cardinality(chosen) = Len(batch)
    /\ chosen # ClaimableIds => Len(batch) = BatchSize

\* ORDER BY next_attempt_at, id LIMIT BatchSize
IsNextBatch(batch) ==
    LET chosen == {batch[i] : i \in DOMAIN batch} IN
    /\ \A i, j \in DOMAIN batch : i < j => <<batch[i], batch[j]>> \in ahead
    /\ \A d \in ClaimableIds \ chosen :
           /\ Len(batch) = BatchSize
           /\ \A e \in chosen : <<e, d>> \in ahead

Taken(r) == [r EXCEPT !.status = "processing", !.leased = TRUE]

\* ClaimDomainEvents: takes the lease and leaves attempts alone.
Claim(w) ==
    /\ worker[w].pc = "idle"
    /\ \E n \in 1..BatchSize : \E batch \in [1..n -> ClaimableIds] :
           /\ IsNextBatch(batch)
           /\ row' = [e \in EventId |->
                         IF \E i \in 1..n : batch[i] = e
                         THEN Taken(row[e])
                         ELSE row[e]]
           /\ worker' = [worker EXCEPT ![w] = Holding("project", batch)]
    /\ UNCHANGED <<tableVars, lastId, ahead, outVars, faults>>

Current(w) == Head(worker[w].batch)

\* Leave the current event and go on with the batch.
NextInBatch(w) ==
    LET batch == worker[w].batch IN
    worker' = [worker EXCEPT
                  ![w] = IF Len(batch) = 1 THEN Idle
                         ELSE Holding("project", Tail(batch))]

\* domainEventProjection up to its first read.  The event of a deleted
\* ticket projects to nothing, not even an audit row; an account link is
\* mailed if the account is still there.
Project(w) ==
    LET event == row[Current(w)] IN
    /\ worker[w].pc = "project"
    /\ worker' = [worker EXCEPT
          ![w] = CASE event.kind = "ticket" /\ tickets[event.about] = "live" ->
                        [@ EXCEPT !.pc = "compose", !.audited = TRUE]
                   [] event.kind = "ticket" /\ tickets[event.about] # "live" ->
                        [@ EXCEPT !.pc = "apply"]
                   [] event.kind = "link" ->
                        [@ EXCEPT !.pc = "apply", !.audited = TRUE,
                                  !.emails = {event.about} \cap users]
                   [] OTHER -> [@ EXCEPT !.pc = "apply", !.audited = TRUE]]
    /\ UNCHANGED <<tableVars, logVars, outVars, faults>>

\* projectTicketDomainEvent: a later read of the recipients (any accounts,
\* by role and subscription) and of the subscribed webhooks.
Compose(w) ==
    /\ worker[w].pc = "compose"
    /\ \E emails \in SUBSET users :
           worker' = [worker EXCEPT
                         ![w] = [@ EXCEPT !.pc = "apply",
                                          !.emails = emails,
                                          !.hooks = hooks]]
    /\ UNCHANGED <<tableVars, logVars, outVars, faults>>

\* Mutant: the event of a deleted ticket is an error, not an empty projection.
TicketMustBeLive(w) ==
    /\ worker[w].hooks \subseteq hooks
    /\ worker[w].audited => row[Current(w)].actor \in users \cup {NoOne}
    /\ row[Current(w)].kind = "ticket" => tickets[row[Current(w)].about] = "live"

\* What the foreign keys of audit_events, email_notifications and
\* webhook_notifications demand of the projection.  Accounts that went away
\* are skipped by the enqueue, they do not fail it.
ForeignKeysHold(w) ==
    LET event == row[Current(w)]
        proj  == worker[w]
    IN
    /\ proj.audited => event.actor \in users \cup {NoOne}
    /\ proj.hooks \subseteq hooks
    /\ (event.kind = "ticket" /\ (proj.emails \cap users # {} \/ proj.hooks # {}))
          => tickets[event.about] = "live"

\* Mutant: the status of the row is not looked at.
NotGone(e) == row[e].status # "pruned"

\* ApplyDomainEventProjection does nothing for a processed row, and finds
\* none after pruning.
Unapplied(e) == row[e].status \notin {"processed", "pruned"}

Processed(r) == [r EXCEPT !.status = "processed", !.leased = FALSE]

\* ApplyDomainEventProjection, committed.  A duplicate audit row is ignored.
Apply(w) ==
    LET e == Current(w) IN
    /\ worker[w].pc = "apply"
    /\ Unapplied(e)
    /\ ForeignKeysHold(w)
    /\ audit' = IF worker[w].audited THEN audit \cup {e} ELSE audit
    /\ outbox' = [outbox EXCEPT ![e] = @ + 1]
    /\ row' = [row EXCEPT ![e] = Processed(@)]
    /\ NextInBatch(w)
    /\ UNCHANGED <<tableVars, lastId, ahead, faults>>

\* The other dispatcher got there first: commit without a change.
ApplyAgain(w) ==
    /\ worker[w].pc = "apply"
    /\ row[Current(w)].status = "processed"
    /\ NextInBatch(w)
    /\ UNCHANGED <<tableVars, logVars, outVars, faults>>

\* The row is gone, or a foreign key is violated: the transaction rolls back.
ApplyFails(w) ==
    /\ worker[w].pc = "apply"
    /\ \/ row[Current(w)].status = "pruned"
       \/ Unapplied(Current(w)) /\ ~ForeignKeysHold(w)
    /\ worker' = [worker EXCEPT ![w] = [@ EXCEPT !.pc = "read"]]
    /\ UNCHANGED <<tableVars, logVars, outVars, faults>>

\* MarkDomainEventFailed reads the row outside a transaction ...
ReadAttempts(w) ==
    LET e == Current(w) IN
    /\ worker[w].pc = "read"
    /\ IF row[e].status = "pruned"
       THEN NextInBatch(w)
       ELSE worker' = [worker EXCEPT
                          ![w] = [@ EXCEPT !.pc = "write",
                                           !.seen = row[e].attempts]]
    /\ UNCHANGED <<tableVars, logVars, outVars, faults>>

GivenUp(attempts) == attempts >= MaxAttempts

\* Retried after a backoff, unless that was the last attempt.
Attempted(r, attempts) ==
    [r EXCEPT !.status = IF GivenUp(attempts) THEN "failed" ELSE "pending",
              !.attempts = attempts,
              !.due = GivenUp(attempts),
              !.leased = FALSE]

\* Mutant: UPDATE ... WHERE id = ?, whatever the status.
RowExists(e) == row[e].status # "pruned"

\* UPDATE ... WHERE id = ? AND status = 'processing'
StillProcessing(e) == row[e].status = "processing"

\* ... and then writes, if the row is still being processed.
MarkFailed(w) ==
    LET e == Current(w)
        attempts == worker[w].seen + 1
    IN
    /\ worker[w].pc = "write"
    /\ IF StillProcessing(e)
       THEN row' = [row EXCEPT ![e] = Attempted(@, attempts)]
       ELSE row' = row
    /\ NextInBatch(w)
    /\ UNCHANGED <<tableVars, lastId, ahead, outVars, faults>>

\* Mutant: pruning by age alone.
OldRow(e) == row[e].status \in {"processed", "failed", "pending"}

\* WHERE status = 'processed' AND processed_at < ?
Prunable(e) == row[e].status = "processed"

\* PruneProcessedDomainEvents, by the dispatcher between two dispatches, of
\* the rows that happen to be older than the retention.
Prune(w) ==
    /\ worker[w].pc = "idle"
    /\ \E old \in SUBSET {e \in EventId : Prunable(e)} :
           /\ old # {}
           /\ row' = [e \in EventId |->
                         IF e \in old THEN [row[e] EXCEPT !.status = "pruned"]
                                      ELSE row[e]]
    /\ UNCHANGED <<tableVars, lastId, ahead, outVars, worker, faults>>

-----------------------------------------------------------------------------
(* Failures and time.                                                      *)

Fault == faults < MaxFaults /\ faults' = faults + 1

\* A read of the projection, or the transaction, fails for another reason.
DatabaseError(w) ==
    /\ Fault
    /\ worker[w].pc \in {"project", "compose", "apply"}
    /\ worker' = [worker EXCEPT ![w] = [@ EXCEPT !.pc = "read"]]
    /\ UNCHANGED <<tableVars, logVars, outVars>>

\* MarkDomainEventFailed fails itself: the lease is all that is left.
MarkError(w) ==
    /\ Fault
    /\ worker[w].pc \in {"read", "write"}
    /\ NextInBatch(w)
    /\ UNCHANGED <<tableVars, logVars, outVars>>

\* The process dies, or its context is cancelled between two events.
Crash(w) ==
    /\ Fault
    /\ worker[w].pc # "idle"
    /\ worker' = [worker EXCEPT ![w] = Idle]
    /\ UNCHANGED <<tableVars, logVars, outVars>>

LeaseExpires(e) ==
    /\ row[e].status = "processing"
    /\ row[e].leased
    /\ row' = [row EXCEPT ![e].leased = FALSE]
    /\ UNCHANGED <<tableVars, lastId, ahead, outVars, worker, faults>>

\* next_attempt_at passes: the row now sorts after all that were due before.
BackoffElapses(e) ==
    /\ row[e].status = "pending"
    /\ ~row[e].due
    /\ row' = [row EXCEPT ![e].due = TRUE]
    /\ ahead' = {p \in ahead : e # p[1] /\ e # p[2]}
                   \cup {<<d, e>> : d \in {f \in EventId : row[f].due}}
    /\ UNCHANGED <<tableVars, lastId, outVars, worker, faults>>

-----------------------------------------------------------------------------
Dispatch(w) ==
    \/ Claim(w)
    \/ Project(w)
    \/ Compose(w)
    \/ Apply(w)
    \/ ApplyAgain(w)
    \/ ApplyFails(w)
    \/ ReadAttempts(w)
    \/ MarkFailed(w)

Next ==
    \/ Handler
    \/ \E w \in Workers :
           \/ Dispatch(w)
           \/ Prune(w)
           \/ DatabaseError(w)
           \/ MarkError(w)
           \/ Crash(w)
    \/ \E e \in EventId :
           \/ LeaseExpires(e)
           \/ BackoffElapses(e)

Spec == Init /\ [][Next]_vars

\* RunEventDispatcher polls every five seconds and time passes; nothing is
\* promised of the handlers, of pruning or of the faults.
Fairness ==
    /\ \A w \in Workers : WF_vars(Dispatch(w))
    /\ \A e \in EventId : WF_vars(LeaseExpires(e)) /\ WF_vars(BackoffElapses(e))

FairSpec == Spec /\ Fairness

-----------------------------------------------------------------------------
(* What the event log promises.                                            *)

Applied(e) == row[e].status \in {"processed", "pruned"}

\* However dispatchers overlap, crash and retry, the notifications of an
\* event are queued at most once (ApplyDomainEventProjection).
ProjectedOnce == \A e \in EventId : outbox[e] <= 1

\* A projection is all or nothing: an event that counts as processed, or was
\* pruned as such, has queued its notifications and has its audit row (unless
\* its ticket was deleted first), and any other event has left no trace.
ProjectionIsAtomic ==
    \A e \in EventId :
        IF Applied(e)
        THEN /\ outbox[e] > 0
             /\ \/ e \in audit
                \/ row[e].kind = "ticket" /\ tickets[row[e].about] = "deleted"
        ELSE outbox[e] = 0 /\ e \notin audit

\* An event is retried while it has attempts left and is given up exactly
\* when it has none, also when two dispatchers count them (MarkDomainEventFailed).
RetryBudget ==
    \A e \in EventId :
        /\ row[e].status \in {"pending", "processing"} => row[e].attempts < MaxAttempts
        /\ row[e].status = "failed" => row[e].attempts = MaxAttempts

\* No step undoes a projection or reopens what was given up: a dispatcher
\* that lost its lease cannot put back an event another one has processed.
NeverReopened ==
    [][\A e \in EventId :
          /\ Applied(e) => Applied(e)'
          /\ row[e].status = "failed" => row'[e].status \in Settled]_vars

\* With one dispatcher, an event of an account that still exists is given up
\* only after as many disturbances as there are attempts: each attempt is
\* spent on a fault, or on a webhook or ticket deleted under the projection.
Disturbances ==
    faults + Cardinality(Hooks \ hooks)
           + Cardinality({t \in Tickets : tickets[t] = "deleted"})

FailureIsEarned ==
    \A e \in EventId :
        (row[e].status = "failed" /\ row[e].actor \in users \cup {NoOne})
            => Disturbances >= MaxAttempts

\* With one dispatcher, an event is projected at its first attempt only after
\* every earlier event, except those that failed an attempt or were orphaned
\* by a crash and wait for their lease.
Orphaned(d) ==
    /\ row[d].status = "processing"
    /\ \A w \in Workers : \A i \in DOMAIN worker[w].batch : worker[w].batch[i] # d

FirstAttemptsInOrder ==
    [][\A e \in EventId :
          (~Applied(e) /\ Applied(e)' /\ row[e].attempts = 0) =>
              \A d \in 1..(e - 1) :
                  row[d].status \in Settled \/ row[d].attempts > 0 \/ Orphaned(d)]_vars

\* Every committed event is projected or given up in the end: leases,
\* backoff and polling leave none behind.
EventuallySettled ==
    \A e \in EventId : row[e].status = "pending" ~> row[e].status \in Settled

\* docs/architecture.md: workers project events into audit rows and email and
\* webhook notifications.  Without faults no committed event is lost.
CommittedWorkIsProjected == \A e \in EventId : row[e].status # "failed"
=============================================================================
