---------------------------- MODULE EmailOutbox ----------------------------
(***************************************************************************)
(* The email outbox of Pappice: email_notifications, the accounts that     *)
(* mail is addressed to, and the workers that send it.                     *)
(*                                                                         *)
(* A projection queues one mail per active recipient, or rewrites the mail *)
(* still pending for the same recipient and ticket (or account event),     *)
(* which also gives that mail its attempts back.  A worker claims due rows *)
(* under a lease, sends each one, and marks it sent, or due again after a  *)
(* backoff, or failed.  Unlike a webhook's, a mail's attempt is counted    *)
(* when it has failed, not when it is claimed.  Disabling or deleting an   *)
(* account cancels its pending mail; an administrator may retry a failed   *)
(* one.                                                                    *)
(*                                                                         *)
(* A payload is the number of the projection that wrote it.  Time is the   *)
(* two booleans due and leased of a row.                                   *)
(***************************************************************************)
EXTENDS Naturals, Sequences, FiniteSets

CONSTANTS
    Users,        \* accounts
    NoUser,       \* user_id IS NULL
    Tickets,      \* tickets
    Events,       \* what a mail without a ticket is about: account.reset, ...
    Workers,      \* mail workers on the database
    MaxMails,     \* bound: rows ever inserted in email_notifications
    MaxVersions,  \* bound: projections and test mails
    MaxAttempts,  \* Worker.MaxAttempts, 5 in the program
    BatchSize,    \* Worker.BatchSize, 10 in the program
    MaxRetries,   \* bound: mails that an administrator retries, once each
    MaxFaults     \* bound: crashes, database errors, leases lost while held

Topics == Tickets \cup Events

ASSUME EmailOutboxAssumption ==
    /\ MaxMails \in Nat
    /\ MaxVersions \in Nat
    /\ MaxAttempts \in Nat \ {0}
    /\ BatchSize \in Nat \ {0}
    /\ MaxRetries \in Nat
    /\ MaxFaults \in Nat
    /\ IsFiniteSet(Users) /\ NoUser \notin Users
    /\ Topics # {} /\ Tickets \cap Events = {}

VARIABLES
    user,      \* [Users -> {"active", "disabled", "deleted"}]
    live,      \* tickets that exist
    mail,      \* email_notifications
    lastId,    \* its sqlite_sequence
    version,   \* projections applied so far
    retried,   \* mails retried by hand so far
    newest,    \* history: the last payload queued for a user since enabled
    received,  \* history: payloads that arrived from a row
    sends,     \* history: messages sent from a row since its last reset
    accepted,  \* history: those that the mail server accepted
    worker,    \* what each worker holds in memory
    faults     \* faults so far

tableVars == <<user, live, retried>>
queueVars == <<lastId, version, newest>>
wireVars  == <<received, sends, accepted>>
vars == <<tableVars, mail, queueVars, wireVars, worker, faults>>

-----------------------------------------------------------------------------
MailId  == 1..MaxMails
Version == 0..MaxVersions

\* "none" before the insert, "gone" after a cancellation or a cascade.
MailStatus == {"none", "pending", "sending", "sent", "failed", "gone"}

MailRow ==
    [user     : Users \cup {NoUser},
     topic    : Topics,
     payload  : Version,
     status   : MailStatus,
     attempts : Nat,
     created  : Nat,      \* created_at: rows of one projection share it
     due      : BOOLEAN,
     leased   : BOOLEAN]

NoMail ==
    [user |-> NoUser, topic |-> CHOOSE t \in Topics : TRUE, payload |-> 0,
     status |-> "none", attempts |-> 0, created |-> 0,
     due |-> FALSE, leased |-> FALSE]

\* A claimed mail is copied: it is sent as it was claimed.
Copy == [id : MailId, payload : Version]

WorkerState ==
    [pc    : {"idle", "send", "sent", "read", "write"},
     batch : Seq(Copy),
     seen  : Nat]

Holding(pc, batch) == [pc |-> pc, batch |-> batch, seen |-> 0]

Idle == Holding("idle", <<>>)

TypeOK ==
    /\ user \in [Users -> {"active", "disabled", "deleted"}]
    /\ live \in SUBSET Tickets
    /\ mail \in [MailId -> MailRow]
    /\ lastId \in 0..MaxMails
    /\ version \in Version
    /\ retried \subseteq MailId
    /\ newest \in [Users -> [Topics -> Version]]
    /\ received \in [MailId -> SUBSET Version]
    /\ sends \in [MailId -> Nat]
    /\ accepted \in [MailId -> Nat]
    /\ worker \in [Workers -> WorkerState]
    /\ faults \in 0..MaxFaults

Init ==
    /\ user = [u \in Users |-> "active"]
    /\ live = Tickets
    /\ mail = [n \in MailId |-> NoMail]
    /\ lastId = 0
    /\ version = 0
    /\ retried = {}
    /\ newest = [u \in Users |-> [t \in Topics |-> 0]]
    /\ received = [n \in MailId |-> {}]
    /\ sends = [n \in MailId |-> 0]
    /\ accepted = [n \in MailId |-> 0]
    /\ worker = [w \in Workers |-> Idle]
    /\ faults = 0

Exists(n) == mail[n].status \notin {"none", "gone"}

PendingOf(u) == {n \in MailId : mail[n].status = "pending" /\ mail[n].user = u}

Withdrawn(r) == [r EXCEPT !.status = "gone", !.leased = FALSE]

Forget(u) == newest' = [newest EXCEPT ![u] = [t \in Topics |-> 0]]

-----------------------------------------------------------------------------
(* Accounts and tickets, changed by handlers.                              *)

\* Mutant: pending mail is left alone.
CancelNothing(u) == UNCHANGED mail

\* cancelPendingUserEmailsTx
CancelPending(u) ==
    mail' = [n \in MailId |-> IF n \in PendingOf(u) THEN Withdrawn(mail[n])
                              ELSE mail[n]]

\* UpdateUser with disabled set
DisableUser(u) ==
    /\ user[u] = "active"
    /\ user' = [user EXCEPT ![u] = "disabled"]
    /\ CancelPending(u)
    /\ Forget(u)
    /\ UNCHANGED <<live, retried, lastId, version, wireVars, worker, faults>>

EnableUser(u) ==
    /\ user[u] = "disabled"
    /\ user' = [user EXCEPT ![u] = "active"]
    /\ UNCHANGED <<live, retried, mail, queueVars, wireVars, worker, faults>>

\* DeleteUser of an account without ticket history.  Pending mail is
\* cancelled, the rest keeps its address and loses its user.
DeleteUser(u) ==
    /\ user[u] # "deleted"
    /\ user' = [user EXCEPT ![u] = "deleted"]
    /\ mail' = [n \in MailId |->
                  IF n \in PendingOf(u) THEN Withdrawn(mail[n])
                  ELSE IF Exists(n) /\ mail[n].user = u
                       THEN [mail[n] EXCEPT !.user = NoUser]
                       ELSE mail[n]]
    /\ Forget(u)
    /\ UNCHANGED <<live, retried, lastId, version, wireVars, worker, faults>>

\* DeleteTicket, ON DELETE CASCADE
DeleteTicket(t) ==
    /\ t \in live
    /\ live' = live \ {t}
    /\ mail' = [n \in MailId |-> IF Exists(n) /\ mail[n].topic = t
                                 THEN Withdrawn(mail[n])
                                 ELSE mail[n]]
    /\ UNCHANGED <<user, retried, queueVars, wireVars, worker, faults>>

-----------------------------------------------------------------------------
(* The projection's side.                                                  *)

\* pendingEmailNotificationIDTx
Coalescable(n, u, topic) ==
    /\ mail[n].status = "pending"
    /\ mail[n].user = u
    /\ mail[n].topic = topic

\* Mutant: only the time of the next attempt is refreshed.
Postponed(r, due) == [r EXCEPT !.attempts = 0, !.due = due]

\* A rewritten mail starts over, whatever its attempts were.
Rewritten(r, due) ==
    [r EXCEPT !.payload = version + 1, !.status = "pending", !.attempts = 0,
              !.due = due, !.leased = FALSE]

NewMail(u, topic, due) ==
    [user |-> u, topic |-> topic, payload |-> version + 1, status |-> "pending",
     attempts |-> 0, created |-> version + 1, due |-> due, leased |-> FALSE]

Reset(ids) ==
    /\ sends' = [n \in MailId |-> IF n \in ids THEN 0 ELSE sends[n]]
    /\ accepted' = [n \in MailId |-> IF n \in ids THEN 0 ELSE accepted[n]]

\* enqueueEmailNotificationsTx for one event, addressed to the recipients that
\* the projection found; those no longer active are skipped.  The
\* notification delay may be over already.
Enqueue(topic, recipients) ==
    LET active == {u \in recipients : user[u] = "active"}
        reused == {u \in active : \E n \in MailId : Coalescable(n, u, topic)}
        fresh  == active \ reused
        ids    == lastId + 1 .. lastId + Cardinality(fresh)
    IN
    /\ version < MaxVersions
    /\ topic \in live \cup Events
    /\ active # {}
    /\ ids \subseteq MailId
    /\ \E due \in BOOLEAN :
       \E owner \in [ids -> fresh] :
       \E old \in [reused -> MailId] :
           /\ \A u \in fresh : \E n \in ids : owner[n] = u
           /\ \A u \in reused :
                  /\ Coalescable(old[u], u, topic)
                  /\ \A n \in MailId :
                         Coalescable(n, u, topic) => mail[n].created <= mail[old[u]].created
           /\ mail' = [n \in MailId |->
                  IF n \in ids THEN NewMail(owner[n], topic, due)
                  ELSE IF \E u \in reused : old[u] = n
                       THEN Rewritten(mail[n], due)
                       ELSE mail[n]]
           /\ Reset({old[u] : u \in reused})
    /\ lastId' = lastId + Cardinality(fresh)
    /\ version' = version + 1
    /\ newest' = [u \in Users |-> IF u \in active
                                  THEN [newest[u] EXCEPT ![topic] = version + 1]
                                  ELSE newest[u]]
    /\ UNCHANGED <<tableVars, received, worker, faults>>

\* The test mail goes to an address, not to an account, and is due at once.
EnqueueTest(event) ==
    LET n == lastId + 1 IN
    /\ version < MaxVersions
    /\ n \in MailId
    /\ mail' = [mail EXCEPT ![n] = NewMail(NoUser, event, TRUE)]
    /\ lastId' = n
    /\ version' = version + 1
    /\ UNCHANGED <<tableVars, newest, wireVars, worker, faults>>

Retried(r) ==
    [r EXCEPT !.status = "pending", !.attempts = 0, !.due = TRUE, !.leased = FALSE]

\* RetryEmailNotification
Retry(n) ==
    /\ n \notin retried /\ Cardinality(retried) < MaxRetries
    /\ mail[n].status = "failed"
    /\ mail' = [mail EXCEPT ![n] = Retried(@)]
    /\ Reset({n})
    /\ retried' = retried \cup {n}
    /\ UNCHANGED <<user, live, queueVars, received, worker, faults>>

-----------------------------------------------------------------------------
(* The worker.                                                             *)

\* Mutant: a row whose worker died is not taken over.
ClaimableOnce(n) == mail[n].status = "pending" /\ mail[n].due

\* Mutant: the lease is not looked at.
ClaimableAnyway(n) ==
    \/ mail[n].status = "pending" /\ mail[n].due
    \/ mail[n].status = "sending"

Claimable(n) ==
    \/ mail[n].status = "pending" /\ mail[n].due
    \/ mail[n].status = "sending" /\ ~mail[n].leased

ClaimableIds == {n \in MailId : Claimable(n)}

\* ORDER BY created_at LIMIT BatchSize, rows of one projection in any order
IsNextBatch(ids) ==
    LET chosen == {ids[i] : i \in DOMAIN ids} IN
    /\ \A i, j \in DOMAIN ids : i < j =>
           ids[i] # ids[j] /\ mail[ids[i]].created <= mail[ids[j]].created
    /\ \A n \in ClaimableIds \ chosen :
           /\ Len(ids) = BatchSize
           /\ \A m \in chosen : mail[m].created <= mail[n].created

Taken(r) == [r EXCEPT !.status = "sending", !.leased = TRUE]

\* ClaimEmailNotifications
Claim(w) ==
    /\ worker[w].pc = "idle"
    /\ \E k \in 1..BatchSize : \E ids \in [1..k -> ClaimableIds] :
           /\ IsNextBatch(ids)
           /\ mail' = [n \in MailId |-> IF \E i \in 1..k : ids[i] = n
                                        THEN Taken(mail[n])
                                        ELSE mail[n]]
           /\ worker' = [worker EXCEPT ![w] = Holding("send",
                  [i \in 1..k |-> [id |-> ids[i], payload |-> mail[ids[i]].payload]])]
    /\ UNCHANGED <<tableVars, queueVars, wireVars, faults>>

Current(w) == Head(worker[w].batch)

\* Leave the current mail and go on with the batch.
NextInBatch(w) ==
    LET batch == worker[w].batch IN
    worker' = [worker EXCEPT ![w] = IF Len(batch) = 1 THEN Idle
                                    ELSE Holding("send", Tail(batch))]

AfterSend(ok) == IF ok THEN "sent" ELSE "read"

\* Mailer.Send: the mail arrives or not, and the server says so or not.
Send(w) ==
    LET n == Current(w).id IN
    /\ worker[w].pc = "send"
    /\ \E arrived \in BOOLEAN : \E ok \in {FALSE, arrived} :
           /\ received' = IF arrived
                          THEN [received EXCEPT ![n] = @ \cup {Current(w).payload}]
                          ELSE received
           /\ accepted' = IF ok THEN [accepted EXCEPT ![n] = @ + 1] ELSE accepted
           /\ worker' = [worker EXCEPT ![w].pc = AfterSend(ok)]
    /\ sends' = [sends EXCEPT ![n] = @ + 1]
    /\ UNCHANGED <<tableVars, mail, queueVars, faults>>

\* MarkEmailSent: UPDATE ... WHERE id = ?
MarkSent(w) ==
    LET n == Current(w).id IN
    /\ worker[w].pc = "sent"
    /\ mail' = IF Exists(n)
               THEN [mail EXCEPT ![n] = [@ EXCEPT !.status = "sent", !.leased = FALSE]]
               ELSE mail
    /\ NextInBatch(w)
    /\ UNCHANGED <<tableVars, queueVars, wireVars, faults>>

\* MarkEmailFailed reads the row ...
ReadAttempts(w) ==
    LET n == Current(w).id IN
    /\ worker[w].pc = "read"
    /\ IF Exists(n)
       THEN worker' = [worker EXCEPT ![w] = [@ EXCEPT !.pc = "write",
                                                      !.seen = mail[n].attempts]]
       ELSE NextInBatch(w)
    /\ UNCHANGED <<tableVars, mail, queueVars, wireVars, faults>>

\* Due again after a backoff, unless that was the last attempt.
Failed(r, seen) ==
    [r EXCEPT !.status = IF seen + 1 >= MaxAttempts THEN "failed" ELSE "pending",
              !.attempts = seen + 1,
              !.due = seen + 1 >= MaxAttempts,
              !.leased = FALSE]

\* ... and then writes: UPDATE ... WHERE id = ?
MarkFailed(w) ==
    LET n == Current(w).id IN
    /\ worker[w].pc = "write"
    /\ mail' = IF Exists(n) THEN [mail EXCEPT ![n] = Failed(@, worker[w].seen)]
               ELSE mail
    /\ NextInBatch(w)
    /\ UNCHANGED <<tableVars, queueVars, wireVars, faults>>

-----------------------------------------------------------------------------
(* Failures and time.                                                      *)

Fault == faults < MaxFaults /\ faults' = faults + 1

\* Neither mark can be written: the lease is all that is left.
MarkFails(w) ==
    /\ Fault
    /\ worker[w].pc \in {"sent", "read", "write"}
    /\ NextInBatch(w)
    /\ UNCHANGED <<tableVars, mail, queueVars, wireVars>>

\* The process dies, its context is cancelled between two mails, or
\* EmailReplyToken fails: the rest of the batch waits for its lease.
Abandon(w) ==
    /\ Fault
    /\ worker[w].pc # "idle"
    /\ worker' = [worker EXCEPT ![w] = Idle]
    /\ UNCHANGED <<tableVars, mail, queueVars, wireVars>>

Held(n) == \E w \in Workers : \E i \in DOMAIN worker[w].batch :
               worker[w].batch[i].id = n

\* A lease that runs out under its holder counts as a fault, for the bound.
LeaseExpires(n) ==
    /\ mail[n].status = "sending"
    /\ mail[n].leased
    /\ IF Held(n) THEN Fault ELSE UNCHANGED faults
    /\ mail' = [mail EXCEPT ![n].leased = FALSE]
    /\ UNCHANGED <<tableVars, queueVars, wireVars, worker>>

\* next_attempt_at passes: the notification delay, or a backoff.
BecomesDue(n) ==
    /\ mail[n].status = "pending"
    /\ ~mail[n].due
    /\ mail' = [mail EXCEPT ![n].due = TRUE]
    /\ UNCHANGED <<tableVars, queueVars, wireVars, worker, faults>>

-----------------------------------------------------------------------------
Handler ==
    \/ \E u \in Users : DisableUser(u) \/ EnableUser(u) \/ DeleteUser(u)
    \/ \E t \in Tickets : DeleteTicket(t)
    \/ \E topic \in Topics, recipients \in SUBSET Users : Enqueue(topic, recipients)
    \/ \E event \in Events : EnqueueTest(event)
    \/ \E n \in MailId : Retry(n)

Deliver(w) ==
    \/ Claim(w)
    \/ Send(w)
    \/ MarkSent(w)
    \/ ReadAttempts(w)
    \/ MarkFailed(w)

Next ==
    \/ Handler
    \/ \E w \in Workers : Deliver(w) \/ MarkFails(w) \/ Abandon(w)
    \/ \E n \in MailId : LeaseExpires(n) \/ BecomesDue(n)

Spec == Init /\ [][Next]_vars

\* Worker.Run polls every five seconds, SMTP has deadlines, and time passes.
\* Nothing is promised of handlers and faults.
Fairness ==
    /\ \A w \in Workers : WF_vars(Deliver(w))
    /\ \A n \in MailId : WF_vars(LeaseExpires(n)) /\ WF_vars(BecomesDue(n))

FairSpec == Spec /\ Fairness

-----------------------------------------------------------------------------
(* What the outbox promises.                                               *)

\* Coalescing never loses the latest state: the last payload queued for an
\* active account was received, or is on its way, or was given up.  And a row
\* that says sent arrived as it stands: rewriting changes a mail that was
\* attempted before, and the mark looks at nothing but the id; what keeps them
\* apart is that a lone worker's mails are not pending.  And it was given up
\* only after as many attempts as there are, which a lone worker exceeds by
\* no more than there were faults.
NewestIsKept ==
    /\ \A n \in MailId :
        /\ mail[n].status = "sent" => mail[n].payload \in received[n]
        /\ mail[n].status = "failed" => sends[n] >= MaxAttempts
        /\ sends[n] <= MaxAttempts + faults
    /\ \A u \in Users, t \in live \cup Events :
        (user[u] = "active" /\ newest[u][t] > 0) =>
            \E n \in MailId :
                /\ mail[n].user = u
                /\ mail[n].topic = t
                /\ mail[n].payload = newest[u][t]
                /\ \/ mail[n].status \in {"pending", "sending", "failed"}
                   \/ newest[u][t] \in received[n]

\* A mail that the server accepted is sent again only because of a fault:
\* a crash before the mark, a mark that failed, a lease lost.
AcceptedOnce == \A n \in MailId : accepted[n] <= 1 + faults

\* Once an account is disabled its mail is not taken up any more.
\* CHANGELOG.md: "Skip queued mail for disabled accounts".
DisabledIsSkipped ==
    [][\A n \in MailId, u \in Users :
           (/\ mail[n].user = u
            /\ ~(mail[n].status = "sending" /\ mail[n].leased)
            /\ mail'[n].status = "sending" /\ mail'[n].leased)
           => user[u] # "disabled"]_vars

\* What the code does ensure: mail pending for a disabled account has failed
\* before, or was retried by an administrator.
NothingNewForDisabled ==
    \A n \in MailId, u \in Users :
        (mail[n].status = "pending" /\ mail[n].user = u /\ user[u] = "disabled")
            => mail[n].attempts > 0 \/ n \in retried

\* Every queued mail is sent, given up or withdrawn: rewriting, which starts
\* over, and crashes do not strand it.
EventuallySettled ==
    \A n \in MailId :
        mail[n].status = "pending" ~> mail[n].status \in {"sent", "failed", "gone"}
=============================================================================
