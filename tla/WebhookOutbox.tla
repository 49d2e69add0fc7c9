--------------------------- MODULE WebhookOutbox ---------------------------
(***************************************************************************)
(* The webhook outbox of Pappice: webhook_notifications and the workers    *)
(* that deliver them.                                                      *)
(*                                                                         *)
(* A projection queues one notification for every subscribed webhook, or   *)
(* rewrites one that nobody has tried yet.  A worker claims due rows under *)
(* a lease, which counts the attempt, and goes through its batch: it loads *)
(* the webhook, sends the request, records the outcome on the webhook, and *)
(* marks the row sent, or due again after a backoff, or failed.  The row   *)
(* is not touched between the claim and the mark, and neither mark looks   *)
(* at the row's status, so leases, crashes, coalescing, deletions and a    *)
(* second worker (two processes that overlap during a restart) meet here.  *)
(*                                                                         *)
(* A payload is the number of the projection that wrote it.  Time is the   *)
(* two booleans due and leased of a row.                                   *)
(***************************************************************************)
EXTENDS Naturals, Sequences, FiniteSets

CONSTANTS
    Hooks,        \* webhooks
    Tickets,      \* tickets
    Workers,      \* webhook dispatchers on the database
    MaxNotes,     \* bound: rows ever inserted in webhook_notifications
    MaxVersions,  \* bound: projections ever applied
    MaxAttempts,  \* maxDispatchAttempts, 5 in the code
    BatchSize,    \* webhookDispatchBatchSize, 25 in the code
    MaxFaults     \* bound: crashes, database errors, leases lost while held

ASSUME WebhookOutboxAssumption ==
    /\ MaxNotes \in Nat
    /\ MaxVersions \in Nat
    /\ MaxAttempts \in Nat \ {0}
    /\ BatchSize \in Nat \ {0}
    /\ MaxFaults \in Nat
    /\ Hooks # {} /\ IsFiniteSet(Hooks) /\ Tickets # {}

VARIABLES
    hook,      \* [Hooks -> {"enabled", "disabled", "deleted"}]
    result,    \* [Hooks -> ...]: webhooks.last_status and last_error
    live,      \* tickets that exist
    note,      \* webhook_notifications
    lastId,    \* its sqlite_sequence
    version,   \* projections applied so far
    newest,    \* history: the last payload queued for a webhook and a ticket
    received,  \* history: payloads a receiver got under a delivery id
    requests,  \* history: requests sent under a delivery id
    worker,    \* what each dispatcher holds in memory
    faults     \* faults so far

tableVars == <<hook, live>>
queueVars == <<lastId, version, newest>>
wireVars  == <<received, requests>>
vars == <<tableVars, result, note, queueVars, wireVars, worker, faults>>

-----------------------------------------------------------------------------
NoteId  == 1..MaxNotes
Version == 0..MaxVersions

\* "none" before the insert, "gone" when a foreign key took the row away.
NoteStatus == {"none", "pending", "sending", "sent", "failed", "gone"}

NoteRow ==
    [hook     : Hooks,
     ticket   : Tickets,
     payload  : Version,
     status   : NoteStatus,
     attempts : Nat,
     created  : Nat,      \* created_at: rows of one projection share it
     due      : BOOLEAN,
     leased   : BOOLEAN]

NoNote ==
    [hook |-> CHOOSE h \in Hooks : TRUE, ticket |-> CHOOSE t \in Tickets : TRUE,
     payload |-> 0, status |-> "none", attempts |-> 0, created |-> 0,
     due |-> FALSE, leased |-> FALSE]

\* A claimed notification is copied: its payload is sent as it was claimed.
Copy == [id : NoteId, hook : Hooks, payload : Version]

WorkerState ==
    [pc    : {"idle", "load", "deliver", "record", "sent", "read", "write"},
     batch : Seq(Copy),
     ok    : BOOLEAN,
     seen  : Nat]

Holding(pc, batch) == [pc |-> pc, batch |-> batch, ok |-> FALSE, seen |-> 0]

Idle == Holding("idle", <<>>)

TypeOK ==
    /\ hook \in [Hooks -> {"enabled", "disabled", "deleted"}]
    /\ result \in [Hooks -> {"none", "ok", "error"}]
    /\ live \in SUBSET Tickets
    /\ note \in [NoteId -> NoteRow]
    /\ lastId \in 0..MaxNotes
    /\ version \in Version
    /\ newest \in [Hooks -> [Tickets -> Version]]
    /\ received \in [NoteId -> SUBSET Version]
    /\ requests \in [NoteId -> Nat]
    /\ worker \in [Workers -> WorkerState]
    /\ faults \in 0..MaxFaults

Init ==
    /\ hook = [h \in Hooks |-> "enabled"]
    /\ result = [h \in Hooks |-> "none"]
    /\ live = Tickets
    /\ note = [n \in NoteId |-> NoNote]
    /\ lastId = 0
    /\ version = 0
    /\ newest = [h \in Hooks |-> [t \in Tickets |-> 0]]
    /\ received = [n \in NoteId |-> {}]
    /\ requests = [n \in NoteId |-> 0]
    /\ worker = [w \in Workers |-> Idle]
    /\ faults = 0

Exists(n) == note[n].status \notin {"none", "gone"}

-----------------------------------------------------------------------------
(* The tables the queue depends on, changed by handlers.                   *)

\* UpdateWebhook: rows already queued stay queued.
SetEnabled(h, status) ==
    /\ hook[h] # "deleted"
    /\ hook[h] # status
    /\ hook' = [hook EXCEPT ![h] = status]
    /\ UNCHANGED <<live, result, note, queueVars, wireVars, worker, faults>>

\* ON DELETE CASCADE
Cascade(gone) ==
    note' = [n \in NoteId |-> IF n \in gone /\ Exists(n)
                              THEN [note[n] EXCEPT !.status = "gone"]
                              ELSE note[n]]

DeleteWebhook(h) ==
    /\ hook[h] # "deleted"
    /\ hook' = [hook EXCEPT ![h] = "deleted"]
    /\ Cascade({n \in NoteId : note[n].hook = h})
    /\ UNCHANGED <<live, result, queueVars, wireVars, worker, faults>>

DeleteTicket(t) ==
    /\ t \in live
    /\ live' = live \ {t}
    /\ Cascade({n \in NoteId : note[n].ticket = t})
    /\ UNCHANGED <<hook, result, queueVars, wireVars, worker, faults>>

-----------------------------------------------------------------------------
(* The projection's side.                                                  *)

\* Mutant: a row waiting for its next attempt is rewritten too.
PendingAtAll(n, h, t) ==
    /\ note[n].status = "pending"
    /\ note[n].hook = h
    /\ note[n].ticket = t

\* pendingWebhookNotificationIDTx
Coalescable(n, h, t) ==
    /\ note[n].status = "pending"
    /\ note[n].attempts = 0
    /\ note[n].hook = h
    /\ note[n].ticket = t

\* Mutant: only the time of the next attempt is refreshed.
Postponed(r, payload, due) == [r EXCEPT !.due = due]

Rewritten(r, payload, due) == [r EXCEPT !.payload = payload, !.due = due]

NewNote(h, t, due) ==
    [hook |-> h, ticket |-> t, payload |-> version + 1, status |-> "pending",
     attempts |-> 0, created |-> version + 1, due |-> due, leased |-> FALSE]

\* enqueueWebhookNotificationsTx for one event of ticket t, which the
\* projection found targets subscribed to; some may be disabled by now.  The
\* notification delay may be over already.
Enqueue(t, targets) ==
    LET reused == {h \in targets : \E n \in NoteId : Coalescable(n, h, t)}
        fresh  == targets \ reused
        ids    == lastId + 1 .. lastId + Cardinality(fresh)
    IN
    /\ version < MaxVersions
    /\ t \in live
    /\ targets # {}
    /\ \A h \in targets : hook[h] # "deleted"
    /\ ids \subseteq NoteId
    /\ \E due \in BOOLEAN :
       \E owner \in [ids -> fresh] :
       \E old \in [reused -> NoteId] :
           /\ \A h \in fresh : \E n \in ids : owner[n] = h
           /\ \A h \in reused :
                  /\ Coalescable(old[h], h, t)
                  /\ \A n \in NoteId :
                         Coalescable(n, h, t) => note[n].created <= note[old[h]].created
           /\ note' = [n \in NoteId |->
                  IF n \in ids THEN NewNote(owner[n], t, due)
                  ELSE IF \E h \in reused : old[h] = n
                       THEN Rewritten(note[n], version + 1, due)
                       ELSE note[n]]
    /\ lastId' = lastId + Cardinality(fresh)
    /\ version' = version + 1
    /\ newest' = [h \in Hooks |-> IF h \in targets
                                  THEN [newest[h] EXCEPT ![t] = version + 1]
                                  ELSE newest[h]]
    /\ UNCHANGED <<tableVars, result, wireVars, worker, faults>>

-----------------------------------------------------------------------------
(* The worker.                                                             *)

\* Mutant: a row whose worker died is not taken over.
ClaimableOnce(n) == note[n].status = "pending" /\ note[n].due

Claimable(n) ==
    \/ note[n].status = "pending" /\ note[n].due
    \/ note[n].status = "sending" /\ ~note[n].leased

ClaimableIds == {n \in NoteId : Claimable(n)}

\* ORDER BY created_at LIMIT BatchSize, rows of one projection in any order
IsNextBatch(ids) ==
    LET chosen == {ids[i] : i \in DOMAIN ids} IN
    /\ \A i, j \in DOMAIN ids : i < j =>
           ids[i] # ids[j] /\ note[ids[i]].created <= note[ids[j]].created
    /\ \A n \in ClaimableIds \ chosen :
           /\ Len(ids) = BatchSize
           /\ \A m \in chosen : note[m].created <= note[n].created

\* Mutant: a row taken over from a lost lease is not counted again.
TakenOver(r) ==
    [r EXCEPT !.attempts = IF r.status = "pending" THEN @ + 1 ELSE @,
              !.status = "sending", !.leased = TRUE]

Taken(r) ==
    [r EXCEPT !.status = "sending", !.attempts = r.attempts + 1, !.leased = TRUE]

\* ClaimWebhookNotifications
Claim(w) ==
    /\ worker[w].pc = "idle"
    /\ \E k \in 1..BatchSize : \E ids \in [1..k -> ClaimableIds] :
           /\ IsNextBatch(ids)
           /\ note' = [n \in NoteId |-> IF \E i \in 1..k : ids[i] = n
                                        THEN Taken(note[n])
                                        ELSE note[n]]
           /\ worker' = [worker EXCEPT ![w] = Holding("load",
                  [i \in 1..k |-> [id |-> ids[i], hook |-> note[ids[i]].hook,
                                   payload |-> note[ids[i]].payload]])]
    /\ UNCHANGED <<tableVars, result, queueVars, wireVars, faults>>

Current(w) == Head(worker[w].batch)

Goto(w, pc) == worker' = [worker EXCEPT ![w].pc = pc]

\* Leave the current notification and go on with the batch.
NextInBatch(w) ==
    LET batch == worker[w].batch IN
    worker' = [worker EXCEPT ![w] = IF Len(batch) = 1 THEN Idle
                                    ELSE Holding("load", Tail(batch))]

\* Mutant: the webhook must be enabled, too.
NotEnabled(h) == hook[h] # "enabled"

Missing(h) == hook[h] = "deleted"

\* GetWebhook.  The notification of a missing webhook is marked sent.
Load(w) ==
    /\ worker[w].pc = "load"
    /\ Goto(w, IF Missing(Current(w).hook) THEN "sent" ELSE "deliver")
    /\ UNCHANGED <<tableVars, result, note, queueVars, wireVars, faults>>

\* deliverWebhook: the request reaches the receiver or not, and a 2xx answer
\* comes back or not.  (A request refused before it is sent, by
\* validateWebhookTarget, is one that does not reach the receiver.)
Deliver(w) ==
    LET n == Current(w).id IN
    /\ worker[w].pc = "deliver"
    /\ \E reached \in BOOLEAN : \E ok \in {FALSE, reached} :
           /\ received' = IF reached
                          THEN [received EXCEPT ![n] = @ \cup {Current(w).payload}]
                          ELSE received
           /\ worker' = [worker EXCEPT ![w].pc = "record", ![w].ok = ok]
    /\ requests' = [requests EXCEPT ![n] = @ + 1]
    /\ UNCHANGED <<tableVars, result, note, queueVars, faults>>

\* Mutant: a refused delivery is marked sent.
SentAnyway(ok) == "sent"

AfterRecord(ok) == IF ok THEN "sent" ELSE "read"

\* RecordDelivery; whether it succeeds does not matter to the notification.
Record(w) ==
    LET h == Current(w).hook IN
    /\ worker[w].pc = "record"
    /\ result' = IF Missing(h) THEN result
                 ELSE [result EXCEPT ![h] = IF worker[w].ok THEN "ok" ELSE "error"]
    /\ Goto(w, AfterRecord(worker[w].ok))
    /\ UNCHANGED <<tableVars, note, queueVars, wireVars, faults>>

\* MarkWebhookNotificationSent: UPDATE ... WHERE id = ?
MarkSent(w) ==
    LET n == Current(w).id IN
    /\ worker[w].pc = "sent"
    /\ note' = IF Exists(n)
               THEN [note EXCEPT ![n] = [@ EXCEPT !.status = "sent", !.leased = FALSE]]
               ELSE note
    /\ NextInBatch(w)
    /\ UNCHANGED <<tableVars, result, queueVars, wireVars, faults>>

\* MarkWebhookNotificationFailed reads the row ...
ReadAttempts(w) ==
    LET n == Current(w).id IN
    /\ worker[w].pc = "read"
    /\ IF Exists(n)
       THEN worker' = [worker EXCEPT ![w] = [@ EXCEPT !.pc = "write",
                                                      !.seen = note[n].attempts]]
       ELSE NextInBatch(w)
    /\ UNCHANGED <<tableVars, result, note, queueVars, wireVars, faults>>

GivenUp(attempts) == attempts >= MaxAttempts

\* Due again after a backoff, unless that was the last attempt.
Failed(r, attempts) ==
    [r EXCEPT !.status = IF GivenUp(attempts) THEN "failed" ELSE "pending",
              !.due = GivenUp(attempts),
              !.leased = FALSE]

\* ... and then writes: UPDATE ... WHERE id = ?
MarkFailed(w) ==
    LET n == Current(w).id IN
    /\ worker[w].pc = "write"
    /\ note' = IF Exists(n) THEN [note EXCEPT ![n] = Failed(@, worker[w].seen)]
               ELSE note
    /\ NextInBatch(w)
    /\ UNCHANGED <<tableVars, result, queueVars, wireVars, faults>>

-----------------------------------------------------------------------------
(* Failures and time.                                                      *)

Fault == faults < MaxFaults /\ faults' = faults + 1

\* GetWebhook fails, and the delivery with it.
LoadFails(w) ==
    /\ Fault
    /\ worker[w].pc = "load"
    /\ Goto(w, "read")
    /\ UNCHANGED <<tableVars, result, note, queueVars, wireVars>>

\* RecordDelivery fails; the delivery counts as it went.
RecordFails(w) ==
    /\ Fault
    /\ worker[w].pc = "record"
    /\ Goto(w, AfterRecord(worker[w].ok))
    /\ UNCHANGED <<tableVars, result, note, queueVars, wireVars>>

\* Neither mark can be written: the lease is all that is left.
MarkFails(w) ==
    /\ Fault
    /\ worker[w].pc \in {"sent", "read", "write"}
    /\ NextInBatch(w)
    /\ UNCHANGED <<tableVars, result, note, queueVars, wireVars>>

\* The process dies, or its context is cancelled between two notifications.
Crash(w) ==
    /\ Fault
    /\ worker[w].pc # "idle"
    /\ worker' = [worker EXCEPT ![w] = Idle]
    /\ UNCHANGED <<tableVars, result, note, queueVars, wireVars>>

Held(n) == \E w \in Workers : \E i \in DOMAIN worker[w].batch :
               worker[w].batch[i].id = n

\* A lease that runs out under its holder - a minute for a batch of 25
\* requests of up to eight seconds each - counts as a fault, for the bound.
LeaseExpires(n) ==
    /\ note[n].status = "sending"
    /\ note[n].leased
    /\ IF Held(n) THEN Fault ELSE UNCHANGED faults
    /\ note' = [note EXCEPT ![n].leased = FALSE]
    /\ UNCHANGED <<tableVars, result, queueVars, wireVars, worker>>

\* next_attempt_at passes: the notification delay, or a backoff.
BecomesDue(n) ==
    /\ note[n].status = "pending"
    /\ ~note[n].due
    /\ note' = [note EXCEPT ![n].due = TRUE]
    /\ UNCHANGED <<tableVars, result, queueVars, wireVars, worker, faults>>

-----------------------------------------------------------------------------
Handler ==
    \/ \E h \in Hooks, status \in {"enabled", "disabled"} : SetEnabled(h, status)
    \/ \E h \in Hooks : DeleteWebhook(h)
    \/ \E t \in Tickets :
           \/ DeleteTicket(t)
           \/ \E targets \in SUBSET Hooks : Enqueue(t, targets)

Dispatch(w) ==
    \/ Claim(w)
    \/ Load(w)
    \/ Deliver(w)
    \/ Record(w)
    \/ MarkSent(w)
    \/ ReadAttempts(w)
    \/ MarkFailed(w)

Next ==
    \/ Handler
    \/ \E w \in Workers :
           \/ Dispatch(w)
           \/ LoadFails(w)
           \/ RecordFails(w)
           \/ MarkFails(w)
           \/ Crash(w)
    \/ \E n \in NoteId : LeaseExpires(n) \/ BecomesDue(n)

Spec == Init /\ [][Next]_vars

\* RunWebhookDispatcher polls every five seconds, every request ends within
\* its timeout, and time passes.  Nothing is promised of handlers and faults.
Fairness ==
    /\ \A w \in Workers : WF_vars(Dispatch(w))
    /\ \A n \in NoteId : WF_vars(LeaseExpires(n)) /\ WF_vars(BecomesDue(n))

FairSpec == Spec /\ Fairness

-----------------------------------------------------------------------------
(* What the outbox promises.                                               *)

\* docs/integrations.md: "Once attempted, a notification's ID and payload
\* stay fixed".  Whatever is coalesced, retried, taken over or redelivered
\* after a crash, a receiver never sees two contents under one delivery id.
OneContentPerId == \A n \in NoteId : \A p, q \in received[n] : p = q

\* A row that says sent was received as it stands, although neither mark
\* looks at what happened to the row meanwhile.
SentWasReceived ==
    \A n \in NoteId : note[n].status = "sent" => note[n].payload \in received[n]

\* Coalescing never loses the latest state of a ticket: for a webhook and a
\* ticket that exist, the last payload queued was received, or is on its way,
\* or its notification was given up.
NewestIsKept ==
    \A h \in Hooks, t \in live :
        (hook[h] # "deleted" /\ newest[h][t] > 0) =>
            \E n \in NoteId :
                /\ note[n].hook = h
                /\ note[n].ticket = t
                /\ note[n].payload = newest[h][t]
                /\ \/ note[n].status \in {"pending", "sending", "failed"}
                   \/ newest[h][t] \in received[n]

\* No request goes out that attempts does not count, not even one whose
\* sender died before it could mark anything.  docs/integrations.md: "retried
\* with backoff, normally up to five attempts": a notification is given up
\* after no fewer attempts, and every attempt beyond them is owed to a fault.
RequestsAreCounted ==
    \A n \in NoteId :
        /\ requests[n] <= note[n].attempts
        /\ note[n].attempts <= MaxAttempts + faults
        /\ note[n].status = "failed" => note[n].attempts >= MaxAttempts

\* Every queued notification is sent, given up, or goes with its webhook or
\* ticket: neither coalescing nor a crash strands it.
EventuallySettled ==
    \A n \in NoteId :
        note[n].status = "pending" ~> note[n].status \in {"sent", "failed", "gone"}

\* With one worker the outbox implements Notification.
PhaseOf(status) ==
    CASE status = "none" -> "unborn"
      [] status \in {"pending", "sending"} -> "open"
      [] status = "sent" -> "delivered"
      [] status = "failed" -> "abandoned"
      [] status = "gone" -> "withdrawn"

phase == [n \in NoteId |-> PhaseOf(note[n].status)]

Promise == INSTANCE Notification WITH
    Notes    <- NoteId,
    Contents <- Version,
    phase    <- phase,
    content  <- [n \in NoteId |-> note[n].payload],
    received <- received

\* Each delivery id is published, transmitted with one content, confirmed
\* only after a transmission, and never revived once settled.
ImplementsNotification == Promise!Spec
=============================================================================
