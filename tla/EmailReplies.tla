---------------------------- MODULE EmailReplies ----------------------------
(***************************************************************************)
(* Replies by email: the mailbox, the workers that poll it over IMAP, and  *)
(* the tickets that replies are saved on.                                  *)
(*                                                                         *)
(* A poll selects the mailbox, reads the cursor kept in the database,      *)
(* searches the UIDs above it, and takes the messages one by one: fetch,   *)
(* save the reply, flag the message, advance the cursor.  The mailbox and  *)
(* the database share no transaction, so a poll that stops anywhere is     *)
(* repeated from the cursor, and only the request recorded with a reply    *)
(* tells that it was saved before.  Messages come again: redelivered,      *)
(* copied back by an operator, or renumbered when UIDVALIDITY changes.     *)
(***************************************************************************)
EXTENDS Naturals, Sequences, FiniteSets

CONSTANTS
    Tickets,      \* tickets, each with its requester and reply token
    Messages,     \* messages that differ in their content
    Keys,         \* message identities: the Message-ID, or the raw message
    TicketOf,     \* [Messages -> Tickets]: whose token a message carries
    KeyOf,        \* [Messages -> Keys]
    Automatic,    \* messages that readReply rejects
    Workers,      \* IMAP workers polling the mailbox
    BatchSize,    \* messages per poll, 100 in the code
    MaxUid,       \* bound: UIDs under one UIDVALIDITY
    MaxValidity,  \* bound: values of UIDVALIDITY
    MaxFaults     \* bound: crashes, database and IMAP errors

ASSUME EmailRepliesAssumption ==
    /\ TicketOf \in [Messages -> Tickets]
    /\ KeyOf \in [Messages -> Keys]
    /\ Automatic \subseteq Messages
    /\ BatchSize \in Nat \ {0}
    /\ MaxUid \in Nat
    /\ MaxValidity \in Nat \ {0}
    /\ MaxFaults \in Nat

VARIABLES
    validity,  \* UIDVALIDITY of the mailbox
    box,       \* [Uid -> the message there, or "none"]
    next,      \* UIDNEXT
    flags,     \* [Uid -> SUBSET {"seen", "flagged"}]
    access,    \* [Tickets -> ...]: may the requester reply, is the ticket there
    closed,    \* tickets that are closed
    requests,  \* ticket_requests: {<<ticket, key, message>>}
    comments,  \* history: [Messages -> comments made of it]
    cursor,    \* email_mailboxes: the row of this mailbox
    worker,    \* each worker's poll
    faults     \* faults so far

boxVars    == <<validity, box, next, flags>>
ticketVars == <<access, closed, requests, comments>>
vars == <<boxVars, ticketVars, cursor, worker, faults>>

-----------------------------------------------------------------------------
Uid == 1..MaxUid

Poll ==
    [pc       : {"idle", "cursor", "search", "fetch", "save", "flag", "advance", "finish"},
     validity : 0..MaxValidity,   \* of the mailbox when it was selected
     end      : 0..MaxUid,        \* what the poll will have covered
     from     : 0..MaxUid,        \* the cursor when the poll began
     uids     : Seq(Uid),         \* still to be taken
     message  : Messages \cup {"none"},   \* what was fetched
     flag     : {"seen", "flagged"}]   \* what the outcome calls for

Idle == [pc |-> "idle", validity |-> 0, end |-> 0, from |-> 0,
         uids |-> <<>>, message |-> "none", flag |-> "seen"]

TypeOK ==
    /\ validity \in 1..MaxValidity
    /\ box \in [Uid -> Messages \cup {"none"}]
    /\ next \in 1..MaxUid + 1
    /\ flags \in [Uid -> SUBSET {"seen", "flagged"}]
    /\ access \in [Tickets -> {"granted", "revoked", "deleted"}]
    /\ closed \in SUBSET Tickets
    /\ requests \in SUBSET (Tickets \X Keys \X Messages)
    /\ comments \in [Messages -> Nat]
    /\ cursor \in [validity : 0..MaxValidity, last : 0..MaxUid]
    /\ worker \in [Workers -> Poll]
    /\ faults \in 0..MaxFaults

\* No row for the mailbox is validity 0, which no server reports.
Init ==
    /\ validity = 1
    /\ box = [u \in Uid |-> "none"]
    /\ next = 1
    /\ flags = [u \in Uid |-> {}]
    /\ access = [t \in Tickets |-> "granted"]
    /\ closed = {}
    /\ requests = {}
    /\ comments = [m \in Messages |-> 0]
    /\ cursor = [validity |-> 0, last |-> 0]
    /\ worker = [w \in Workers |-> Idle]
    /\ faults = 0

-----------------------------------------------------------------------------
(* The mailbox, changed by its server and by people.                       *)

\* A new message, a redelivery, or a copy put back by an operator.
Arrive(m) ==
    /\ next \in Uid
    /\ box' = [box EXCEPT ![next] = m]
    /\ flags' = [flags EXCEPT ![next] = {}]
    /\ next' = next + 1
    /\ UNCHANGED <<validity, ticketVars, cursor, worker, faults>>

\* Someone reads a message, which must not count as handled.
ReadByHand(u) ==
    /\ box[u] # "none"
    /\ flags' = [flags EXCEPT ![u] = @ \cup {"seen"}]
    /\ UNCHANGED <<validity, box, next, ticketVars, cursor, worker, faults>>

Expunge(u) ==
    /\ box[u] # "none"
    /\ box' = [box EXCEPT ![u] = "none"]
    /\ flags' = [flags EXCEPT ![u] = {}]
    /\ UNCHANGED <<validity, next, ticketVars, cursor, worker, faults>>

\* The UIDs of a set in ascending order: a set of one listing.
Listings(uids) ==
    {list \in [1..Cardinality(uids) -> uids] :
        /\ {list[i] : i \in DOMAIN list} = uids
        /\ \A i, j \in DOMAIN list : i < j => list[i] < list[j]}

\* The mailbox is rebuilt: UIDVALIDITY changes and UIDs start over.
Renumber ==
    /\ validity < MaxValidity
    /\ validity' = validity + 1
    /\ \E kept \in Listings({u \in Uid : box[u] # "none"}) :
           /\ box' = [u \in Uid |-> IF u \in DOMAIN kept THEN box[kept[u]] ELSE "none"]
           /\ flags' = [u \in Uid |-> IF u \in DOMAIN kept THEN flags[kept[u]] ELSE {}]
           /\ next' = Len(kept) + 1
    /\ UNCHANGED <<ticketVars, cursor, worker, faults>>

-----------------------------------------------------------------------------
(* Tickets and accounts, changed by handlers.                              *)

\* The requester's account, address, membership or role changes.
SetAccess(t, to) ==
    /\ access[t] # "deleted"
    /\ access[t] # to
    /\ access' = [access EXCEPT ![t] = to]
    /\ UNCHANGED <<boxVars, closed, requests, comments, cursor, worker, faults>>

\* SaveTicket with a status, by staff or through the portal.
SetStatus(t) ==
    /\ access[t] # "deleted"
    /\ closed' \in {closed \cup {t}, closed \ {t}}
    /\ UNCHANGED <<boxVars, access, requests, comments, cursor, worker, faults>>

\* DeleteTicket takes the ticket's tokens and requests along.
DeleteTicket(t) ==
    /\ access[t] # "deleted"
    /\ access' = [access EXCEPT ![t] = "deleted"]
    /\ closed' = closed \ {t}
    /\ requests' = {r \in requests : r[1] # t}
    /\ UNCHANGED <<boxVars, comments, cursor, worker, faults>>

-----------------------------------------------------------------------------
(* The worker's poll.                                                      *)

\* A session ends when the mailbox is rebuilt under it.
Connected(w) == worker[w].validity = validity

Goto(w, pc) == worker' = [worker EXCEPT ![w].pc = pc]

\* Select: UIDVALIDITY, and UIDNEXT as the upper end of the poll.
Select(w) ==
    /\ worker[w].pc = "idle"
    /\ worker' = [worker EXCEPT ![w] =
                    [Idle EXCEPT !.pc = "cursor", !.validity = validity, !.end = next - 1]]
    /\ UNCHANGED <<boxVars, ticketVars, cursor, faults>>

\* Mutant: the cursor counts under any UIDVALIDITY.
CursorAnyway(v) == cursor.last

\* EmailMailboxCursor
CursorFor(v) == IF cursor.validity = v THEN cursor.last ELSE 0

ReadCursor(w) ==
    LET from == CursorFor(worker[w].validity) IN
    /\ worker[w].pc = "cursor"
    /\ worker' = [worker EXCEPT ![w] = IF from >= @.end THEN Idle
                                       ELSE [@ EXCEPT !.pc = "search", !.from = from]]
    /\ UNCHANGED <<boxVars, ticketVars, cursor, faults>>

\* Mutant: messages that someone has read are taken for handled.
Unread(u) == box[u] # "none" /\ "seen" \notin flags[u]

\* What the search returns, whether read or not.
Found(u) == box[u] # "none"

\* A poll that takes only part of the messages covers them and no more.
Covered(uids, end) == IF Len(uids) > BatchSize THEN uids[BatchSize] ELSE end

\* UidSearch in the range from+1 .. UIDNEXT-1
Search(w) ==
    LET p == worker[w] IN
    /\ p.pc = "search"
    /\ Connected(w)
    /\ \E uids \in Listings({u \in Uid : Found(u) /\ p.from < u /\ u <= p.end}) :
           worker' = [worker EXCEPT ![w] =
                         [p EXCEPT !.pc = IF uids = <<>> THEN "finish" ELSE "fetch",
                                   !.uids = IF Len(uids) > BatchSize
                                            THEN SubSeq(uids, 1, BatchSize) ELSE uids,
                                   !.from = 0,
                                   !.end = Covered(uids, p.end)]]
    /\ UNCHANGED <<boxVars, ticketVars, cursor, faults>>

Current(w) == Head(worker[w].uids)

\* readReply: bounces, lists, automatic answers, a failed DMARC result, no
\* reply address, and whatever else is not a reply of one sender.
Rejected(m) == m \in Automatic

\* UidFetch and readReply: an expunged message is done with, an automatic
\* one is rejected, any other one is handed on.
Fetch(w) ==
    LET m == box[Current(w)] IN
    /\ worker[w].pc = "fetch"
    /\ Connected(w)
    /\ \/ /\ m = "none"
          /\ worker' = [worker EXCEPT ![w] = [@ EXCEPT !.pc = "flag", !.flag = "seen"]]
       \/ /\ m \in Messages /\ Rejected(m)
          /\ worker' = [worker EXCEPT ![w] = [@ EXCEPT !.pc = "flag", !.flag = "flagged"]]
       \/ /\ m \in Messages /\ ~Rejected(m)
          /\ worker' = [worker EXCEPT ![w] = [@ EXCEPT !.pc = "save", !.message = m]]
    /\ UNCHANGED <<boxVars, ticketVars, cursor, faults>>

\* Mutant: no reply is recognised.
NeverRecorded(t, k, m) == FALSE

\* recordTicketRequestTx: the key was recorded with the same request ...
Replayed(t, k, m) == <<t, k, m>> \in requests

\* ... or with a different one.
Conflicting(t, k, m) ==
    \E other \in Messages \ {m} : <<t, k, other>> \in requests

\* Mutant: the ticket is reopened before the request is looked for.
ReopenedFirst(t, saved) == closed \ {t}

\* saveTicketTx: a public comment reopens a closed ticket.
Reopened(t, saved) == IF saved THEN closed \ {t} ELSE closed

\* AcceptEmailReply and SaveEmailReply, one transaction: the message that was
\* fetched is saved, or found to be saved before, or rejected.
Save(w, m) ==
    LET t       == TicketOf[m]
        k       == KeyOf[m]
        allowed == access[t] = "granted"
        known   == Replayed(t, k, m)
        refused == ~allowed \/ (~known /\ Conflicting(t, k, m))
        saved   == ~refused /\ ~known
    IN
    /\ requests' = IF saved THEN requests \cup {<<t, k, m>>} ELSE requests
    /\ comments' = IF saved THEN [comments EXCEPT ![m] = @ + 1] ELSE comments
    /\ closed' = IF refused THEN closed ELSE Reopened(t, saved)
    /\ worker' = [worker EXCEPT ![w] =
                    [@ EXCEPT !.pc = "flag",
                              !.message = "none",
                              !.flag = IF refused THEN "flagged" ELSE "seen"]]

SaveReply(w) ==
    /\ worker[w].pc = "save"
    /\ \E m \in Messages : m = worker[w].message /\ Save(w, m)
    /\ UNCHANGED <<boxVars, access, cursor, faults>>

\* UidStore adds the flag to a message that is still there.
Flag(w) ==
    LET u == Current(w) IN
    /\ worker[w].pc = "flag"
    /\ Connected(w)
    /\ flags' = IF box[u] = "none" THEN flags
                ELSE [flags EXCEPT ![u] = @ \cup {worker[w].flag}]
    /\ Goto(w, "advance")
    /\ UNCHANGED <<validity, box, next, ticketVars, cursor, faults>>

\* AdvanceEmailMailbox
Advanced(v, u) ==
    [validity |-> v,
     last     |-> IF cursor.validity = v /\ cursor.last > u THEN cursor.last ELSE u]

Advance(w) ==
    LET rest == Tail(worker[w].uids) IN
    /\ worker[w].pc = "advance"
    /\ cursor' = Advanced(worker[w].validity, Current(w))
    /\ worker' = [worker EXCEPT ![w] =
                    [@ EXCEPT !.pc = IF rest = <<>> THEN "finish" ELSE "fetch",
                              !.uids = rest,
                              !.flag = "seen"]]
    /\ UNCHANGED <<boxVars, ticketVars, faults>>

\* The gaps that expunged messages leave are covered too.
Finish(w) ==
    /\ worker[w].pc = "finish"
    /\ cursor' = Advanced(worker[w].validity, worker[w].end)
    /\ worker' = [worker EXCEPT ![w] = Idle]
    /\ UNCHANGED <<boxVars, ticketVars, faults>>

\* A poll stops where it is: an IMAP or database error, the end of the
\* context, a crash.
Fail(w) ==
    /\ worker[w].pc # "idle"
    /\ faults < MaxFaults
    /\ faults' = faults + 1
    /\ worker' = [worker EXCEPT ![w] = Idle]
    /\ UNCHANGED <<boxVars, ticketVars, cursor>>

\* The session that was selected is gone, and the next command says so.
Disconnect(w) ==
    /\ worker[w].pc \in {"search", "fetch", "flag"}
    /\ ~Connected(w)
    /\ worker' = [worker EXCEPT ![w] = Idle]
    /\ UNCHANGED <<boxVars, ticketVars, cursor, faults>>

-----------------------------------------------------------------------------
ProcessMailbox(w) ==
    \/ Select(w) \/ ReadCursor(w) \/ Search(w) \/ Fetch(w) \/ SaveReply(w)
    \/ Flag(w) \/ Advance(w) \/ Finish(w) \/ Disconnect(w)

Mailbox ==
    \/ \E m \in Messages : Arrive(m)
    \/ \E u \in Uid : ReadByHand(u) \/ Expunge(u)
    \/ Renumber

Handlers ==
    \E t \in Tickets :
        \/ \E to \in {"granted", "revoked"} : SetAccess(t, to)
        \/ SetStatus(t)
        \/ DeleteTicket(t)

Next ==
    \/ Mailbox
    \/ Handlers
    \/ \E w \in Workers : ProcessMailbox(w) \/ Fail(w)

Spec == Init /\ [][Next]_vars

\* Run polls every minute for as long as the process lives.
Fairness == \A w \in Workers : WF_vars(ProcessMailbox(w))

FairSpec == Spec /\ Fairness

-----------------------------------------------------------------------------
(* Properties.                                                             *)

\* A message identity brings a ticket at most one comment, whatever is
\* redelivered, renumbered, polled twice or retried after a crash.
ImportedOnce ==
    \A m, n \in Messages :
        /\ comments[m] <= 1
        /\ (/\ m # n
            /\ TicketOf[m] = TicketOf[n]
            /\ KeyOf[m] = KeyOf[n]) => comments[m] = 0 \/ comments[n] = 0

Covers(u) == cursor.validity = validity /\ u <= cursor.last

\* The cursor passes no message: what it covers became a comment or carries
\* the flag that has an operator look at it, whoever else read it meanwhile.
NothingSkipped ==
    \A u \in Uid :
        box[u] # "none" /\ Covers(u) =>
            \/ "flagged" \in flags[u]
            \/ comments[box[u]] > 0

\* Email reopens a ticket by a new comment only, never by a reply that was
\* saved before and comes again, nor by one that is rejected.
OnlyNewCommentsReopen ==
    [][worker' # worker =>
          \A t \in closed \ closed' :
              \E m \in Messages : TicketOf[m] = t /\ comments'[m] > comments[m]]_vars

\* Every message that stays in the mailbox is taken in the end, past gaps,
\* full batches, failed polls and a rebuilt mailbox.
EventuallyCovered ==
    \A u \in Uid : box[u] # "none" ~> (box[u] = "none" \/ Covers(u))
=============================================================================
