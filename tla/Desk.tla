-------------------------------- MODULE Desk --------------------------------
(***************************************************************************)
(* A product's tickets, its members, and the files attached to tickets:    *)
(* the rows of products, product_members, tickets, ticket_status_changes,  *)
(* ticket_requests and attachments, and the upload directory.              *)
(*                                                                         *)
(* A store method is one transaction, one step.  A request is several: it  *)
(* is authorised by what it reads first, then writes its uploads, then     *)
(* runs its transaction, and removes files before it ends, so that the     *)
(* database and the directory agree only if every path does its part.      *)
(* Requests interleave; the members, the accounts, the product and the     *)
(* ticket change between a request's steps, and the process may stop.      *)
(***************************************************************************)
EXTENDS Notices, Naturals, Sequences, FiniteSets

CONSTANTS
    Handlers,     \* requests under way
    Keys,         \* idempotency keys
    NoKey,        \* a request without one
    Saves,        \* bound: saves that are asked for, a subset of Save
    Grants,       \* bound: roles that are given in the product
    Roles,        \* bound: the accounts' first roles, [Users -> AccountRoles]
    MaxTickets,   \* bound: tickets ever created
    MaxFiles,     \* bound: files ever uploaded
    MaxHistory,   \* bound: status changes of a ticket
    MaxRequests,  \* bound: requests ever begun
    MaxChanges,   \* bound: changes of accounts, and members added
    MaxFaults     \* bound: crashes, failed reads and failed removals

ASSUME DeskAssumption ==
    /\ NoKey \notin Keys
    /\ Saves \subseteq Save
    /\ Grants \subseteq ProductRoles
    /\ Roles \subseteq [Users -> AccountRoles]
    /\ MaxTickets \in Nat /\ MaxFiles \in Nat

VARIABLES
    product,   \* products: "none", "live" or "gone"
    account,   \* users: [Users -> role, disabled]
    member,    \* product_members: [Users -> role, "none": no row]
    ticket,    \* tickets: [Tickets -> ...]
    history,   \* ticket_status_changes: [Tickets -> their statuses in order]
    recorded,  \* ticket_requests: its rows
    row,       \* attachments: [Files -> the ticket, 0: no row]
    disk,      \* [Files -> whether the file is in the directory]
    request,   \* [Handlers -> where the request stands]
    begun,     \* requests begun so far
    changes,   \* changes of accounts, and members added, so far
    faults,    \* faults so far
    effects,   \* history: [a ticket, a user and a key -> saves applied]
    stranded,  \* history: files a crash or a failed removal left behind
    torn       \* history: files removed although their ticket was committed

vars == <<product, account, member, ticket, history, recorded, row, disk, request,
          begun, changes, faults, effects, stranded, torn>>

-----------------------------------------------------------------------------
Tickets == 1..MaxTickets
Files == 1..MaxFiles

Ticket ==
    [state : {"none", "live", "gone"}, number : Nat, status : {"open", "closed"},
     requester : Users, assignee : Users \cup {Nobody}]

Recorded == [ticket : Tickets, user : Users, key : Keys, save : Save]

\* allowed: what the access read at the beginning says of the save.
Request ==
    [pc : {"idle", "create", "save", "reread", "remove"}, user : Users, ticket : 0..MaxTickets,
     save : Save, key : Keys \cup {NoKey}, allowed : BOOLEAN, files : SUBSET Files]

NoSave == [status |-> Keep, assignee |-> Keep, details |-> FALSE, comment |-> "none", quiet |-> FALSE]

SomeUser == CHOOSE u \in Users : TRUE

Idle == [pc |-> "idle", user |-> SomeUser, ticket |-> 0, save |-> NoSave, key |-> NoKey,
         allowed |-> FALSE, files |-> {}]

NoTicket(state) == [state |-> state, number |-> 0, status |-> "open",
                    requester |-> SomeUser, assignee |-> Nobody]

Live(t) == t \in Tickets /\ ticket[t].state = "live"

TypeOK ==
    /\ product \in {"none", "live", "gone"}
    /\ account \in [Users -> [role : AccountRoles, disabled : BOOLEAN]]
    /\ member \in [Users -> MemberRoles]
    /\ ticket \in [Tickets -> Ticket]
    /\ history \in [Tickets -> Seq({"open", "closed"})]
    /\ recorded \subseteq Recorded
    /\ row \in [Files -> 0..MaxTickets]
    /\ disk \in [Files -> {"none", "there", "gone"}]
    /\ request \in [Handlers -> Request]
    /\ begun \in Nat /\ changes \in Nat /\ faults \in Nat
    /\ effects \in [Tickets \X Users \X Keys -> Nat]
    /\ stranded \subseteq Files
    /\ torn \subseteq Files
    \* The foreign keys.
    /\ product # "live" => \A u \in Users : member[u] = "none"
    /\ \A t \in Tickets : Live(t) => product = "live"
    /\ \A r \in recorded : Live(r.ticket)
    /\ \A f \in Files : row[f] # 0 => Live(row[f])

Init ==
    /\ product = "none"
    /\ account \in {[u \in Users |-> [role |-> roles[u], disabled |-> FALSE]] : roles \in Roles}
    /\ member = [u \in Users |-> "none"]
    /\ ticket = [t \in Tickets |-> NoTicket("none")]
    /\ history = [t \in Tickets |-> <<>>]
    /\ recorded = {}
    /\ row = [f \in Files |-> 0]
    /\ disk = [f \in Files |-> "none"]
    /\ request = [h \in Handlers |-> Idle]
    /\ begun = 0
    /\ changes = 0
    /\ faults = 0
    /\ effects = [e \in Tickets \X Users \X Keys |-> 0]
    /\ stranded = {}
    /\ torn = {}

-----------------------------------------------------------------------------
(* What the handlers share.                                                *)

database == <<product, account, member, ticket, history, recorded, row, effects>>

Access(u) == ProductAccess(account[u].role, member[u])
AccessTo(u, t) == TicketAccess(account[u].role, member[u], u = ticket[t].requester)

\* applyTicketPatch of the handler: what the access lets the save do.
Lets(access, save) ==
    /\ HasPatch(save) \/ save.comment # "none"
    /\ HasPatch(save) => access.edit
    /\ save.comment = "internal" => access.internalNotes
    /\ save.comment = "public" => access.reply

\* A handler takes up a request.
Take(h) ==
    /\ request[h].pc = "idle"
    /\ begun < MaxRequests
    /\ begun' = begun + 1

Reset(h) == [request EXCEPT ![h] = Idle]

\* A request's files are removed, and it ends.
RemoveAll(h, files) ==
    /\ disk' = [f \in Files |-> IF f \in files THEN "gone" ELSE disk[f]]
    /\ request' = Reset(h)
    /\ UNCHANGED <<faults, stranded>>

\* os.Remove fails, and its error is ignored.
RemoveNone(h, files) ==
    /\ faults < MaxFaults
    /\ faults' = faults + 1
    /\ stranded' = stranded \cup {f \in files : disk[f] = "there"}
    /\ request' = Reset(h)
    /\ UNCHANGED disk

Cleanup(h) ==
    \/ RemoveAll(h, request[h].files)
    \/ request[h].files # {} /\ RemoveNone(h, request[h].files)

-----------------------------------------------------------------------------
(* Requests begin: the session's account, and what it has access to.       *)

BeginCreate(h, u) ==
    /\ Take(h)
    /\ ~account[u].disabled
    /\ Access(u).createTicket
    /\ request' = [request EXCEPT ![h] = [Idle EXCEPT !.pc = "create", !.user = u, !.allowed = TRUE]]
    /\ UNCHANGED <<database, disk, changes, faults, stranded, torn>>

BeginSave(h, u, t, save, key) ==
    /\ Take(h)
    /\ ~account[u].disabled
    /\ Live(t)
    /\ AccessTo(u, t).read
    /\ request' = [request EXCEPT ![h] =
                    [pc |-> "save", user |-> u, ticket |-> t, save |-> save, key |-> key,
                     allowed |-> Lets(AccessTo(u, t), save), files |-> {}]]
    /\ UNCHANGED <<database, disk, changes, faults, stranded, torn>>

\* Mutant: the name is made from the content, which may be another file's.
SaveSharedFile(h, f) ==
    /\ request[h].pc \in {"create", "save"}
    /\ \A g \in 1..f - 1 : disk[g] # "none"
    /\ disk' = [disk EXCEPT ![f] = "there"]
    /\ request' = [request EXCEPT ![h].files = @ \cup {f}]
    /\ UNCHANGED <<database, begun, changes, faults, stranded, torn>>

\* A file of the form is written, under a new random name.
SaveUploadedFile(h, f) ==
    /\ request[h].pc \in {"create", "save"}
    /\ disk[f] = "none" /\ \A g \in 1..f - 1 : disk[g] # "none"
    /\ disk' = [disk EXCEPT ![f] = "there"]
    /\ request' = [request EXCEPT ![h].files = @ \cup {f}]
    /\ UNCHANGED <<database, begun, changes, faults, stranded, torn>>

\* The request ends in an error: a file or the form is refused, the access
\* does not let it, or the transaction fails and is rolled back.
Refuse(h) ==
    /\ request[h].pc \in {"create", "save"}
    /\ Cleanup(h)
    /\ UNCHANGED <<database, begun, changes, torn>>

-----------------------------------------------------------------------------
(* The transactions.                                                       *)

\* COALESCE(MAX(number), 0) + 1
NextNumber ==
    CHOOSE n \in 1..MaxTickets + 1 :
        /\ \A t \in Tickets : Live(t) => ticket[t].number < n
        /\ n = 1 \/ ~\A t \in Tickets : Live(t) => ticket[t].number # n - 1

CanBeAssigned(u) ==
    u = Nobody \/ (u \in Users /\ Assignable(account[u].role, member[u], account[u].disabled))

\* insertAttachmentsTx
Attached(files, t) == [f \in Files |-> IF f \in files THEN t ELSE row[f]]

\* A creator that is a customer names neither a requester nor an assignee.
CreateTicket(h, t, requester, assignee) ==
    LET u == request[h].user
    IN  /\ request[h].pc = "create"
        /\ ticket[t].state = "none" /\ \A s \in 1..t - 1 : ticket[s].state # "none"
        /\ product = "live"
        /\ Creates(account[u].role, member[u], account[u].disabled)
        /\ \/ requester = u
           \/ /\ ~CustomerCreator(account[u].role, member[u])
              /\ Requestable(account[requester].role, member[requester], account[requester].disabled)
        /\ CustomerCreator(account[u].role, member[u]) => assignee = Nobody
        /\ CanBeAssigned(assignee)
        /\ ticket' = [ticket EXCEPT ![t] = [state |-> "live", number |-> NextNumber, status |-> "open",
                                            requester |-> requester, assignee |-> assignee]]
        /\ row' = Attached(request[h].files, t)
        /\ request' = [request EXCEPT ![h].pc = "reread", ![h].ticket = t]
        /\ UNCHANGED <<product, account, member, history, recorded, effects, disk,
                       begun, changes, faults, stranded, torn>>

\* GetTicket after the commit.
ReadCreated(h) ==
    /\ request[h].pc = "reread"
    /\ Live(request[h].ticket)
    /\ request' = Reset(h)
    /\ UNCHANGED <<database, disk, begun, changes, faults, stranded, torn>>

\* GetTicket fails, or the ticket has been deleted already: the handler takes
\* it for a ticket that was not created, and removes its files.
ReadCreatedFails(h) ==
    /\ request[h].pc = "reread"
    /\ \/ /\ ~Live(request[h].ticket)
          /\ Cleanup(h)
       \/ /\ Live(request[h].ticket)
          /\ faults < MaxFaults
          /\ faults' = faults + 1
          /\ disk' = [f \in Files |-> IF f \in request[h].files THEN "gone" ELSE disk[f]]
          /\ request' = Reset(h)
          /\ UNCHANGED stranded
    /\ torn' = torn \cup {f \in request[h].files : row[f] # 0}
    /\ UNCHANGED <<database, begun, changes>>

\* The request's key names a request of the actor on this ticket.
SameKey(h, r) ==
    r.ticket = request[h].ticket /\ r.user = request[h].user /\ r.key = request[h].key

\* Mutant: the key is not written down.
RecordedNot(h) == recorded

\* recordTicketRequestTx, when there is no such row yet.
RecordedNow(h) ==
    IF request[h].key = NoKey THEN recorded
    ELSE recorded \cup {[ticket |-> request[h].ticket, user |-> request[h].user,
                         key |-> request[h].key, save |-> request[h].save]}

\* Mutant: a status that the patch names is written down, changed or not.
ChangedNamed(t, save) ==
    IF save.status = Keep THEN history[t] ELSE Append(history[t], save.status)

\* addTicketStatusChangeTx, after a change of the status.
Changed(t, save) ==
    IF save.status \in {Keep, ticket[t].status} THEN history[t] ELSE Append(history[t], save.status)

\* Mutant: the actor is the one that was let in.
MayStillAct(u) == TRUE

\* The actor's account is read again in the transaction, and no more of what
\* the request was let in by.
MayAct(u) == ~account[u].disabled

\* saveTicketTx, up to its first write.
Saving(h) ==
    /\ request[h].pc = "save"
    /\ request[h].allowed
    /\ Live(request[h].ticket)
    /\ MayAct(request[h].user)

SaveTicket(h) ==
    LET t == request[h].ticket
        save == Reopening(request[h].save, ticket[t])
    IN  /\ Saving(h)
        /\ \A r \in recorded : ~SameKey(h, r)
        /\ save.assignee # Keep => CanBeAssigned(save.assignee)
        /\ Len(Changed(t, save)) <= MaxHistory
        /\ recorded' = RecordedNow(h)
        /\ ticket' = [ticket EXCEPT ![t] = Patched(save, @)]
        /\ history' = [history EXCEPT ![t] = Changed(t, save)]
        /\ row' = Attached(request[h].files, t)
        /\ effects' = [e \in DOMAIN effects |->
                        IF e = <<t, request[h].user, request[h].key>> THEN effects[e] + 1 ELSE effects[e]]
        /\ request' = Reset(h)
        /\ UNCHANGED <<product, account, member, disk, begun, changes, faults, stranded, torn>>

\* Mutant: the replay's files are kept, as those of a success.
ReplayKeeping(h) ==
    /\ Saving(h)
    /\ ~\A r \in recorded : ~(SameKey(h, r) /\ r.save = request[h].save)
    /\ request' = Reset(h)
    /\ UNCHANGED <<database, disk, begun, changes, faults, stranded, torn>>

\* The same request was applied before: its result is returned, and the files
\* that came with it again are removed.
ReplaySave(h) ==
    /\ Saving(h)
    /\ ~\A r \in recorded : ~(SameKey(h, r) /\ r.save = request[h].save)
    /\ Cleanup(h)
    /\ UNCHANGED <<database, begun, changes, torn>>

\* The files no attachment refers to once these tickets are deleted.
Orphaned(tickets) == {f \in Files : row[f] \in tickets}

Unattached(tickets) == [f \in Files |-> IF row[f] \in tickets THEN 0 ELSE row[f]]

\* The tickets are deleted with all that refers to them.
Without(tickets) ==
    /\ ticket' = [t \in Tickets |-> IF t \in tickets THEN NoTicket("gone") ELSE ticket[t]]
    /\ history' = [t \in Tickets |-> IF t \in tickets THEN <<>> ELSE history[t]]
    /\ recorded' = {r \in recorded : r.ticket \notin tickets}
    /\ row' = Unattached(tickets)
    /\ effects' = [e \in DOMAIN effects |-> IF e[1] \in tickets THEN 0 ELSE effects[e]]

\* The handler goes on to remove these files.
GoOnToRemove(h, files) ==
    request' = [request EXCEPT ![h] =
                    IF files = {} THEN Idle ELSE [Idle EXCEPT !.pc = "remove", !.files = files]]

\* By an administrator, as is the next one.
DeleteTicket(h, t) ==
    /\ Take(h)
    /\ Live(t)
    /\ Without({t})
    /\ GoOnToRemove(h, Orphaned({t}))
    /\ UNCHANGED <<product, account, member, disk, changes, faults, stranded, torn>>

DeleteProduct(h) ==
    LET tickets == {t \in Tickets : Live(t)}
    IN  /\ Take(h)
        /\ product = "live"
        /\ product' = "gone"
        /\ member' = [u \in Users |-> "none"]
        /\ Without(tickets)
        /\ GoOnToRemove(h, Orphaned(tickets))
        /\ UNCHANGED <<account, disk, changes, faults, stranded, torn>>

\* removeOrphanedAttachmentFiles
RemoveFiles(h) ==
    /\ request[h].pc = "remove"
    /\ Cleanup(h)
    /\ UNCHANGED <<database, begun, changes, torn>>

-----------------------------------------------------------------------------
(* What administrators and managers change.                                *)

CreateProduct ==
    /\ product = "none"
    /\ product' = "live"
    /\ UNCHANGED <<account, member, ticket, history, recorded, row, effects, disk, request,
                   begun, changes, faults, stranded, torn>>

UpsertProductMember(u, role) ==
    /\ product = "live"
    /\ ~account[u].disabled
    /\ changes < MaxChanges
    /\ member' = [member EXCEPT ![u] = role]
    /\ changes' = changes + 1
    /\ UNCHANGED <<product, account, ticket, history, recorded, row, effects, disk, request,
                   begun, faults, stranded, torn>>

DeleteProductMember(u) ==
    /\ member[u] # "none"
    /\ member' = [member EXCEPT ![u] = "none"]
    /\ UNCHANGED <<product, account, ticket, history, recorded, row, effects, disk, request,
                   begun, changes, faults, stranded, torn>>

\* The account is disabled or enabled, or its role is changed.  (Accounts says
\* that an administrator remains; here it is one outside Users.)
UpdateUser(u, a) ==
    /\ changes < MaxChanges
    /\ account' = [account EXCEPT ![u] = a]
    /\ changes' = changes + 1
    /\ UNCHANGED <<product, member, ticket, history, recorded, row, effects, disk, request,
                   begun, faults, stranded, torn>>

\* The process stops, in the middle of every request, and starts again.
Crash ==
    /\ faults < MaxFaults
    /\ faults' = faults + 1
    /\ request' = [h \in Handlers |-> Idle]
    /\ stranded' = stranded \cup {f \in UNION {request[h].files : h \in Handlers} :
                                    row[f] = 0 /\ disk[f] = "there"}
    /\ UNCHANGED <<database, disk, begun, changes, torn>>

-----------------------------------------------------------------------------
CreateRequest(h) ==
    \/ \E u \in Users : BeginCreate(h, u)
    \/ \E t \in Tickets, requester \in Users, assignee \in Users \cup {Nobody} :
            CreateTicket(h, t, requester, assignee)
    \/ ReadCreated(h)
    \/ ReadCreatedFails(h)

SaveRequest(h) ==
    \/ \E u \in Users, t \in Tickets, save \in Saves, key \in Keys \cup {NoKey} :
            BeginSave(h, u, t, save, key)
    \/ SaveTicket(h)
    \/ ReplaySave(h)

FileRequest(h) ==
    \/ \E f \in Files : SaveUploadedFile(h, f)
    \/ Refuse(h)
    \/ \E t \in Tickets : DeleteTicket(h, t)
    \/ DeleteProduct(h)
    \/ RemoveFiles(h)

Administer ==
    \/ CreateProduct
    \/ \E u \in Users, role \in Grants : UpsertProductMember(u, role)
    \/ \E u \in Users : DeleteProductMember(u)
    \/ \E u \in Users :
        \/ UpdateUser(u, [account[u] EXCEPT !.disabled = ~@])
        \/ \E role \in AccountRoles \ {account[u].role} : UpdateUser(u, [account[u] EXCEPT !.role = role])

Next ==
    \/ \E h \in Handlers : CreateRequest(h) \/ SaveRequest(h) \/ FileRequest(h)
    \/ Administer
    \/ Crash

Spec == Init /\ [][Next]_vars

-----------------------------------------------------------------------------
(* Safety.                                                                 *)

\* A ticket's status changes tell how it came to its status: each entry
\* changes the status, beginning with an open ticket, and the last one is the
\* status it has.  The rows are written by saves only, and a public comment
\* changes the status without being asked to.
HistoryExplainsStatus ==
    \A t \in Tickets : Live(t) =>
        LET statuses == <<"open">> \o history[t]
        IN  /\ \A i \in 1..Len(history[t]) : statuses[i] # statuses[i + 1]
            /\ statuses[Len(statuses)] = ticket[t].status

\* An idempotency key stands for one applied save of its user on its ticket:
\* none is applied twice, however often and at how many places it is sent
\* again, and none that was rolled back keeps the key.
OneEffectPerKey ==
    \A t \in Tickets, u \in Users, k \in Keys : Live(t) =>
        effects[<<t, u, k>>] =
            Cardinality({r \in recorded : r.ticket = t /\ r.user = u /\ r.key = k})

\* The tickets of a product have different numbers, so that a key names one
\* of them; a deletion in between does not make a creation fail.  (The number
\* of a deleted last ticket is given out again.)
NumbersAreUnique ==
    \A t, s \in Tickets : Live(t) /\ Live(s) /\ t # s => ticket[t].number # ticket[s].number

\* An attachment's file is there, while uploads are cleaned up, requests are
\* repeated and tickets deleted around it: no cleanup reaches a file of
\* another request.  The exception is a ticket that was committed and could
\* not be read again.
AttachmentsHaveFiles ==
    \A f \in Files : row[f] # 0 /\ f \notin torn => disk[f] = "there"

\* A file in the directory has an attachment, or belongs to one request under
\* way that will give it one or remove it; otherwise a crash or a failed
\* removal left it behind, and nothing ever removes it.
FilesHaveOwners ==
    \A f \in Files : disk[f] = "there" /\ f \notin stranded =>
        row[f] # 0 \/ ~\A h \in Handlers : f \notin request[h].files

\* A request is let in by what it reads first.  An account that is disabled
\* before its transaction changes no ticket any more.
DisabledChangeNothing ==
    [][\A h \in Handlers :
        ticket' # ticket /\ request[h].pc \in {"create", "save"} /\ request'[h] # request[h]
            => ~account[request[h].user].disabled]_vars

\* The rules, written down in Go for a ticket and in SQL for the lists, the
\* counters, the filters and the offered assignees, agree on every ticket for
\* every account, whatever role in the product it is given.
OneRule ==
    \A t \in Tickets, u \in Users : Live(t) =>
        (ticket[t].requester = u) \notin DisagreedOn

\* No account may do anything else with a ticket than docs/access.md says.
FollowsDocumentation ==
    \A t \in Tickets, u \in Users : Live(t) =>
        (ticket[t].requester = u) \notin UndocumentedOn

\* Whoever saves a ticket next, and whatever the save asks for, the events of
\* the save, which decide each on its own whom to mail, together reach the two
\* who wait for it, mail nobody twice but a requester whose ticket was changed
\* and commented at once, and tell a customer nothing else.
SavesAreTold ==
    \A t \in Tickets : Live(t) =>
        [status |-> ticket[t].status, requester |-> ticket[t].requester,
         assignee |-> ticket[t].assignee] \notin UntoldTickets

=============================================================================
