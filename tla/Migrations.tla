------------------------------ MODULE Migrations ----------------------------
(***************************************************************************)
(* What the migrations make of a ticket, of its status history and of the  *)
(* roles in its product.  Each migration is a function of what the one     *)
(* before left, and was written at another time; the properties are about  *)
(* all of them together.  Migrations 1, 5, 6, 8 and 9 change no ticket.    *)
(***************************************************************************)
EXTENDS Access, Naturals

CONSTANTS
    Null,       \* no account
    MaxChanges  \* bound: rows of a status history

OpenStatuses == {"new", "assigned", "open"}
OldStatuses == OpenStatuses \cup {"resolved", "rejected", "closed"}
OldRoles == MemberRoles \cup {"owner", "agent"}

\* An account as the addresses in a ticket find it.  member: its row in the
\* ticket's product.
OldAccount == [role : AccountRoles, disabled : BOOLEAN, member : OldRoles]

\* A ticket of a database with addresses in place of accounts; Null: the
\* address is empty, or no account has it.
OldTicket ==
    [status : OldStatuses \cup {"other"}, closedAt : BOOLEAN,
     assignee : OldAccount \cup {Null}, requester : OldAccount \cup {Null}]

-----------------------------------------------------------------------------
\* migrateRenameProductRoles, on an account's row.
RenamedRole(account) ==
    [account EXCEPT !.member = CASE @ = "owner" -> "manager" [] @ = "agent" -> "staff" [] OTHER -> @]

OfAccount(Op(_), account) == IF account = Null THEN Null ELSE Op(account)

\* ... and so on both accounts of a ticket.
WithRenamedRoles(ticket) ==
    [ticket EXCEPT !.assignee = OfAccount(RenamedRole, @), !.requester = OfAccount(RenamedRole, @)]

\* Mutant: the assignee is looked up by its address alone.
WithAnyAssignee(ticket) == ticket

\* migrateRelationalData: an address becomes the account that has it; an
\* assignee that could not be assigned is dropped.
WithAccounts(ticket) ==
    [ticket EXCEPT !.assignee =
        IF @ # Null /\ @.role \in {"admin", "staff"} /\ ~@.disabled /\ @.member \in {"manager", "staff"}
        THEN @ ELSE Null]

\* migrateTicketParticipants
RefusesParticipants(ticket) == ticket.requester = Null

WithCreator(ticket) ==
    [status |-> ticket.status, closedAt |-> ticket.closedAt, assignee |-> ticket.assignee,
     requester |-> ticket.requester, creator |-> ticket.requester]

\* migrateTicketStatuses
RefusesStatus(status) == status \notin OldStatuses

Simplified(status) == IF status \in OpenStatuses THEN "open" ELSE "closed"

WithSimpleStatus(ticket) ==
    [ticket EXCEPT !.status = Simplified(ticket.status), !.closedAt = Simplified(ticket.status) = "closed"]

\* Mutant: the rows that say nothing any more are kept.
WholeHistory(rows) ==
    [i \in DOMAIN rows |-> [previous |-> Simplified(rows[i].previous), current |-> Simplified(rows[i].current)]]

\* The rows of a history have ids, and a row that says nothing any more is
\* deleted, which leaves a gap.
SimpleHistory(rows) ==
    [i \in {k \in DOMAIN rows : Simplified(rows[k].previous) # Simplified(rows[k].current)} |->
        [previous |-> Simplified(rows[i].previous), current |-> Simplified(rows[i].current)]]

\* applyPendingMigrations, on a ticket: in the order of the versions.
Refused(ticket) == RefusesParticipants(ticket) \/ RefusesStatus(ticket.status)

Migrated(ticket) == WithSimpleStatus(WithCreator(WithAccounts(WithRenamedRoles(ticket))))

-----------------------------------------------------------------------------
(* Properties.                                                             *)

\* A ticket that is migrated keeps its requester, who counts as its creator;
\* it keeps its assignee exactly when today's rule would let it be assigned,
\* whatever its role was called; and it is closed exactly when it says since
\* when.  The roles are renamed before the assignees are looked up.
IsKept(ticket) ==
    LET new == Migrated(ticket)
        a == OfAccount(RenamedRole, ticket.assignee)
    IN  /\ new.requester = RenamedRole(ticket.requester) /\ new.creator = new.requester
        /\ new.assignee = IF a # Null /\ Assignable(a.role, a.member, a.disabled) THEN a ELSE Null
        /\ new.status \in {"open", "closed"} /\ (new.closedAt <=> new.status = "closed")

\* Tickets that the migrations accept and distort.
Distorted == { ticket \in OldTicket : ~Refused(ticket) /\ ~IsKept(ticket) }

\* The rows tell how a ticket went from one status to the other: each change
\* begins where the one before it, by id, ended.
Connects(rows, from, to) ==
    LET ids == DOMAIN rows IN
    /\ \A i \in ids : rows[i].previous # rows[i].current
    /\ \A i, j \in ids :
           i < j /\ (\A k \in ids : ~(i < k /\ k < j)) => rows[j].previous = rows[i].current
    /\ \A i \in ids : (\A k \in ids : i <= k) => rows[i].previous = from
    /\ \A i \in ids : (\A k \in ids : k <= i) => rows[i].current = to
    /\ ids = {} => from = to

\* A status history that explains the ticket's status still does so in the
\* simpler statuses, for which many of its changes are none.
StaysConnected(n, s) ==
    LET rows == [i \in 1..n |-> [previous |-> s[i], current |-> s[i + 1]]]
    IN  Connects(rows, s[1], s[n + 1])
            => Connects(SimpleHistory(rows), Simplified(s[1]), Simplified(s[n + 1]))

\* Histories that are torn apart.
Disconnected ==
    UNION { { s \in [1..n + 1 -> OldStatuses] : ~StaysConnected(n, s) } : n \in 0..MaxChanges }

=============================================================================
