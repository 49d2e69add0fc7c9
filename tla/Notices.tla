------------------------------- MODULE Notices ------------------------------
(***************************************************************************)
(* Whom a change of a ticket is mailed to.  A save commits up to three     *)
(* domain events with one payload; their projection decides for each event *)
(* alone whether staff and whether the requester are mailed, and works the *)
(* addresses out of the ticket as it is then.  What a save as a whole      *)
(* tells, and whom, is in none of the functions: it is what is said here.  *)
(*                                                                         *)
(* Accounts have an address, and mail is switched on.                      *)
(***************************************************************************)
EXTENDS Access

CONSTANTS
    Users,     \* accounts
    Nobody,    \* no assignee
    Keep       \* a field that a patch leaves as it is

ASSUME NoticesAssumption ==
    /\ Users # {}
    /\ Nobody \notin Users /\ Keep \notin Users \cup {Nobody, "open", "closed"}

-----------------------------------------------------------------------------
\* A save: what PATCH /api/tickets/{id} and the comment form ask for.
\* details: the title, the description or the priority.
Save ==
    [status : {Keep, "open", "closed"}, assignee : Users \cup {Nobody, Keep},
     details : BOOLEAN, comment : {"none", "public", "internal"}, quiet : BOOLEAN]

HasPatch(save) == save.status # Keep \/ save.assignee # Keep \/ save.details

OnlyAssignee(save) == save.assignee # Keep /\ save.status = Keep /\ ~save.details

\* A public comment opens a closed ticket, whatever the patch says.
Reopening(save, theTicket) ==
    IF save.comment = "public" /\ theTicket.status = "closed"
    THEN [save EXCEPT !.status = "open"] ELSE save

\* applyTicketPatch
Patched(save, theTicket) ==
    [theTicket EXCEPT !.status = IF save.status = Keep THEN @ ELSE save.status,
                      !.assignee = IF save.assignee = Keep THEN @ ELSE save.assignee]

\* TicketEventPayload, of a save as it stands after Reopening.
Payload(save, theTicket) ==
    [hasPatch |-> HasPatch(save),
     onlyAssignee |-> OnlyAssignee(save),
     assigned |-> save.assignee # Keep /\ save.assignee # theTicket.assignee,
     public |-> save.comment = "public",
     status |-> Patched(save, theTicket).status # theTicket.status,
     quiet |-> save.quiet]

\* The domain events of a save.
SavedEvents(payload) ==
    (IF payload.hasPatch THEN {"updated"} ELSE {})
        \cup (IF payload.hasPatch /\ payload.assigned THEN {"assigned"} ELSE {})
        \cup (IF payload.public THEN {"commented"} ELSE {})

-----------------------------------------------------------------------------
\* Mutant: a comment that comes with a patch is not left to the update's mail.
NotifiesStaffTwice(event, payload) ==
    CASE event = "created" -> TRUE
      [] event = "updated" -> payload.hasPatch /\ ~payload.onlyAssignee
      [] event = "assigned" -> payload.assigned /\ payload.onlyAssignee /\ ~payload.public
      [] event = "commented" -> payload.public

NotifiesStaff(event, payload) ==
    CASE event = "created" -> TRUE
      [] event = "updated" -> payload.hasPatch /\ ~payload.onlyAssignee
      [] event = "assigned" -> payload.assigned /\ payload.onlyAssignee /\ ~payload.public
      [] event = "commented" -> payload.public /\ ~payload.hasPatch

\* own: the actor is the requester.
NotifiesRequester(event, payload, own) ==
    CASE event = "created" -> TRUE
      [] event = "updated" -> payload.status /\ ~own
      [] event = "commented" -> payload.public /\ ~own
      [] OTHER -> FALSE

\* accounts: [Users -> [role, disabled]], members: [Users -> MemberRoles].
ActiveManagers(accounts, members) ==
    { u \in Users : ~accounts[u].disabled /\ (accounts[u].role = "admin" \/ members[u] = "manager") }

\* TicketEmailRecipients
StaffRecipients(event, theTicket, actor, accounts, members) ==
    { u \in CASE event = "created" -> ActiveManagers(accounts, members)
              [] event \in {"updated", "commented"} -> {theTicket.requester, theTicket.assignee} \cap Users
              [] event = "assigned" -> {theTicket.assignee} \cap Users :
        u # actor /\ ~accounts[u].disabled /\ accounts[u].role # "customer" }

\* requesterEmailNotifications; the outbox takes no mail for a disabled account.
RequesterRecipients(theTicket, accounts) ==
    { u \in {theTicket.requester} : ~accounts[u].disabled }

\* ticketEventEmails
Emailed(event, payload, theTicket, actor, accounts, members) ==
    ((IF NotifiesStaff(event, payload)
      THEN StaffRecipients(event, theTicket, actor, accounts, members) ELSE {})
        \cup (IF NotifiesRequester(event, payload, actor = theTicket.requester)
              THEN RequesterRecipients(theTicket, accounts) ELSE {}))
     \ (IF payload.quiet THEN {theTicket.requester} ELSE {})

\* The events by which a save is mailed to u, projected while the ticket is as
\* the save left it.  One event is one mail: the outbox makes one of what it
\* is handed together for an account and a ticket.
Telling(u, save, theTicket, actor, accounts, members) ==
    LET payload == Payload(Reopening(save, theTicket), theTicket)
        after == Patched(Reopening(save, theTicket), theTicket)
    IN  { event \in SavedEvents(payload) : u \in Emailed(event, payload, after, actor, accounts, members) }

-----------------------------------------------------------------------------
(* Properties, of every save, ticket, and state of the accounts.           *)

Situation ==
    [save : Save, actor : Users, account : [Users -> [role : AccountRoles, disabled : BOOLEAN]],
     ticket : [status : {"open", "closed"}, requester : Users, assignee : Users \cup {Nobody}]]

TellingIn(s, u) == Telling(u, s.save, s.ticket, s.actor, s.account, [v \in Users |-> "none"])

ToldIn(s) == { u \in Users : TellingIn(s, u) # {} }

Effective(s) == Reopening(s.save, s.ticket)

\* The assignee that a save leaves the ticket with hears of every save of
\* somebody else's that names an assignee anew, that changes anything else, or
\* that adds a public comment: one of the events tells it.  There are two
\* exceptions.  The assignee is the requester, who was left out.  And the save
\* sets nothing but the assignee and comes with a public comment: the
\* assignment leaves it to the comment, and the comment to the update.
AssigneeIsTold(s) ==
    LET save == Effective(s)
        payload == Payload(save, s.ticket)
        a == Patched(save, s.ticket).assignee
    IN  ( /\ a \in Users \ {s.actor}
          /\ ~s.account[a].disabled /\ s.account[a].role # "customer"
          /\ payload.assigned \/ payload.public \/ (payload.hasPatch /\ ~payload.onlyAssignee)
          /\ ~(payload.quiet /\ a = s.ticket.requester)
          /\ ~(payload.onlyAssignee /\ payload.public) )
        => a \in ToldIn(s)

\* Nobody hears of one save from two of its events, although each event is
\* projected without knowledge of the others.  The exception is the requester
\* of a ticket that was commented in public and changed by one save: a
\* customer, when the status changed, and a member of the staff, when anything
\* but the assignee alone was set.  The comment tells it as the requester,
\* and the update tells it as well.
NobodyIsToldTwice(s) ==
    LET payload == Payload(Effective(s), s.ticket)
        Commented(u) ==
            /\ u = s.ticket.requester
            /\ payload.public
            /\ \/ payload.status
               \/ /\ s.account[u].role # "customer"
                  /\ payload.hasPatch /\ ~payload.onlyAssignee
    IN  \A u \in Users :
            ~Commented(u) => \A event, other \in TellingIn(s, u) : event = other

\* A customer hears of its ticket when somebody else changed the status or
\* commented in public, unless that was left out, and of nothing else: no
\* internal note, and no change of what only staff sees, causes it a mail.
CustomerIsToldOfItsPart(s) ==
    LET payload == Payload(Effective(s), s.ticket)
        c == s.ticket.requester
    IN  s.account[c].role = "customer" =>
            (c \in ToldIn(s) <=>
                /\ c # s.actor /\ ~s.account[c].disabled /\ ~s.save.quiet
                /\ payload.status \/ payload.public)

\* Saves whose events, deciding each on its own whom to mail, together do not
\* reach the two who wait for it, reach somebody twice, or reach one who must
\* not hear of it.
Untold ==
    { s \in Situation :
        ~(AssigneeIsTold(s) /\ NobodyIsToldTwice(s) /\ CustomerIsToldOfItsPart(s)) }

UntoldTickets == { s.ticket : s \in Untold }

=============================================================================
