------------------------------- MODULE Access -------------------------------
(***************************************************************************)
(* Who may do what with a product's tickets.  The rules are written down   *)
(* several times: in Go for one ticket, in SQL for the lists and counters, *)
(* in SQL again for whom a ticket may be assigned to, and in the checks of *)
(* the transactions.  They are pure functions of the account's role, of    *)
(* its role in the product ("none": not a member) and of whether it is the *)
(* ticket's requester.  The properties say that they are one set of rules. *)
(***************************************************************************)

AccountRoles == {"admin", "staff", "customer"}
ProductRoles == {"manager", "staff", "internal_contributor", "viewer", "customer"}
MemberRoles == ProductRoles \cup {"none"}

-----------------------------------------------------------------------------
(* The handlers' rules, in Go.                                             *)

\* Mutant: a customer account with a manager's row manages the product.
ProductAccessOfMember(role, memberRole) ==
    IF role = "admin"
    THEN [role |-> "manager", read |-> TRUE, manage |-> TRUE, createTicket |-> TRUE]
    ELSE [role |-> memberRole,
          read |-> memberRole # "none",
          manage |-> memberRole = "manager",
          createTicket |-> memberRole \in {"manager", "staff", "customer"}]

ProductAccess(role, memberRole) ==
    IF role = "admin"
    THEN [role |-> "manager", read |-> TRUE, manage |-> TRUE, createTicket |-> TRUE]
    ELSE [role |-> memberRole,
          read |-> memberRole # "none",
          manage |-> role # "customer" /\ memberRole = "manager",
          createTicket |-> memberRole \in {"manager", "staff", "customer"}]

NoTicketAccess ==
    [read |-> FALSE, reply |-> FALSE, internalNotes |-> FALSE,
     edit |-> FALSE, viewAssignee |-> FALSE]

TicketAccess(role, memberRole, own) ==
    LET inProduct == ProductAccess(role, memberRole)
        requesterOnly == role = "customer" \/ inProduct.role = "customer"
        editable == role # "customer" /\ inProduct.role \in {"manager", "staff"}
    IN  IF ~inProduct.read THEN NoTicketAccess
        ELSE [read |-> ~requesterOnly \/ own,
              reply |-> inProduct.createTicket,
              internalNotes |-> \/ editable
                                \/ role # "customer" /\ inProduct.role = "internal_contributor",
              edit |-> editable,
              viewAssignee |-> role # "customer" /\ inProduct.role # "customer"]

\* internal: the attachment belongs to an internal note.
CanReadAttachment(access, internal) == access.read /\ (internal => access.internalNotes)

CanViewSummaryAssignee(role, memberRole) ==
    role # "customer" /\ (role = "admin" \/ memberRole # "customer")

-----------------------------------------------------------------------------
(* The lists' and the counters' rules, in SQL.                             *)

\* Mutant: a staff account sees all tickets of a product it is a customer of.
ListedToMembers(role, memberRole, own) ==
    \/ role = "admin"
    \/ role = "staff" /\ memberRole # "none"
    \/ role = "customer" /\ memberRole # "none" /\ own

\* Which tickets a list holds.
Listed(role, memberRole, own) ==
    \/ role = "admin"
    \/ role = "staff" /\ memberRole # "none" /\ (memberRole # "customer" \/ own)
    \/ role = "customer" /\ memberRole # "none" /\ own

\* Which internal notes the unread counter counts.
CountsInternal(role, memberRole) ==
    \/ role = "admin"
    \/ role = "staff" /\ memberRole \in {"manager", "staff", "internal_contributor"}

\* Whether the list may be filtered, and searched, by the assignee.
FiltersByAssignee(role, memberRole) ==
    role # "customer" /\ (role = "admin" \/ memberRole # "customer")

\* Whether the product's assignees and requesters are offered.
OffersAccounts(role, memberRole) ==
    role # "customer" /\ (role = "admin" \/ memberRole \in {"manager", "staff"})

-----------------------------------------------------------------------------
(* The transactions' rules.                                                *)

Assignable(role, memberRole, disabled) ==
    memberRole \in {"manager", "staff"} /\ role \in {"admin", "staff"} /\ ~disabled

Requestable(role, memberRole, disabled) ==
    memberRole = "customer" /\ role = "customer" /\ ~disabled

Creates(role, memberRole, disabled) ==
    ~disabled /\ (role = "admin" \/ memberRole \in {"manager", "staff", "customer"})

\* A creator who may name neither a requester nor an assignee.
CustomerCreator(role, memberRole) ==
    role = "customer" \/ (role # "admin" /\ memberRole = "customer")

-----------------------------------------------------------------------------
(* The table of docs/access.md: what an account may do.                    *)

StaffMay(memberRole, own) ==
    CASE memberRole = "manager" -> {"read", "readNotes", "addNotes", "reply", "create", "edit",
                                "assigned", "manage"}
      [] memberRole = "staff" -> {"read", "readNotes", "addNotes", "reply", "create", "edit", "assigned"}
      [] memberRole = "internal_contributor" -> {"read", "readNotes", "addNotes"}
      [] memberRole = "viewer" -> {"read"}
      [] memberRole = "customer" -> {"create"} \cup (IF own THEN {"read", "reply"} ELSE {})
      [] OTHER -> {}

\* What the code lets an active account do.
CodeLets(role, memberRole, own) ==
    LET access == TicketAccess(role, memberRole, own)
        inProduct == ProductAccess(role, memberRole)
    IN  { action \in {"read", "readNotes", "addNotes", "reply", "create", "edit",
                      "assigned", "manage"} :
            CASE action = "read" -> access.read
              [] action = "readNotes" -> CanReadAttachment(access, TRUE)
              [] action = "addNotes" -> access.read /\ access.internalNotes
              [] action = "reply" -> access.read /\ access.reply
              [] action = "create" -> inProduct.createTicket /\ Creates(role, memberRole, FALSE)
              [] action = "edit" -> access.read /\ access.edit
              [] action = "assigned" -> Assignable(role, memberRole, FALSE)
              [] action = "manage" -> inProduct.manage }

-----------------------------------------------------------------------------
(* Properties.                                                             *)

\* The list holds a ticket exactly when opening it is allowed, counts the
\* internal notes exactly when they can be read, and shows the assignee, and
\* searches by it, exactly when the opened ticket shows it; the accounts a
\* ticket may name are offered to those who may edit it, who are the ones
\* whose new ticket may name them.  A list that holds more, or counts more,
\* tells what the ticket itself would not show.
Agree(role, memberRole, own) ==
    LET access == TicketAccess(role, memberRole, own)
    IN  /\ Listed(role, memberRole, own) <=> access.read
        /\ access.read =>
            /\ CountsInternal(role, memberRole) <=> access.internalNotes
            /\ CanViewSummaryAssignee(role, memberRole) <=> access.viewAssignee
            /\ FiltersByAssignee(role, memberRole) <=> access.viewAssignee
        /\ OffersAccounts(role, memberRole) <=> access.edit
        /\ Creates(role, memberRole, FALSE) <=> ProductAccess(role, memberRole).createTicket
        /\ (Creates(role, memberRole, FALSE) /\ ~CustomerCreator(role, memberRole)) <=> access.edit

\* Who the rules, in Go and in SQL, do not agree on, and whose tickets.
Disagreements ==
    { c \in [role : AccountRoles, member : MemberRoles, own : BOOLEAN] :
        ~Agree(c.role, c.member, c.own) }

DisagreedOn == { c.own : c \in Disagreements }

\* The code grants what docs/access.md says: its table for a staff account,
\* everything but being assigned for an administrator, and for a customer
\* account no privilege of staff, whatever its role in the product, and only
\* its own tickets.
Documented(memberRole, own) ==
    /\ CodeLets("staff", memberRole, own) = StaffMay(memberRole, own)
    /\ {"read", "readNotes", "addNotes", "reply", "create", "edit", "manage"}
           \subseteq CodeLets("admin", memberRole, own)
    /\ CodeLets("customer", memberRole, own) \subseteq {"read", "reply", "create"}
    /\ {"read", "reply"} \cap CodeLets("customer", memberRole, own) # {} => own

\* Members that the code lets do anything else than docs/access.md says.
Undocumented ==
    { c \in [member : MemberRoles, own : BOOLEAN] : ~Documented(c.member, c.own) }

UndocumentedOn == { c.own : c \in Undocumented }

=============================================================================
