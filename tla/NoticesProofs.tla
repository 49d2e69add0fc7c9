---------------------------- MODULE NoticesProofs ---------------------------
(***************************************************************************)
(* Proofs about the rules of Access and Notices: that the rules of access  *)
(* agree, for every role, and that a save tells whom it should, for every  *)
(* save and any number of accounts.                                        *)
(***************************************************************************)
EXTENDS Notices, TLAPS

-----------------------------------------------------------------------------
(* Access.                                                                 *)

LEMMA Agreement ==
  ASSUME NEW role \in AccountRoles, NEW memberRole \in MemberRoles, NEW own \in BOOLEAN
  PROVE  Agree(role, memberRole, own)
<1> USE DEF AccountRoles, MemberRoles, ProductRoles
<1>1. CASE role = "admin"
  BY <1>1 DEF Agree, TicketAccess, ProductAccess, NoTicketAccess, Listed, CountsInternal,
     CanViewSummaryAssignee, FiltersByAssignee, OffersAccounts, Creates, CustomerCreator
<1>2. CASE role = "staff"
  BY <1>2 DEF Agree, TicketAccess, ProductAccess, NoTicketAccess, Listed, CountsInternal,
     CanViewSummaryAssignee, FiltersByAssignee, OffersAccounts, Creates, CustomerCreator
<1>3. CASE role = "customer"
  BY <1>3 DEF Agree, TicketAccess, ProductAccess, NoTicketAccess, Listed, CountsInternal,
     CanViewSummaryAssignee, FiltersByAssignee, OffersAccounts, Creates, CustomerCreator
<1> QED
  BY <1>1, <1>2, <1>3

\* What a list holds, counts and shows in SQL is what the ticket's own page
\* allows in Go, for every role of an account and in a product.
THEOREM RulesAgree == Disagreements = {}
  BY Agreement DEF Disagreements

LEMMA Documentation ==
  ASSUME NEW memberRole \in MemberRoles, NEW own \in BOOLEAN
  PROVE  Documented(memberRole, own)
<1> USE DEF MemberRoles, ProductRoles
<1>1. CodeLets("staff", memberRole, own) = StaffMay(memberRole, own)
  <2>1. CASE memberRole = "manager"
    BY <2>1 DEF CodeLets, StaffMay, TicketAccess, ProductAccess, NoTicketAccess,
       CanReadAttachment, Creates, Assignable
  <2>2. CASE memberRole = "staff"
    BY <2>2, ZenonT(60) DEF CodeLets, StaffMay, TicketAccess, ProductAccess, NoTicketAccess,
       CanReadAttachment, Creates, Assignable
  <2>3. CASE memberRole = "internal_contributor"
    BY <2>3, ZenonT(60) DEF CodeLets, StaffMay, TicketAccess, ProductAccess, NoTicketAccess,
       CanReadAttachment, Creates, Assignable
  <2>4. CASE memberRole = "viewer"
    BY <2>4, ZenonT(60) DEF CodeLets, StaffMay, TicketAccess, ProductAccess, NoTicketAccess,
       CanReadAttachment, Creates, Assignable
  <2>5. CASE memberRole = "customer"
    <3>1. CASE own
      BY <2>5, <3>1, ZenonT(60) DEF CodeLets, StaffMay, TicketAccess, ProductAccess,
         NoTicketAccess, CanReadAttachment, Creates, Assignable
    <3>2. CASE ~own
      BY <2>5, <3>2, ZenonT(60) DEF CodeLets, StaffMay, TicketAccess, ProductAccess,
         NoTicketAccess, CanReadAttachment, Creates, Assignable
    <3> QED
      BY <3>1, <3>2
  <2>6. CASE memberRole = "none"
    BY <2>6, ZenonT(60) DEF CodeLets, StaffMay, TicketAccess, ProductAccess, NoTicketAccess,
       CanReadAttachment, Creates, Assignable
  <2> QED
    BY <2>1, <2>2, <2>3, <2>4, <2>5, <2>6
<1>2. {"read", "readNotes", "addNotes", "reply", "create", "edit", "manage"}
          \subseteq CodeLets("admin", memberRole, own)
  BY ZenonT(60) DEF CodeLets, TicketAccess, ProductAccess, NoTicketAccess, CanReadAttachment,
     Creates
<1>3. /\ CodeLets("customer", memberRole, own) \subseteq {"read", "reply", "create"}
      /\ {"read", "reply"} \cap CodeLets("customer", memberRole, own) # {} => own
  BY ZenonT(60) DEF CodeLets, TicketAccess, ProductAccess, NoTicketAccess, CanReadAttachment,
     Creates, Assignable
<1> QED
  BY <1>1, <1>2, <1>3 DEF Documented

\* Nobody may do more, and staff nothing less, than the table of
\* docs/access.md says.
THEOREM CodeFollowsDocumentation == Undocumented = {}
  BY Documentation DEF Undocumented
-----------------------------------------------------------------------------
(* Notices.                                                                *)

NoMembers == [u \in Users |-> "none"]

After(s) == Patched(Effective(s), s.ticket)
Payloads(s) == Payload(Effective(s), s.ticket)

LEMMA EffectiveSave ==
  ASSUME NEW s \in Situation
  PROVE  Effective(s) \in Save /\ Effective(s).quiet = s.save.quiet
  BY DEF Situation, Save, Effective, Reopening

LEMMA AfterSave ==
  ASSUME NEW s \in Situation
  PROVE  /\ After(s).requester = s.ticket.requester
         /\ After(s).assignee \in Users \cup {Nobody}
         /\ After(s).status # s.ticket.status => Effective(s).status # Keep
  BY EffectiveSave DEF Situation, Save, After, Patched

\* The fields of the payload.
LEMMA PayloadFields ==
  ASSUME NEW s \in Situation
  PROVE  LET p == Payloads(s) save == Effective(s) IN
         /\ p.hasPatch = HasPatch(save) /\ p.onlyAssignee = OnlyAssignee(save)
         /\ p.assigned = (save.assignee # Keep /\ save.assignee # s.ticket.assignee)
         /\ p.public = (save.comment = "public")
         /\ p.status = (After(s).status # s.ticket.status)
         /\ p.quiet = s.save.quiet
  BY EffectiveSave DEF Payloads, Payload, After

\* The events that tell an account.
LEMMA TellingEvents ==
  ASSUME NEW s \in Situation, NEW u \in Users
  PROVE  TellingIn(s, u) = { event \in SavedEvents(Payloads(s)) :
            u \in Emailed(event, Payloads(s), After(s), s.actor, s.account, NoMembers) }
  BY DEF TellingIn, Telling, Payloads, After, Effective, NoMembers

\* Whom a single event mails is told.
LEMMA MailedIsTold ==
  ASSUME NEW s \in Situation, NEW u \in Users, NEW event \in SavedEvents(Payloads(s))
  PROVE  u \in Emailed(event, Payloads(s), After(s), s.actor, s.account, NoMembers)
           => u \in ToldIn(s)
  BY TellingEvents DEF ToldIn

LEMMA ToldIsMailed ==
  ASSUME NEW s \in Situation, NEW u \in ToldIn(s)
  PROVE  \E event \in SavedEvents(Payloads(s)) :
            u \in Emailed(event, Payloads(s), After(s), s.actor, s.account, NoMembers)
  BY TellingEvents DEF ToldIn

LEMMA StaffMail ==
  ASSUME NEW s \in Situation, NEW event \in {"updated", "assigned", "commented"},
         NotifiesStaff(event, Payloads(s)),
         After(s).assignee \in Users \ {s.actor},
         ~s.account[After(s).assignee].disabled,
         s.account[After(s).assignee].role # "customer",
         ~(s.save.quiet /\ After(s).assignee = s.ticket.requester)
  PROVE  After(s).assignee \in Emailed(event, Payloads(s), After(s), s.actor, s.account, NoMembers)
<1>1. After(s).assignee \in StaffRecipients(event, After(s), s.actor, s.account, NoMembers)
  BY DEF StaffRecipients
<1>2. ~(Payloads(s).quiet /\ After(s).assignee = After(s).requester)
  BY AfterSave, PayloadFields
<1> QED
  BY <1>1, <1>2 DEF Emailed

LEMMA AssigneesAreTold ==
  ASSUME NEW s \in Situation
  PROVE  AssigneeIsTold(s)
<1> DEFINE p == Payloads(s)
           a == After(s).assignee
<1> SUFFICES ASSUME a \in Users \ {s.actor},
                    ~s.account[a].disabled, s.account[a].role # "customer",
                    p.assigned \/ p.public \/ (p.hasPatch /\ ~p.onlyAssignee),
                    ~(p.quiet /\ a = s.ticket.requester),
                    ~(p.onlyAssignee /\ p.public)
             PROVE  a \in ToldIn(s)
  BY DEF AssigneeIsTold, Payloads, After
<1>1. p.assigned \/ p.onlyAssignee => p.hasPatch
  BY PayloadFields DEF HasPatch, OnlyAssignee
<1>2. ~(s.save.quiet /\ a = s.ticket.requester)
  BY PayloadFields
<1>3. CASE p.hasPatch /\ ~p.onlyAssignee
  <2>1. "updated" \in SavedEvents(p) /\ NotifiesStaff("updated", p)
    BY <1>3 DEF SavedEvents, NotifiesStaff
  <2> QED
    BY <2>1, <1>2, StaffMail, MailedIsTold
<1>4. CASE p.hasPatch /\ p.onlyAssignee
  <2>1. "assigned" \in SavedEvents(p) /\ NotifiesStaff("assigned", p)
    BY <1>4 DEF SavedEvents, NotifiesStaff
  <2> QED
    BY <2>1, <1>2, StaffMail, MailedIsTold
<1>5. CASE ~p.hasPatch
  <2>1. "commented" \in SavedEvents(p) /\ NotifiesStaff("commented", p)
    BY <1>1, <1>5 DEF SavedEvents, NotifiesStaff
  <2> QED
    BY <2>1, <1>2, StaffMail, MailedIsTold
<1> QED
  BY <1>3, <1>4, <1>5, PayloadFields DEF HasPatch

\* When an event of a save is mailed to staff, and when to the requester.  The
\* three cases of staff exclude each other.
LEMMA MailedEvents ==
  ASSUME NEW s \in Situation, NEW event \in SavedEvents(Payloads(s)), NEW own \in BOOLEAN
  PROVE  LET p == Payloads(s) IN
         /\ NotifiesStaff(event, p) =>
                \/ event = "updated" /\ p.hasPatch /\ ~p.onlyAssignee
                \/ event = "assigned" /\ p.hasPatch /\ p.onlyAssignee /\ ~p.public
                \/ event = "commented" /\ p.public /\ ~p.hasPatch
         /\ NotifiesRequester(event, p, own) =>
                (event = "updated" /\ p.status) \/ (event = "commented" /\ p.public)
<1>1. CASE event = "updated"
  BY <1>1 DEF NotifiesStaff, NotifiesRequester
<1>2. CASE event = "assigned"
  BY <1>2 DEF SavedEvents, NotifiesStaff, NotifiesRequester
<1>3. CASE event = "commented"
  BY <1>3 DEF NotifiesStaff, NotifiesRequester
<1> QED
  BY <1>1, <1>2, <1>3 DEF SavedEvents

LEMMA NobodysToldTwice ==
  ASSUME NEW s \in Situation
  PROVE  NobodyIsToldTwice(s)
<1> DEFINE p == Payloads(s)
           c == s.ticket.requester
           M(event) == Emailed(event, p, After(s), s.actor, s.account, NoMembers)
<1> SUFFICES ASSUME NEW u \in Users,
                    ~(u = c /\ p.public
                        /\ (p.status \/ (s.account[u].role # "customer"
                                            /\ p.hasPatch /\ ~p.onlyAssignee))),
                    NEW event \in TellingIn(s, u), NEW other \in TellingIn(s, u)
             PROVE  event = other
  BY DEF NobodyIsToldTwice, Payloads
<1>1. /\ event \in SavedEvents(p) /\ u \in M(event)
      /\ other \in SavedEvents(p) /\ u \in M(other)
  BY TellingEvents
<1>2. ASSUME NEW e \in SavedEvents(p), u \in M(e)
      PROVE  \/ NotifiesStaff(e, p) /\ s.account[u].role # "customer"
             \/ NotifiesRequester(e, p, s.actor = c) /\ u = c
  BY <1>2, AfterSave DEF Emailed, StaffRecipients, RequesterRecipients
<1>3. p.status => p.hasPatch /\ ~p.onlyAssignee
  BY AfterSave, PayloadFields DEF HasPatch, OnlyAssignee
<1>4. ASSUME NEW e \in SavedEvents(p)
      PROVE  /\ NotifiesStaff(e, p) =>
                  \/ e = "updated" /\ p.hasPatch /\ ~p.onlyAssignee
                  \/ e = "assigned" /\ p.hasPatch /\ p.onlyAssignee /\ ~p.public
                  \/ e = "commented" /\ p.public /\ ~p.hasPatch
             /\ NotifiesRequester(e, p, s.actor = c) =>
                  (e = "updated" /\ p.status) \/ (e = "commented" /\ p.public)
  BY MailedEvents
<1> HIDE DEF p, M
<1> QED
  BY <1>1, <1>2, <1>3, <1>4

LEMMA CustomersAreTold ==
  ASSUME NEW s \in Situation
  PROVE  CustomerIsToldOfItsPart(s)
<1> DEFINE p == Payloads(s)
           c == s.ticket.requester
<1> SUFFICES ASSUME s.account[c].role = "customer"
             PROVE  c \in ToldIn(s) <=> /\ c # s.actor /\ ~s.account[c].disabled /\ ~s.save.quiet
                                        /\ p.status \/ p.public
  BY DEF CustomerIsToldOfItsPart, Payloads
<1>1. c \in Users /\ c = After(s).requester
  BY AfterSave DEF Situation
<1>2. ASSUME NEW event
      PROVE  c \in Emailed(event, p, After(s), s.actor, s.account, NoMembers)
               <=> /\ NotifiesRequester(event, p, s.actor = c)
                   /\ ~s.account[c].disabled /\ ~s.save.quiet
  <2>1. c \notin StaffRecipients(event, After(s), s.actor, s.account, NoMembers)
    BY DEF StaffRecipients
  <2>2. c \in RequesterRecipients(After(s), s.account) <=> ~s.account[c].disabled
    BY <1>1 DEF RequesterRecipients
  <2> QED
    BY <1>1, <2>1, <2>2, PayloadFields DEF Emailed
<1>3. ASSUME c \in ToldIn(s)
      PROVE  c # s.actor /\ ~s.account[c].disabled /\ ~s.save.quiet /\ (p.status \/ p.public)
  <2>1. PICK event \in SavedEvents(p) :
            c \in Emailed(event, p, After(s), s.actor, s.account, NoMembers)
    BY <1>3, ToldIsMailed
  <2>2. event \in {"updated", "assigned", "commented"}
    BY DEF SavedEvents
  <2>3. NotifiesRequester(event, p, s.actor = c)
    BY <1>2, <2>1
  <2>4. c # s.actor /\ (p.status \/ p.public)
    BY <2>2, <2>3 DEF NotifiesRequester
  <2> QED
    BY <1>2, <2>1, <2>4
<1>4. ASSUME c # s.actor, ~s.account[c].disabled, ~s.save.quiet, p.status \/ p.public
      PROVE  c \in ToldIn(s)
  <2>1. CASE p.status
    <3>1. "updated" \in SavedEvents(p)
      BY <2>1, AfterSave, PayloadFields DEF SavedEvents, HasPatch
    <3>2. NotifiesRequester("updated", p, s.actor = c)
      BY <1>4, <2>1 DEF NotifiesRequester
    <3> QED
      BY <1>1, <1>2, <1>4, <3>1, <3>2, MailedIsTold
  <2>2. CASE p.public
    <3>1. "commented" \in SavedEvents(p)
      BY <2>2 DEF SavedEvents
    <3>2. NotifiesRequester("commented", p, s.actor = c)
      BY <1>4, <2>2 DEF NotifiesRequester
    <3> QED
      BY <1>1, <1>2, <1>4, <3>1, <3>2, MailedIsTold
  <2> QED
    BY <1>4, <2>1, <2>2
<1> QED
  BY <1>3, <1>4

\* The three events of a save, each projected alone, leave nobody out, mail
\* nobody twice but a requester whose ticket was changed and commented at once,
\* and tell a customer nothing that is not its own, however many accounts
\* there are.
THEOREM SavesTellWhomTheyShould == Untold = {}
  BY AssigneesAreTold, NobodysToldTwice, CustomersAreTold DEF Untold
=============================================================================
