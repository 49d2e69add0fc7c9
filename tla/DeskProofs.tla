----------------------------- MODULE DeskProofs -----------------------------
(***************************************************************************)
(* Proofs about Desk: what holds of tickets, saves and files however many  *)
(* there are and however many requests are under way.                      *)
(*                                                                         *)
(* The invariants that are not inductive, and what they need:              *)
(*   NumbersAreUnique       a ticket's number is at most its place in the  *)
(*                          order of creation, so that the next number is  *)
(*                          bounded (Numbered);                            *)
(*   HistoryExplainsStatus  said of the history alone, and that a ticket   *)
(*                          which is not there has none (Explained);       *)
(*   OneEffectPerKey        a key has one row, and an effect exactly if it *)
(*                          has it (Keyed);                                *)
(*   AttachmentsHaveFiles, FilesHaveOwners   a file that has still to be   *)
(*                          attached is its request's alone, and one that  *)
(*                          is to be removed has no row (Kept).            *)
(***************************************************************************)
EXTENDS Desk, NoticesProofs, TLAPS, WellFoundedInduction, FiniteSetTheorems

-----------------------------------------------------------------------------
(* Values.                                                                 *)

LEMMA SomeUserIsOne == SomeUser \in Users
  BY NoticesAssumption DEF SomeUser

LEMMA IdleIsRequest ==
    /\ Idle \in Request /\ Idle.pc = "idle" /\ Idle.files = {} /\ Idle.ticket = 0
    /\ \A user \in Users : [[Idle EXCEPT !.pc = "create", !.user = user] EXCEPT !.allowed = TRUE] \in Request
    /\ \A files \in SUBSET Files : [Idle EXCEPT !.pc = "remove", !.files = files] \in Request
<1>1. NoSave \in Save
  BY DEF NoSave, Save
<1>2. 0 \in 0..MaxTickets
  BY DeskAssumption
<1> QED
  BY <1>1, <1>2, SomeUserIsOne DEF Idle, Request

LEMMA NoTicketIsTicket ==
    \A state \in {"none", "gone"} : NoTicket(state) \in Ticket /\ NoTicket(state).state = state
  BY SomeUserIsOne DEF NoTicket, Ticket

LEMMA ReopeningIsSave ==
    ASSUME NEW save \in Save, NEW t \in Ticket
    PROVE  Reopening(save, t) \in Save
  BY DEF Reopening, Save

LEMMA PatchedIsTicket ==
    ASSUME NEW save \in Save, NEW t \in Ticket
    PROVE  /\ Patched(save, t) \in Ticket
           /\ Patched(save, t).state = t.state
           /\ Patched(save, t).number = t.number
           /\ Patched(save, t).status = IF save.status = Keep THEN t.status ELSE save.status
  BY DEF Patched, Save, Ticket

\* What a cleanup does, whether the removal succeeds or not.
LEMMA CleanupDoes ==
    ASSUME TypeOK, NEW h \in Handlers, Cleanup(h)
    PROVE  /\ request' = [request EXCEPT ![h] = Idle]
           /\ disk' \in [Files -> {"none", "there", "gone"}]
           /\ faults' \in Nat
           /\ stranded \subseteq stranded' /\ stranded' \subseteq Files
           /\ \A f \in Files : f \notin request[h].files => disk'[f] = disk[f]
           /\ \A f \in Files : disk'[f] = "there" =>
                   disk[f] = "there" /\ (f \in request[h].files => f \in stranded')
           /\ \A f \in Files : disk[f] # "none" => disk'[f] # "none"
<1>1. CASE RemoveAll(h, request[h].files)
  BY <1>1 DEF RemoveAll, Reset, TypeOK
<1>2. CASE RemoveNone(h, request[h].files)
  <2>1. request[h].files \subseteq Files
    BY DEF TypeOK, Request
  <2>2. /\ request' = [request EXCEPT ![h] = Idle] /\ disk' = disk
        /\ faults' = faults + 1 /\ stranded' = stranded \cup {f \in request[h].files : disk[f] = "there"}
    BY <1>2 DEF RemoveNone, Reset
  <2> QED
    BY <2>1, <2>2 DEF TypeOK
<1> QED
  BY <1>1, <1>2 DEF Cleanup

\* What the deletion of tickets leaves.
LEMMA WithoutDoes ==
    ASSUME TypeOK, NEW tickets \in SUBSET Tickets, Without(tickets)
    PROVE  /\ ticket' \in [Tickets -> Ticket]
           /\ history' \in [Tickets -> Seq({"open", "closed"})]
           /\ recorded' \subseteq Recorded
           /\ row' \in [Files -> 0..MaxTickets]
           /\ effects' \in [Tickets \X Users \X Keys -> Nat]
           /\ \A t \in Tickets : Live(t)' <=> Live(t) /\ t \notin tickets
           /\ \A r \in recorded' : Live(r.ticket)'
           /\ \A f \in Files : row'[f] # 0 => Live(row[f])'
<1>1. ticket' \in [Tickets -> Ticket] /\ \A t \in Tickets : Live(t)' <=> Live(t) /\ t \notin tickets
  BY NoTicketIsTicket DEF Without, TypeOK, Live
<1>2. history' \in [Tickets -> Seq({"open", "closed"})]
  <2>1. <<>> \in Seq({"open", "closed"})
    OBVIOUS
  <2> QED
    BY <2>1 DEF Without, TypeOK
<1>3. row' \in [Files -> 0..MaxTickets]
  BY DeskAssumption DEF Without, Unattached, TypeOK
<1>4. effects' \in [Tickets \X Users \X Keys -> Nat]
  BY DEF Without, TypeOK
<1>5. recorded' \subseteq Recorded /\ \A r \in recorded' : Live(r.ticket)'
  BY <1>1 DEF Without, TypeOK, Recorded
<1>6. \A f \in Files : row'[f] # 0 => Live(row[f])'
  BY <1>1 DEF Without, Unattached, TypeOK, Live
<1> QED
  BY <1>1, <1>2, <1>3, <1>4, <1>5, <1>6

\* What a save does to a ticket.
LEMMA SaveDoes ==
    ASSUME TypeOK, NEW h \in Handlers, SaveTicket(h), NEW t, t = request[h].ticket
    PROVE  \E save \in Save :
           /\ t \in Tickets /\ Live(t)
           /\ \A s \in Tickets : ticket'[s].state = ticket[s].state /\ ticket'[s].number = ticket[s].number
           /\ \A s \in Tickets : s # t => ticket'[s] = ticket[s] /\ history'[s] = history[s]
           /\ history'[t] = Changed(t, save)
           /\ save.status \in {Keep, "open", "closed"} /\ Keep \notin {"open", "closed"}
           /\ ticket'[t].status = IF save.status = Keep THEN ticket[t].status ELSE save.status
<1> DEFINE save == Reopening(request[h].save, ticket[t])
<1>1. /\ t \in Tickets /\ Live(t) /\ ticket[t] \in Ticket /\ request[h] \in Request
      /\ save \in Save
  BY ReopeningIsSave DEF SaveTicket, Saving, Live, TypeOK, Request
<1>2. /\ ticket' = [ticket EXCEPT ![t] = Patched(save, @)]
      /\ history' = [history EXCEPT ![t] = Changed(t, save)]
  BY DEF SaveTicket
<1> HIDE DEF save
<1>3. /\ ticket'[t] = Patched(save, ticket[t]) /\ history'[t] = Changed(t, save)
      /\ \A s \in Tickets : s # t => ticket'[s] = ticket[s] /\ history'[s] = history[s]
  BY <1>1, <1>2 DEF TypeOK
<1>4. save.status \in {Keep, "open", "closed"} /\ Keep \notin {"open", "closed"}
  BY <1>1, NoticesAssumption DEF Save
<1> QED
  BY <1>1, <1>3, <1>4, PatchedIsTicket

-----------------------------------------------------------------------------
(* The numbers of tickets.                                                 *)

\* A set of natural numbers has a least one.
LEMMA LeastOfNaturals ==
    ASSUME NEW S \in SUBSET Nat, S # {}
    PROVE  \E m \in S : \A k \in S : m <= k
<1> DEFINE R == {ss \in Nat \X Nat : ss[1] < ss[2]}
<1>1. IsWellFoundedOn(R, Nat)
  BY NatLessThanWellFounded DEF OpToRel
<1> HIDE DEF R
<1>2. PICK m \in S : \A k \in S : ~(<<k, m>> \in R)
  BY <1>1, WFMin
<1>3. ASSUME NEW k \in S PROVE m <= k
  <2>1. k \in Nat /\ m \in Nat
    OBVIOUS
  <2>2. ~(<<k, m>> \in {ss \in Nat \X Nat : ss[1] < ss[2]})
    BY <1>2 DEF R
  <2>3. ~(k < m)
    BY <2>1, <2>2
  <2> QED
    BY <2>1, <2>3
<1> QED
  BY <1>3

\* Numbers follow the order of creation, and creation leaves no gap in it.
Numbered ==
    /\ \A t \in Tickets : Live(t) => ticket[t].number \in 1..t
    /\ \A t, s \in Tickets : s < t /\ ticket[t].state # "none" => ticket[s].state # "none"
    /\ NumbersAreUnique

\* The next number is found, and no ticket has it.
LEMMA NextNumberIsNew ==
    ASSUME TypeOK, Numbered, NEW t \in Tickets, ticket[t].state = "none"
    PROVE  /\ NextNumber \in 1..t
           /\ \A s \in Tickets : Live(s) => ticket[s].number # NextNumber
<1> DEFINE IsAbove(n) == \A s \in Tickets : Live(s) => ticket[s].number < n
           S == {n \in 1..t : IsAbove(n)}
           IsNext(n) == /\ \A s \in Tickets : Live(s) => ticket[s].number < n
                        /\ n = 1 \/ ~\A s \in Tickets : Live(s) => ticket[s].number # n - 1
<1>0. MaxTickets \in Nat /\ t \in Nat /\ t >= 1 /\ t <= MaxTickets /\ \A s \in Tickets : s \in Nat
  BY DeskAssumption DEF Tickets
<1>1. \A s \in Tickets : Live(s) => ticket[s].number \in Nat /\ ticket[s].number >= 1 /\ ticket[s].number <= s
  BY <1>0 DEF Numbered, Tickets
<1>2. \A s \in Tickets : Live(s) => s < t
  BY <1>0 DEF Numbered, Live
<1>3. t \in S
  BY <1>0, <1>1, <1>2
<1>4. PICK n \in S : \A k \in S : n <= k
  <2>1. S \in SUBSET Nat
    BY <1>0
  <2> HIDE DEF S
  <2> QED
    BY <1>3, <2>1, LeastOfNaturals
<1>5. n \in 1..t /\ IsAbove(n)
  OBVIOUS
<1>6. n = 1 \/ ~IsAbove(n - 1)
  BY <1>0, <1>4, <1>5
<1>7. IsNext(n)
  <2>1. CASE n # 1
    <3>1. PICK s \in Tickets : Live(s) /\ ~(ticket[s].number < n - 1)
      BY <1>6, <2>1
    <3>2. ticket[s].number = n - 1
      BY <3>1, <1>1, <1>5, <1>0
    <3> QED
      BY <3>1, <3>2, <1>5
  <2> QED
    BY <2>1, <1>5
<1>8. n \in 1..MaxTickets + 1
  BY <1>5, <1>0
<1>9. NextNumber \in 1..MaxTickets + 1 /\ IsNext(NextNumber)
  BY <1>7, <1>8 DEF NextNumber
<1>10. NextNumber = 1 \/ \E s \in Tickets : Live(s) /\ ticket[s].number = NextNumber - 1
  BY <1>9
<1>11. NextNumber \in 1..t
  BY <1>0, <1>9, <1>10, <1>1, <1>2
<1> QED
  BY <1>9, <1>1, <1>11

-----------------------------------------------------------------------------
(* Types and foreign keys.                                                 *)

LEMMA TypeStep == TypeOK /\ Numbered /\ [Next]_vars => TypeOK'
<1> SUFFICES ASSUME TypeOK, Numbered, [Next]_vars PROVE TypeOK'
  OBVIOUS
<1>1. ASSUME NEW h \in Handlers, NEW u \in Users, BeginCreate(h, u) PROVE TypeOK'
  <2>1. [[Idle EXCEPT !.pc = "create", !.user = u] EXCEPT !.allowed = TRUE] \in Request
    BY IdleIsRequest
  <2> QED
    BY <1>1, <2>1 DEF BeginCreate, Take, database, TypeOK, Live
<1>2. ASSUME NEW h \in Handlers, NEW u \in Users, NEW t \in Tickets, NEW save \in Saves,
             NEW key \in Keys \cup {NoKey}, BeginSave(h, u, t, save, key) PROVE TypeOK'
  <2>1. request'[h] \in Request
    BY <1>2, DeskAssumption DEF BeginSave, Lets, AccessTo, Request, Tickets, TypeOK
  <2> QED
    BY <1>2, <2>1 DEF BeginSave, Take, database, TypeOK, Live
<1>3. ASSUME NEW h \in Handlers, NEW f \in Files, SaveUploadedFile(h, f) PROVE TypeOK'
  <2>1. [request[h] EXCEPT !.files = @ \cup {f}] \in Request
    <3>1. request[h] \in Request
      BY DEF TypeOK
    <3>2. request[h].files \cup {f} \in SUBSET Files
      BY <3>1 DEF Request
    <3> QED
      BY <3>1, <3>2 DEF Request
  <2> QED
    BY <1>3, <2>1 DEF SaveUploadedFile, database, TypeOK, Live
<1>4. ASSUME NEW h \in Handlers, Refuse(h) PROVE TypeOK'
  BY <1>4, IdleIsRequest, CleanupDoes DEF Refuse, database, TypeOK, Live
<1>5. ASSUME NEW h \in Handlers, NEW t \in Tickets, NEW requester \in Users,
             NEW assignee \in Users \cup {Nobody}, CreateTicket(h, t, requester, assignee) PROVE TypeOK'
  <2>1. NextNumber \in Nat
    BY <1>5, NextNumberIsNew DEF CreateTicket, Tickets
  <2>2. ticket' = [ticket EXCEPT ![t] = [state |-> "live", number |-> NextNumber, status |-> "open",
                                         requester |-> requester, assignee |-> assignee]]
    BY <1>5 DEF CreateTicket
  <2>3. ticket' \in [Tickets -> Ticket] /\ \A s \in Tickets : Live(s)' <=> Live(s) \/ s = t
    BY <2>1, <2>2 DEF TypeOK, Ticket, Live
  <2>4. request' \in [Handlers -> Request]
    <3>1. t \in 0..MaxTickets
      BY DeskAssumption DEF Tickets
    <3> QED
      <4>1. [request[h] EXCEPT !.pc = "reread", !.ticket = t] \in Request
        <5>1. request[h] \in Request
          BY DEF TypeOK
        <5> QED
          BY <5>1, <3>1 DEF Request
      <4>2. request' = [request EXCEPT ![h] = [request[h] EXCEPT !.pc = "reread", !.ticket = t]]
        BY <1>5 DEF CreateTicket, TypeOK
      <4> QED
        BY <4>1, <4>2 DEF TypeOK
  <2>5. /\ row' \in [Files -> 0..MaxTickets]
        /\ \A f \in Files : row'[f] # 0 => row'[f] = t \/ Live(row[f])
    BY <1>5, DeskAssumption DEF CreateTicket, Attached, TypeOK, Tickets
  <2>6. \A f \in Files : row'[f] # 0 => Live(row[f])'
    BY <1>5, <2>3, <2>5 DEF CreateTicket, Attached, TypeOK, Live
  <2>7. \A s \in Tickets : Live(s)' => product' = "live"
    BY <1>5, <2>3 DEF CreateTicket, TypeOK
  <2>8. \A r \in recorded' : Live(r.ticket)'
    BY <1>5, <2>3 DEF CreateTicket, TypeOK, Live
  <2> QED
    BY <1>5, <2>3, <2>4, <2>5, <2>6, <2>7, <2>8 DEF CreateTicket, TypeOK
<1>6. ASSUME NEW h \in Handlers, ReadCreated(h) PROVE TypeOK'
  BY <1>6, IdleIsRequest DEF ReadCreated, Reset, database, TypeOK, Live
<1>7. ASSUME NEW h \in Handlers, ReadCreatedFails(h) PROVE TypeOK'
  <2>1. /\ request' \in [Handlers -> Request] /\ disk' \in [Files -> {"none", "there", "gone"}]
        /\ faults' \in Nat /\ stranded' \subseteq Files
    <3>1. CASE Cleanup(h)
      BY <3>1, IdleIsRequest, CleanupDoes, ZenonT(60) DEF TypeOK
    <3>2. CASE ~Cleanup(h)
      <4>1. /\ faults' = faults + 1 /\ request' = [request EXCEPT ![h] = Idle] /\ stranded' = stranded
            /\ disk' = [f \in Files |-> IF f \in request[h].files THEN "gone" ELSE disk[f]]
        BY <1>7, <3>2 DEF ReadCreatedFails, Reset
      <4>2. request' \in [Handlers -> Request]
        BY <4>1, IdleIsRequest DEF TypeOK
      <4> QED
        BY <4>1, <4>2 DEF TypeOK
    <3> QED
      BY <3>1, <3>2
  <2>2. torn' \subseteq Files
    <3>1. torn' = torn \cup {f \in request[h].files : row[f] # 0}
      BY <1>7 DEF ReadCreatedFails
    <3>2. request[h].files \subseteq Files
      BY DEF TypeOK, Request
    <3> QED
      BY <3>1, <3>2 DEF TypeOK
  <2> QED
    BY <1>7, <2>1, <2>2 DEF ReadCreatedFails, database, TypeOK, Live
<1>8. ASSUME NEW h \in Handlers, SaveTicket(h) PROVE TypeOK'
  <2> DEFINE t == request[h].ticket
             save == Reopening(request[h].save, ticket[t])
  <2>1. /\ t \in Tickets /\ Live(t) /\ ticket[t] \in Ticket /\ request[h] \in Request
        /\ save \in Save
    BY <1>8, ReopeningIsSave DEF SaveTicket, Saving, Live, TypeOK, Request
  <2>2. /\ ticket' = [ticket EXCEPT ![t] = Patched(save, @)]
        /\ history' = [history EXCEPT ![t] = Changed(t, save)]
        /\ row' = Attached(request[h].files, t)
        /\ recorded' = RecordedNow(h)
        /\ request' = [request EXCEPT ![h] = Idle]
        /\ UNCHANGED <<product, account, member, disk, begun, changes, faults, stranded, torn>>
    BY <1>8 DEF SaveTicket, Reset
  <2>3. effects' \in [Tickets \X Users \X Keys -> Nat]
    BY <1>8 DEF SaveTicket, TypeOK
  <2> HIDE DEF save
  <2>4. ticket' \in [Tickets -> Ticket] /\ \A s \in Tickets : Live(s)' <=> Live(s)
    BY <2>1, <2>2, PatchedIsTicket DEF TypeOK, Live
  <2>5. history' \in [Tickets -> Seq({"open", "closed"})]
    <3>1. save.status \in {Keep, "open", "closed"}
      BY <2>1 DEF Save
    <3>2. Changed(t, save) \in Seq({"open", "closed"})
      BY <2>1, <3>1 DEF Changed, TypeOK
    <3> QED
      BY <2>1, <2>2, <3>2 DEF TypeOK
  <2>6. recorded' \subseteq Recorded /\ \A r \in recorded' : r \in recorded \/ r.ticket = t
    BY <2>1, <2>2 DEF RecordedNow, Recorded, Request, TypeOK
  <2>7. \A r \in recorded' : Live(r.ticket)'
    BY <2>1, <2>4, <2>6 DEF TypeOK, Recorded
  <2>8. /\ row' \in [Files -> 0..MaxTickets]
        /\ \A f \in Files : row'[f] # 0 => row'[f] = t \/ row'[f] = row[f]
    BY <2>1, <2>2, DeskAssumption DEF Attached, TypeOK, Tickets
  <2>9. \A f \in Files : row'[f] # 0 => Live(row[f])'
    <3> SUFFICES ASSUME NEW f \in Files, row'[f] # 0 PROVE Live(row[f])'
      OBVIOUS
    <3>1. row'[f] \in Tickets /\ ticket[row'[f]].state = "live"
      BY <2>1, <2>8 DEF TypeOK, Live
    <3> QED
      BY <2>4, <3>1 DEF Live
  <2>10. request' \in [Handlers -> Request]
    BY <2>2, IdleIsRequest DEF TypeOK
  <2>11. \A s \in Tickets : Live(s)' => product' = "live"
    BY <2>2, <2>4 DEF TypeOK
  <2> QED
    BY <2>2, <2>3, <2>4, <2>5, <2>6, <2>7, <2>8, <2>9, <2>10, <2>11 DEF TypeOK
<1>9. ASSUME NEW h \in Handlers, ReplaySave(h) PROVE TypeOK'
  BY <1>9, IdleIsRequest, CleanupDoes DEF ReplaySave, database, TypeOK, Live
<1>10. ASSUME NEW h \in Handlers, NEW t \in Tickets, DeleteTicket(h, t) PROVE TypeOK'
  <2> DEFINE tickets == {t}
  <2>1. Without(tickets) /\ GoOnToRemove(h, Orphaned(tickets))
    BY <1>10 DEF DeleteTicket
  <2>2. tickets \in SUBSET Tickets
    OBVIOUS
  <2> HIDE DEF tickets
  <2>3. request' \in [Handlers -> Request]
    <3>1. Orphaned(tickets) \in SUBSET Files
      BY DEF Orphaned
    <3> QED
      BY <2>1, <3>1, IdleIsRequest DEF GoOnToRemove, TypeOK
  <2>4. \A s \in Tickets : Live(s)' <=> Live(s) /\ s \notin tickets
    BY <2>1, <2>2, WithoutDoes
  <2>5. /\ product' \in {"none", "live", "gone"} /\ member' \in [Users -> MemberRoles]
        /\ product' # "live" => \A u \in Users : member'[u] = "none"
        /\ \A s \in Tickets : Live(s)' => product' = "live"
    BY <1>10, <2>4 DEF DeleteTicket, TypeOK, MemberRoles
  <2>6. /\ begun' = begun + 1
        /\ UNCHANGED <<account, disk, changes, faults, stranded, torn>>
    BY <1>10 DEF DeleteTicket, Take
  <2>7. /\ ticket' \in [Tickets -> Ticket]
        /\ history' \in [Tickets -> Seq({"open", "closed"})]
        /\ recorded' \subseteq Recorded
        /\ row' \in [Files -> 0..MaxTickets]
        /\ effects' \in [Tickets \X Users \X Keys -> Nat]
        /\ \A r \in recorded' : Live(r.ticket)'
        /\ \A f \in Files : row'[f] # 0 => Live(row[f])'
    BY <2>1, <2>2, WithoutDoes
  <2> QED
    BY <2>3, <2>5, <2>6, <2>7 DEF TypeOK
<1>11. ASSUME NEW h \in Handlers, DeleteProduct(h) PROVE TypeOK'
  <2> DEFINE tickets == {t \in Tickets : Live(t)}
  <2>1. Without(tickets) /\ GoOnToRemove(h, Orphaned(tickets))
    BY <1>11 DEF DeleteProduct
  <2>2. tickets \in SUBSET Tickets
    OBVIOUS
  <2> HIDE DEF tickets
  <2>3. request' \in [Handlers -> Request]
    <3>1. Orphaned(tickets) \in SUBSET Files
      BY DEF Orphaned
    <3> QED
      BY <2>1, <3>1, IdleIsRequest DEF GoOnToRemove, TypeOK
  <2>4. \A s \in Tickets : Live(s)' <=> Live(s) /\ s \notin tickets
    BY <2>1, <2>2, WithoutDoes
  <2>5. /\ product' \in {"none", "live", "gone"} /\ member' \in [Users -> MemberRoles]
        /\ product' # "live" => \A u \in Users : member'[u] = "none"
        /\ \A s \in Tickets : Live(s)' => product' = "live"
    BY <1>11, <2>4 DEF DeleteProduct, TypeOK, MemberRoles, tickets
  <2>6. /\ begun' = begun + 1
        /\ UNCHANGED <<account, disk, changes, faults, stranded, torn>>
    BY <1>11 DEF DeleteProduct, Take
  <2>7. /\ ticket' \in [Tickets -> Ticket]
        /\ history' \in [Tickets -> Seq({"open", "closed"})]
        /\ recorded' \subseteq Recorded
        /\ row' \in [Files -> 0..MaxTickets]
        /\ effects' \in [Tickets \X Users \X Keys -> Nat]
        /\ \A r \in recorded' : Live(r.ticket)'
        /\ \A f \in Files : row'[f] # 0 => Live(row[f])'
    BY <2>1, <2>2, WithoutDoes
  <2> QED
    BY <2>3, <2>5, <2>6, <2>7 DEF TypeOK
<1>12. ASSUME NEW h \in Handlers, RemoveFiles(h) PROVE TypeOK'
  BY <1>12, IdleIsRequest, CleanupDoes, ZenonT(60) DEF RemoveFiles, database, TypeOK, Live
<1>13. ASSUME CreateProduct PROVE TypeOK'
  BY <1>13 DEF CreateProduct, TypeOK, Live
<1>14. ASSUME NEW u \in Users, NEW role \in Grants, UpsertProductMember(u, role) PROVE TypeOK'
  <2>1. role \in MemberRoles
    BY DeskAssumption DEF MemberRoles
  <2> QED
    BY <1>14, <2>1 DEF UpsertProductMember, TypeOK, Live
<1>15. ASSUME NEW u \in Users, DeleteProductMember(u) PROVE TypeOK'
  <2>1. "none" \in MemberRoles
    BY DEF MemberRoles
  <2> QED
    BY <1>15, <2>1 DEF DeleteProductMember, TypeOK, Live
<1>16. ASSUME NEW u \in Users, NEW a \in [role : AccountRoles, disabled : BOOLEAN], UpdateUser(u, a) PROVE TypeOK'
  BY <1>16 DEF UpdateUser, TypeOK, Live
<1>17. ASSUME Crash PROVE TypeOK'
  <2>1. request' \in [Handlers -> Request]
    BY <1>17, IdleIsRequest DEF Crash
  <2>2. stranded' \subseteq Files
    BY <1>17 DEF Crash, TypeOK, Request
  <2> QED
    BY <1>17, <2>1, <2>2 DEF Crash, database, TypeOK, Live
<1>18. ASSUME UNCHANGED vars PROVE TypeOK'
  BY <1>18 DEF vars, TypeOK, Live
<1> QED
  <2>1. CASE \E h \in Handlers : CreateRequest(h) \/ SaveRequest(h) \/ FileRequest(h)
    BY <2>1, <1>1, <1>2, <1>3, <1>4, <1>5, <1>6, <1>7, <1>8, <1>9, <1>10, <1>11, <1>12
       DEF CreateRequest, SaveRequest, FileRequest
  <2>2. CASE Administer
    <3>1. ASSUME NEW u \in Users, UpdateUser(u, [account[u] EXCEPT !.disabled = ~@])
                     \/ \E role \in AccountRoles \ {account[u].role} :
                            UpdateUser(u, [account[u] EXCEPT !.role = role])
          PROVE  TypeOK'
      <4>1. account[u] \in [role : AccountRoles, disabled : BOOLEAN]
        BY DEF TypeOK
      <4> QED
        BY <3>1, <4>1, <1>16
    <3> QED
      BY <2>2, <3>1, <1>13, <1>14, <1>15 DEF Administer
  <2> QED
    BY <2>1, <2>2, <1>17, <1>18 DEF Next

LEMMA NumberedStep == TypeOK /\ Numbered /\ [Next]_vars => Numbered'
<1> SUFFICES ASSUME TypeOK, Numbered, [Next]_vars PROVE Numbered'
  OBVIOUS
<1>1. ASSUME NEW h \in Handlers, NEW u \in Users, BeginCreate(h, u) PROVE Numbered'
  BY <1>1 DEF BeginCreate, Take, database, Numbered, NumbersAreUnique, Live
<1>2. ASSUME NEW h \in Handlers, NEW u \in Users, NEW t \in Tickets, NEW save \in Saves,
             NEW key \in Keys \cup {NoKey}, BeginSave(h, u, t, save, key) PROVE Numbered'
  BY <1>2 DEF BeginSave, Take, database, Numbered, NumbersAreUnique, Live
<1>3. ASSUME NEW h \in Handlers, NEW f \in Files, SaveUploadedFile(h, f) PROVE Numbered'
  BY <1>3 DEF SaveUploadedFile, database, Numbered, NumbersAreUnique, Live
<1>4. ASSUME NEW h \in Handlers, Refuse(h) PROVE Numbered'
  BY <1>4 DEF Refuse, database, Numbered, NumbersAreUnique, Live
<1>5. ASSUME NEW h \in Handlers, NEW t \in Tickets, NEW requester \in Users,
             NEW assignee \in Users \cup {Nobody}, CreateTicket(h, t, requester, assignee) PROVE Numbered'
  <2>1. /\ NextNumber \in 1..t
        /\ \A s \in Tickets : Live(s) => ticket[s].number # NextNumber
    BY <1>5, NextNumberIsNew DEF CreateTicket
  <2>2. /\ ticket[t].state = "none" /\ \A s \in 1..t - 1 : ticket[s].state # "none"
        /\ ticket' = [ticket EXCEPT ![t] = [state |-> "live", number |-> NextNumber, status |-> "open",
                                            requester |-> requester, assignee |-> assignee]]
    BY <1>5 DEF CreateTicket
  <2>3. /\ ticket'[t].state = "live" /\ ticket'[t].number = NextNumber
        /\ \A s \in Tickets : s # t => ticket'[s] = ticket[s]
    BY <2>2 DEF TypeOK
  <2>4. \A s \in Tickets : Live(s)' => ticket'[s].number \in 1..s
    BY <2>1, <2>3 DEF Numbered, Live
  <2>5. \A r, s \in Tickets : s < r /\ ticket'[r].state # "none" => ticket'[s].state # "none"
    BY <2>2, <2>3, DeskAssumption DEF Numbered, Tickets
  <2>6. NumbersAreUnique'
    BY <2>1, <2>3 DEF Numbered, NumbersAreUnique, Live
  <2> QED
    BY <2>4, <2>5, <2>6 DEF Numbered
<1>6. ASSUME NEW h \in Handlers, ReadCreated(h) PROVE Numbered'
  BY <1>6 DEF ReadCreated, Reset, database, Numbered, NumbersAreUnique, Live
<1>7. ASSUME NEW h \in Handlers, ReadCreatedFails(h) PROVE Numbered'
  BY <1>7 DEF ReadCreatedFails, database, Numbered, NumbersAreUnique, Live
<1>8. ASSUME NEW h \in Handlers, SaveTicket(h) PROVE Numbered'
  <2>1. PICK save \in Save :
            \A s \in Tickets : ticket'[s].state = ticket[s].state /\ ticket'[s].number = ticket[s].number
    BY <1>8, SaveDoes
  <2> QED
    BY <2>1 DEF Numbered, NumbersAreUnique, Live
<1>9. ASSUME NEW h \in Handlers, ReplaySave(h) PROVE Numbered'
  BY <1>9 DEF ReplaySave, database, Numbered, NumbersAreUnique, Live
<1>10. ASSUME NEW h \in Handlers, NEW t \in Tickets, DeleteTicket(h, t) PROVE Numbered'
  <2>1. Without({t})
    BY <1>10 DEF DeleteTicket
  <2>2. \A s \in Tickets : ticket'[s] = ticket[s] \/ (Live(s) /\ ticket'[s].state = "gone")
    BY <1>10, <2>1 DEF Without, NoTicket, Live, DeleteTicket
  <2>3. \A s \in Tickets : Live(s)' => ticket'[s] = ticket[s]
    BY <2>2 DEF Live
  <2>4. \A s \in Tickets : ticket'[s].state # "none" <=> ticket[s].state # "none"
    BY <2>2 DEF Live
  <2> QED
    BY <2>3, <2>4 DEF Numbered, NumbersAreUnique, Live
<1>11. ASSUME NEW h \in Handlers, DeleteProduct(h) PROVE Numbered'
  <2>1. Without({t \in Tickets : Live(t)})
    BY <1>11 DEF DeleteProduct
  <2>2. \A s \in Tickets : ticket'[s] = ticket[s] \/ (Live(s) /\ ticket'[s].state = "gone")
    BY <1>11, <2>1 DEF Without, NoTicket, Live, DeleteProduct
  <2>3. \A s \in Tickets : Live(s)' => ticket'[s] = ticket[s]
    BY <2>2 DEF Live
  <2>4. \A s \in Tickets : ticket'[s].state # "none" <=> ticket[s].state # "none"
    BY <2>2 DEF Live
  <2> QED
    BY <2>3, <2>4 DEF Numbered, NumbersAreUnique, Live
<1>12. ASSUME NEW h \in Handlers, RemoveFiles(h) PROVE Numbered'
  BY <1>12 DEF RemoveFiles, database, Numbered, NumbersAreUnique, Live
<1>13. ASSUME CreateProduct PROVE Numbered'
  BY <1>13 DEF CreateProduct, Numbered, NumbersAreUnique, Live
<1>14. ASSUME NEW u \in Users, NEW role \in Grants, UpsertProductMember(u, role) PROVE Numbered'
  BY <1>14 DEF UpsertProductMember, Numbered, NumbersAreUnique, Live
<1>15. ASSUME NEW u \in Users, DeleteProductMember(u) PROVE Numbered'
  BY <1>15 DEF DeleteProductMember, Numbered, NumbersAreUnique, Live
<1>16. ASSUME NEW u \in Users, NEW a \in [role : AccountRoles, disabled : BOOLEAN], UpdateUser(u, a) PROVE Numbered'
  BY <1>16 DEF UpdateUser, Numbered, NumbersAreUnique, Live
<1>17. ASSUME Crash PROVE Numbered'
  BY <1>17 DEF Crash, database, Numbered, NumbersAreUnique, Live
<1>18. ASSUME UNCHANGED vars PROVE Numbered'
  BY <1>18 DEF vars, Numbered, NumbersAreUnique, Live
<1> QED
  <2>1. CASE \E h \in Handlers : CreateRequest(h) \/ SaveRequest(h) \/ FileRequest(h)
    BY <2>1, <1>1, <1>2, <1>3, <1>4, <1>5, <1>6, <1>7, <1>8, <1>9, <1>10, <1>11, <1>12
       DEF CreateRequest, SaveRequest, FileRequest
  <2>2. CASE Administer
    <3>1. ASSUME NEW u \in Users, UpdateUser(u, [account[u] EXCEPT !.disabled = ~@])
                     \/ \E role \in AccountRoles \ {account[u].role} :
                            UpdateUser(u, [account[u] EXCEPT !.role = role])
          PROVE  Numbered'
      <4>1. account[u] \in [role : AccountRoles, disabled : BOOLEAN]
        BY DEF TypeOK
      <4> QED
        BY <3>1, <4>1, <1>16
    <3> QED
      BY <2>2, <3>1, <1>13, <1>14, <1>15 DEF Administer
  <2> QED
    BY <2>1, <2>2, <1>17, <1>18 DEF Next

-----------------------------------------------------------------------------
(* The history of a status.                                                *)

\* HistoryExplainsStatus, without the status at the beginning.
Explained ==
    \A t \in Tickets :
        /\ ~Live(t) => history[t] = <<>>
        /\ Live(t) =>
            /\ history[t] = <<>> => ticket[t].status = "open"
            /\ history[t] # <<>> =>
                    history[t][1] # "open" /\ history[t][Len(history[t])] = ticket[t].status
            /\ \A i \in 1..Len(history[t]) - 1 : history[t][i] # history[t][i + 1]

LEMMA ExplainedStep == TypeOK /\ Explained /\ [Next]_vars => Explained'
<1> SUFFICES ASSUME TypeOK, Explained, [Next]_vars PROVE Explained'
  OBVIOUS
<1>1. ASSUME NEW h \in Handlers, NEW u \in Users, BeginCreate(h, u) PROVE Explained'
  BY <1>1 DEF BeginCreate, Take, database, Explained, Live
<1>2. ASSUME NEW h \in Handlers, NEW u \in Users, NEW t \in Tickets, NEW save \in Saves,
             NEW key \in Keys \cup {NoKey}, BeginSave(h, u, t, save, key) PROVE Explained'
  BY <1>2 DEF BeginSave, Take, database, Explained, Live
<1>3. ASSUME NEW h \in Handlers, NEW f \in Files, SaveUploadedFile(h, f) PROVE Explained'
  BY <1>3 DEF SaveUploadedFile, database, Explained, Live
<1>4. ASSUME NEW h \in Handlers, Refuse(h) PROVE Explained'
  BY <1>4 DEF Refuse, database, Explained, Live
<1>5. ASSUME NEW h \in Handlers, NEW t \in Tickets, NEW requester \in Users,
             NEW assignee \in Users \cup {Nobody}, CreateTicket(h, t, requester, assignee) PROVE Explained'
  <2>1. /\ ticket[t].state = "none" /\ history' = history
        /\ ticket' = [ticket EXCEPT ![t] = [state |-> "live", number |-> NextNumber, status |-> "open",
                                            requester |-> requester, assignee |-> assignee]]
    BY <1>5 DEF CreateTicket
  <2>2. /\ ticket'[t].state = "live" /\ ticket'[t].status = "open" /\ history[t] = <<>>
        /\ \A s \in Tickets : s # t => ticket'[s] = ticket[s]
    BY <2>1 DEF TypeOK, Explained, Live
  <2> QED
    BY <2>1, <2>2 DEF Explained, Live
<1>6. ASSUME NEW h \in Handlers, ReadCreated(h) PROVE Explained'
  BY <1>6 DEF ReadCreated, Reset, database, Explained, Live
<1>7. ASSUME NEW h \in Handlers, ReadCreatedFails(h) PROVE Explained'
  BY <1>7 DEF ReadCreatedFails, database, Explained, Live
<1>8. ASSUME NEW h \in Handlers, SaveTicket(h) PROVE Explained'
  <2> DEFINE t == request[h].ticket
  <2>1. PICK save \in Save :
           /\ t \in Tickets /\ Live(t)
           /\ \A s \in Tickets : ticket'[s].state = ticket[s].state /\ ticket'[s].number = ticket[s].number
           /\ \A s \in Tickets : s # t => ticket'[s] = ticket[s] /\ history'[s] = history[s]
           /\ history'[t] = Changed(t, save)
           /\ save.status \in {Keep, "open", "closed"} /\ Keep \notin {"open", "closed"}
           /\ ticket'[t].status = IF save.status = Keep THEN ticket[t].status ELSE save.status
    BY <1>8, SaveDoes
  <2> HIDE DEF t
  <2> DEFINE old == history[t]
             new == history'[t]
  <2>2. old \in Seq({"open", "closed"}) /\ ticket[t].status \in {"open", "closed"}
    BY <2>1 DEF TypeOK, Ticket
  <2>3. /\ new = <<>> => ticket'[t].status = "open"
        /\ new # <<>> => new[1] # "open" /\ new[Len(new)] = ticket'[t].status
        /\ \A i \in 1..Len(new) - 1 : new[i] # new[i + 1]
    <3>1. CASE save.status \in {Keep, ticket[t].status}
      <4>1. new = old /\ ticket'[t].status = ticket[t].status
        BY <2>1, <3>1 DEF Changed
      <4> QED
        BY <2>1, <4>1 DEF Explained
    <3>2. CASE save.status \notin {Keep, ticket[t].status}
      <4>1. new = Append(old, save.status) /\ ticket'[t].status = save.status
        BY <2>1, <3>2 DEF Changed
      <4>2. old = <<>> => save.status # "open"
        BY <2>1, <3>2 DEF Explained
      <4>3. old # <<>> => old[1] # "open" /\ old[Len(old)] # save.status
        BY <2>1, <3>2 DEF Explained
      <4>4. \A i \in 1..Len(old) - 1 : old[i] # old[i + 1]
        BY <2>1 DEF Explained
      <4> HIDE DEF old, new
      <4>5. /\ new # <<>> /\ Len(new) = Len(old) + 1 /\ new[Len(new)] = save.status
            /\ \A i \in 1..Len(old) : new[i] = old[i]
        BY <2>1, <2>2, <4>1
      <4>6. old # <<>> => Len(old) \in Nat /\ Len(old) >= 1
        BY <2>2
      <4>7. old = <<>> => Len(old) = 0
        OBVIOUS
      <4>8. new[1] # "open"
        BY <4>2, <4>3, <4>5, <4>6, <4>7
      <4>9. \A i \in 1..Len(new) - 1 : new[i] # new[i + 1]
        BY <4>3, <4>4, <4>5, <4>6, <4>7
      <4> QED
        BY <4>1, <4>5, <4>8, <4>9
    <3> QED
      BY <3>1, <3>2
  <2> QED
    BY <2>1, <2>3 DEF Explained, Live
<1>9. ASSUME NEW h \in Handlers, ReplaySave(h) PROVE Explained'
  BY <1>9 DEF ReplaySave, database, Explained, Live
<1>10. ASSUME NEW h \in Handlers, NEW t \in Tickets, DeleteTicket(h, t) PROVE Explained'
  <2>1. Without({t})
    BY <1>10 DEF DeleteTicket
  <2>2. \A s \in Tickets :
            \/ ticket'[s] = ticket[s] /\ history'[s] = history[s]
            \/ ticket'[s].state = "gone" /\ history'[s] = <<>>
    BY <2>1 DEF Without, NoTicket
  <2> QED
    BY <2>2 DEF Explained, Live
<1>11. ASSUME NEW h \in Handlers, DeleteProduct(h) PROVE Explained'
  <2>1. Without({t \in Tickets : Live(t)})
    BY <1>11 DEF DeleteProduct
  <2>2. \A s \in Tickets :
            \/ ticket'[s] = ticket[s] /\ history'[s] = history[s]
            \/ ticket'[s].state = "gone" /\ history'[s] = <<>>
    BY <2>1 DEF Without, NoTicket
  <2> QED
    BY <2>2 DEF Explained, Live
<1>12. ASSUME NEW h \in Handlers, RemoveFiles(h) PROVE Explained'
  BY <1>12 DEF RemoveFiles, database, Explained, Live
<1>13. ASSUME CreateProduct PROVE Explained'
  BY <1>13 DEF CreateProduct, Explained, Live
<1>14. ASSUME NEW u \in Users, NEW role \in Grants, UpsertProductMember(u, role) PROVE Explained'
  BY <1>14 DEF UpsertProductMember, Explained, Live
<1>15. ASSUME NEW u \in Users, DeleteProductMember(u) PROVE Explained'
  BY <1>15 DEF DeleteProductMember, Explained, Live
<1>16. ASSUME NEW u \in Users, NEW a \in [role : AccountRoles, disabled : BOOLEAN], UpdateUser(u, a) PROVE Explained'
  BY <1>16 DEF UpdateUser, Explained, Live
<1>17. ASSUME Crash PROVE Explained'
  BY <1>17 DEF Crash, database, Explained, Live
<1>18. ASSUME UNCHANGED vars PROVE Explained'
  BY <1>18 DEF vars, Explained, Live
<1> QED
  <2>1. CASE \E h \in Handlers : CreateRequest(h) \/ SaveRequest(h) \/ FileRequest(h)
    BY <2>1, <1>1, <1>2, <1>3, <1>4, <1>5, <1>6, <1>7, <1>8, <1>9, <1>10, <1>11, <1>12
       DEF CreateRequest, SaveRequest, FileRequest
  <2>2. CASE Administer
    <3>1. ASSUME NEW u \in Users, UpdateUser(u, [account[u] EXCEPT !.disabled = ~@])
                     \/ \E role \in AccountRoles \ {account[u].role} :
                            UpdateUser(u, [account[u] EXCEPT !.role = role])
          PROVE  Explained'
      <4>1. account[u] \in [role : AccountRoles, disabled : BOOLEAN]
        BY DEF TypeOK
      <4> QED
        BY <3>1, <4>1, <1>16
    <3> QED
      BY <2>2, <3>1, <1>13, <1>14, <1>15 DEF Administer
  <2> QED
    BY <2>1, <2>2, <1>17, <1>18 DEF Next

LEMMA ExplainedIsEnough == TypeOK /\ Explained => HistoryExplainsStatus
<1> SUFFICES ASSUME TypeOK, Explained, NEW t \in Tickets, Live(t)
             PROVE  LET statuses == <<"open">> \o history[t]
                    IN  /\ \A i \in 1..Len(history[t]) : statuses[i] # statuses[i + 1]
                        /\ statuses[Len(statuses)] = ticket[t].status
  BY DEF HistoryExplainsStatus
<1> DEFINE old == history[t]
           statuses == <<"open">> \o old
<1>1. old \in Seq({"open", "closed"})
  BY DEF TypeOK
<1>2. /\ old = <<>> => ticket[t].status = "open"
      /\ old # <<>> => old[1] # "open" /\ old[Len(old)] = ticket[t].status
      /\ \A i \in 1..Len(old) - 1 : old[i] # old[i + 1]
  BY DEF Explained
<1> HIDE DEF old
<1>3. /\ Len(statuses) = Len(old) + 1 /\ statuses[1] = "open" /\ Len(old) \in Nat
      /\ \A i \in 1..Len(old) : statuses[i + 1] = old[i]
  BY <1>1
<1> HIDE DEF statuses
<1>4. old = <<>> <=> Len(old) = 0
  BY <1>1
<1>5. \A i \in 1..Len(old) : statuses[i] # statuses[i + 1]
  <2> SUFFICES ASSUME NEW i \in 1..Len(old) PROVE statuses[i] # statuses[i + 1]
    OBVIOUS
  <2>1. CASE i = 1
    BY <1>2, <1>3, <1>4, <2>1
  <2>2. CASE i # 1
    <3>1. i - 1 \in 1..Len(old) - 1 /\ (i - 1) + 1 = i
      BY <1>3, <2>2
    <3>2. old[i - 1] # old[i]
      BY <1>2, <3>1
    <3>3. statuses[i] = old[i - 1] /\ statuses[i + 1] = old[i]
      BY <1>3, <3>1
    <3> QED
      BY <3>2, <3>3
  <2> QED
    BY <2>1, <2>2
<1>6. statuses[Len(statuses)] = ticket[t].status
  <2>1. CASE Len(old) = 0
    BY <1>2, <1>3, <1>4, <2>1
  <2>2. CASE Len(old) # 0
    BY <1>2, <1>3, <1>4, <2>2
  <2> QED
    BY <2>1, <2>2
<1> QED
  BY <1>5, <1>6 DEF old, statuses

-----------------------------------------------------------------------------
(* Idempotency keys.                                                       *)

\* The rows of a key.
Named(t, u, k) == {r \in recorded : r.ticket = t /\ r.user = u /\ r.key = k}

\* A key has one row at most, and exactly one effect if it has it.
Keyed ==
    /\ \A r, q \in recorded : r.ticket = q.ticket /\ r.user = q.user /\ r.key = q.key => r = q
    /\ \A e \in Tickets \X Users \X Keys :
            effects[e] = IF \E r \in recorded : e = <<r.ticket, r.user, r.key>> THEN 1 ELSE 0

LEMMA KeyedStep == TypeOK /\ Keyed /\ [Next]_vars => Keyed'
<1> SUFFICES ASSUME TypeOK, Keyed, [Next]_vars PROVE Keyed'
  OBVIOUS
<1>1. ASSUME NEW h \in Handlers, NEW u \in Users, BeginCreate(h, u) PROVE Keyed'
  BY <1>1 DEF BeginCreate, Take, database, Keyed
<1>2. ASSUME NEW h \in Handlers, NEW u \in Users, NEW t \in Tickets, NEW save \in Saves,
             NEW key \in Keys \cup {NoKey}, BeginSave(h, u, t, save, key) PROVE Keyed'
  BY <1>2 DEF BeginSave, Take, database, Keyed
<1>3. ASSUME NEW h \in Handlers, NEW f \in Files, SaveUploadedFile(h, f) PROVE Keyed'
  BY <1>3 DEF SaveUploadedFile, database, Keyed
<1>4. ASSUME NEW h \in Handlers, Refuse(h) PROVE Keyed'
  BY <1>4 DEF Refuse, database, Keyed
<1>5. ASSUME NEW h \in Handlers, NEW t \in Tickets, NEW requester \in Users,
             NEW assignee \in Users \cup {Nobody}, CreateTicket(h, t, requester, assignee) PROVE Keyed'
  BY <1>5 DEF CreateTicket, Keyed
<1>6. ASSUME NEW h \in Handlers, ReadCreated(h) PROVE Keyed'
  BY <1>6 DEF ReadCreated, Reset, database, Keyed
<1>7. ASSUME NEW h \in Handlers, ReadCreatedFails(h) PROVE Keyed'
  BY <1>7 DEF ReadCreatedFails, database, Keyed
<1>8. ASSUME NEW h \in Handlers, SaveTicket(h) PROVE Keyed'
  <2> DEFINE t == request[h].ticket
             u == request[h].user
             k == request[h].key
             new == [ticket |-> t, user |-> u, key |-> k, save |-> request[h].save]
  <2>1. /\ request[h] \in Request /\ t \in Tickets
        /\ \A r \in recorded : ~(r.ticket = t /\ r.user = u /\ r.key = k)
        /\ recorded' = IF k = NoKey THEN recorded ELSE recorded \cup {new}
        /\ effects' = [e \in DOMAIN effects |-> IF e = <<t, u, k>> THEN effects[e] + 1 ELSE effects[e]]
    BY <1>8 DEF SaveTicket, Saving, SameKey, RecordedNow, Live, TypeOK
  <2>2. new.ticket = t /\ new.user = u /\ new.key = k
    OBVIOUS
  <2>3. u \in Users /\ k \in Keys \cup {NoKey} /\ NoKey \notin Keys
    BY <2>1, DeskAssumption DEF Request
  <2> HIDE DEF new, t, u, k
  <2>4. CASE k = NoKey
    <3>1. \A e \in Tickets \X Users \X Keys : effects'[e] = effects[e]
      BY <2>1, <2>3, <2>4 DEF TypeOK
    <3> QED
      BY <2>1, <2>4, <3>1 DEF Keyed
  <2>5. CASE k # NoKey
    <3>1. recorded' = recorded \cup {new}
      BY <2>1, <2>5
    <3>2. \A r, q \in recorded' : r.ticket = q.ticket /\ r.user = q.user /\ r.key = q.key => r = q
      BY <2>1, <2>2, <3>1 DEF Keyed
    <3>3. ASSUME NEW e \in Tickets \X Users \X Keys
          PROVE  effects'[e] = IF \E r \in recorded' : e = <<r.ticket, r.user, r.key>> THEN 1 ELSE 0
      <4>1. effects'[e] = IF e = <<t, u, k>> THEN effects[e] + 1 ELSE effects[e]
        BY <2>1 DEF TypeOK
      <4>2. effects[e] = IF \E r \in recorded : e = <<r.ticket, r.user, r.key>> THEN 1 ELSE 0
        BY DEF Keyed
      <4>3. CASE e = <<t, u, k>>
        <5>1. \A r \in recorded : e # <<r.ticket, r.user, r.key>>
          BY <2>1, <4>3
        <5>2. new \in recorded' /\ e = <<new.ticket, new.user, new.key>>
          BY <2>2, <3>1, <4>3
        <5> QED
          BY <4>1, <4>2, <4>3, <5>1, <5>2
      <4>4. CASE e # <<t, u, k>>
        BY <2>2, <3>1, <4>1, <4>2, <4>4
      <4> QED
        BY <4>3, <4>4
    <3> QED
      BY <3>2, <3>3 DEF Keyed
  <2> QED
    BY <2>4, <2>5
<1>9. ASSUME NEW h \in Handlers, ReplaySave(h) PROVE Keyed'
  BY <1>9 DEF ReplaySave, database, Keyed
<1>10. ASSUME NEW h \in Handlers, NEW t \in Tickets, DeleteTicket(h, t) PROVE Keyed'
  <2> DEFINE tickets == {t}
  <2>1. /\ recorded' = {r \in recorded : r.ticket \notin tickets}
        /\ effects' = [e \in DOMAIN effects |-> IF e[1] \in tickets THEN 0 ELSE effects[e]]
    BY <1>10 DEF DeleteTicket, Without
  <2> HIDE DEF tickets
  <2>2. \A r, q \in recorded' : r.ticket = q.ticket /\ r.user = q.user /\ r.key = q.key => r = q
    BY <2>1 DEF Keyed
  <2>3. ASSUME NEW e \in Tickets \X Users \X Keys
        PROVE  effects'[e] = IF \E r \in recorded' : e = <<r.ticket, r.user, r.key>> THEN 1 ELSE 0
    <3>1. effects'[e] = IF e[1] \in tickets THEN 0 ELSE effects[e]
      BY <2>1 DEF TypeOK
    <3>2. effects[e] = IF \E r \in recorded : e = <<r.ticket, r.user, r.key>> THEN 1 ELSE 0
      BY DEF Keyed
    <3>3. \A r \in recorded : e = <<r.ticket, r.user, r.key>> => r.ticket = e[1]
      OBVIOUS
    <3>4. CASE e[1] \in tickets
      BY <2>1, <3>1, <3>3, <3>4
    <3>5. CASE e[1] \notin tickets
      BY <2>1, <3>1, <3>2, <3>3, <3>5
    <3> QED
      BY <3>4, <3>5
  <2> QED
    BY <2>2, <2>3 DEF Keyed
<1>11. ASSUME NEW h \in Handlers, DeleteProduct(h) PROVE Keyed'
  <2> DEFINE tickets == {t \in Tickets : Live(t)}
  <2>1. /\ recorded' = {r \in recorded : r.ticket \notin tickets}
        /\ effects' = [e \in DOMAIN effects |-> IF e[1] \in tickets THEN 0 ELSE effects[e]]
    BY <1>11 DEF DeleteProduct, Without
  <2> HIDE DEF tickets
  <2>2. \A r, q \in recorded' : r.ticket = q.ticket /\ r.user = q.user /\ r.key = q.key => r = q
    BY <2>1 DEF Keyed
  <2>3. ASSUME NEW e \in Tickets \X Users \X Keys
        PROVE  effects'[e] = IF \E r \in recorded' : e = <<r.ticket, r.user, r.key>> THEN 1 ELSE 0
    <3>1. effects'[e] = IF e[1] \in tickets THEN 0 ELSE effects[e]
      BY <2>1 DEF TypeOK
    <3>2. effects[e] = IF \E r \in recorded : e = <<r.ticket, r.user, r.key>> THEN 1 ELSE 0
      BY DEF Keyed
    <3>3. \A r \in recorded : e = <<r.ticket, r.user, r.key>> => r.ticket = e[1]
      OBVIOUS
    <3>4. CASE e[1] \in tickets
      BY <2>1, <3>1, <3>3, <3>4
    <3>5. CASE e[1] \notin tickets
      BY <2>1, <3>1, <3>2, <3>3, <3>5
    <3> QED
      BY <3>4, <3>5
  <2> QED
    BY <2>2, <2>3 DEF Keyed
<1>12. ASSUME NEW h \in Handlers, RemoveFiles(h) PROVE Keyed'
  BY <1>12 DEF RemoveFiles, database, Keyed
<1>13. ASSUME CreateProduct PROVE Keyed'
  BY <1>13 DEF CreateProduct, Keyed
<1>14. ASSUME NEW u \in Users, NEW role \in Grants, UpsertProductMember(u, role) PROVE Keyed'
  BY <1>14 DEF UpsertProductMember, Keyed
<1>15. ASSUME NEW u \in Users, DeleteProductMember(u) PROVE Keyed'
  BY <1>15 DEF DeleteProductMember, Keyed
<1>16. ASSUME NEW u \in Users, NEW a \in [role : AccountRoles, disabled : BOOLEAN], UpdateUser(u, a) PROVE Keyed'
  BY <1>16 DEF UpdateUser, Keyed
<1>17. ASSUME Crash PROVE Keyed'
  BY <1>17 DEF Crash, database, Keyed
<1>18. ASSUME UNCHANGED vars PROVE Keyed'
  BY <1>18 DEF vars, Keyed
<1> QED
  <2>1. CASE \E h \in Handlers : CreateRequest(h) \/ SaveRequest(h) \/ FileRequest(h)
    BY <2>1, <1>1, <1>2, <1>3, <1>4, <1>5, <1>6, <1>7, <1>8, <1>9, <1>10, <1>11, <1>12
       DEF CreateRequest, SaveRequest, FileRequest
  <2>2. CASE Administer
    <3>1. ASSUME NEW u \in Users, UpdateUser(u, [account[u] EXCEPT !.disabled = ~@])
                     \/ \E role \in AccountRoles \ {account[u].role} :
                            UpdateUser(u, [account[u] EXCEPT !.role = role])
          PROVE  Keyed'
      <4>1. account[u] \in [role : AccountRoles, disabled : BOOLEAN]
        BY DEF TypeOK
      <4> QED
        BY <3>1, <4>1, <1>16
    <3> QED
      BY <2>2, <3>1, <1>13, <1>14, <1>15 DEF Administer
  <2> QED
    BY <2>1, <2>2, <1>17, <1>18 DEF Next

LEMMA KeyedIsEnough == TypeOK /\ Keyed => OneEffectPerKey
<1> SUFFICES ASSUME TypeOK, Keyed, NEW t \in Tickets, NEW u \in Users, NEW k \in Keys, Live(t)
             PROVE  effects[<<t, u, k>>] = Cardinality(Named(t, u, k))
  BY DEF OneEffectPerKey, Named
<1>1. effects[<<t, u, k>>] =
        IF \E r \in recorded : <<t, u, k>> = <<r.ticket, r.user, r.key>> THEN 1 ELSE 0
  BY DEF Keyed
<1>2. CASE Named(t, u, k) = {}
  <2>1. \A r \in recorded : <<t, u, k>> # <<r.ticket, r.user, r.key>>
    BY <1>2 DEF Named
  <2> QED
    BY <1>1, <1>2, <2>1, FS_EmptySet
<1>3. CASE Named(t, u, k) # {}
  <2>1. PICK r \in recorded : r.ticket = t /\ r.user = u /\ r.key = k
    BY <1>3 DEF Named
  <2>2. Named(t, u, k) = {r}
    BY <2>1 DEF Named, Keyed
  <2> QED
    BY <1>1, <2>1, <2>2, FS_Singleton
<1> QED
  BY <1>2, <1>3

-----------------------------------------------------------------------------
(* Files.                                                                  *)

\* A file of a request that has still to attach it is the request's alone.
Held ==
    /\ \A h \in Handlers : request[h].pc = "idle" => request[h].files = {}
    /\ \A h \in Handlers : request[h].pc = "reread" =>
            request[h].ticket \in Tickets /\ ticket[request[h].ticket].state # "none"
    /\ \A h \in Handlers : \A f \in request[h].files :
            /\ disk[f] # "none"
            /\ request[h].pc \in {"create", "save"} => disk[f] = "there"
            /\ request[h].pc \in {"create", "save", "remove"} => row[f] = 0
            /\ request[h].pc = "reread" =>
                    row[f] = IF Live(request[h].ticket) THEN request[h].ticket ELSE 0
    /\ \A h, g \in Handlers : request[h].pc \in {"create", "save"} /\ g # h =>
            request[h].files \cap request[g].files = {}
    /\ \A f \in Files : row[f] # 0 => disk[f] # "none"

Kept == Held /\ AttachmentsHaveFiles /\ FilesHaveOwners

\* A cleanup keeps the files in order: it removes none that an attachment has.
LEMMA CleanupKeeps ==
    ASSUME TypeOK, Kept, NEW h \in Handlers, Cleanup(h), UNCHANGED <<ticket, row>>,
           torn \subseteq torn', \A f \in request[h].files : row[f] = 0
    PROVE  Kept'
<1>1. /\ request' = [request EXCEPT ![h] = Idle]
      /\ disk' \in [Files -> {"none", "there", "gone"}]
      /\ stranded \subseteq stranded' /\ stranded' \subseteq Files
      /\ \A f \in Files : f \notin request[h].files => disk'[f] = disk[f]
      /\ \A f \in Files : disk'[f] = "there" =>
             disk[f] = "there" /\ (f \in request[h].files => f \in stranded')
      /\ \A f \in Files : disk[f] # "none" => disk'[f] # "none"
  BY CleanupDoes
<1>2. /\ request'[h].pc = "idle" /\ request'[h].files = {}
      /\ \A g \in Handlers : g # h => request'[g] = request[g]
  BY <1>1, IdleIsRequest DEF TypeOK
<1>3. \A g \in Handlers : request[g].files \subseteq Files
  BY DEF TypeOK, Request
<1>4. Held'
  <2>1. \A g \in Handlers : request'[g].pc = "idle" => request'[g].files = {}
    BY <1>2 DEF Kept, Held
  <2>2. \A g \in Handlers : request'[g].pc = "reread" =>
            request'[g].ticket \in Tickets /\ ticket'[request'[g].ticket].state # "none"
    BY <1>2 DEF Kept, Held
  <2>3. ASSUME NEW g \in Handlers, NEW f \in request'[g].files
        PROVE  /\ disk'[f] # "none"
               /\ request'[g].pc \in {"create", "save"} => disk'[f] = "there"
               /\ request'[g].pc \in {"create", "save", "remove"} => row'[f] = 0
               /\ request'[g].pc = "reread" =>
                    row'[f] = IF Live(request[g].ticket)' THEN request'[g].ticket ELSE 0
    <3>1. g # h /\ request'[g] = request[g] /\ f \in request[g].files /\ f \in Files
      BY <1>2, <1>3
    <3>2. /\ disk[f] # "none"
          /\ request[g].pc \in {"create", "save"} => disk[f] = "there"
          /\ request[g].pc \in {"create", "save", "remove"} => row[f] = 0
          /\ request[g].pc = "reread" =>
               row[f] = IF Live(request[g].ticket) THEN request[g].ticket ELSE 0
      BY <3>1 DEF Kept, Held
    <3>3. request[g].pc \in {"create", "save"} => f \notin request[h].files
      BY <3>1 DEF Kept, Held
    <3> QED
      BY <1>1, <3>1, <3>2, <3>3 DEF Live
  <2>4. \A g, k \in Handlers : request'[g].pc \in {"create", "save"} /\ k # g =>
            request'[g].files \cap request'[k].files = {}
    BY <1>2 DEF Kept, Held
  <2>5. \A f \in Files : row'[f] # 0 => disk'[f] # "none"
    BY <1>1 DEF Kept, Held
  <2> QED
    BY <2>1, <2>2, <2>3, <2>4, <2>5 DEF Held
<1>5. AttachmentsHaveFiles'
  BY <1>1 DEF Kept, AttachmentsHaveFiles
<1>6. FilesHaveOwners'
  BY <1>1, <1>2 DEF Kept, FilesHaveOwners
<1> QED
  BY <1>4, <1>5, <1>6 DEF Kept

\* A request that holds no file begins or ends without touching any.
LEMMA EmptyHandKeeps ==
    ASSUME TypeOK, Kept, NEW h \in Handlers, UNCHANGED <<ticket, row, disk, stranded, torn>>,
           \A f \in request[h].files : row[f] # 0,
           \A g \in Handlers : g # h => request'[g] = request[g],
           request'[h].pc \in {"idle", "create", "save"} /\ request'[h].files = {}
    PROVE  Kept'
<1>1. Held'
  BY DEF Kept, Held, Live
<1>2. AttachmentsHaveFiles'
  BY DEF Kept, AttachmentsHaveFiles
<1>3. FilesHaveOwners'
  BY DEF Kept, FilesHaveOwners
<1> QED
  BY <1>1, <1>2, <1>3 DEF Kept

\* A transaction attaches its request's files to the ticket it makes or saves.
LEMMA AttachKeeps ==
    ASSUME TypeOK, Kept, NEW h \in Handlers, NEW t \in Tickets,
           request[h].pc \in {"create", "save"}, row' = Attached(request[h].files, t),
           UNCHANGED <<disk, stranded, torn>>,
           ticket[t].state \in {"none", "live"}, ticket'[t].state = "live",
           \A s \in Tickets : s # t => ticket'[s].state = ticket[s].state,
           \A g \in Handlers : g # h => request'[g] = request[g],
           \/ request'[h].pc = "idle" /\ request'[h].files = {}
           \/ request'[h].pc = "reread" /\ request'[h].ticket = t /\ request'[h].files = request[h].files
    PROVE  Kept'
<1>1. \A g \in Handlers : request[g].files \subseteq Files
  BY DEF TypeOK, Request
<1>2. /\ t # 0
      /\ \A f \in request[h].files : row'[f] = t
      /\ \A f \in Files : f \notin request[h].files => row'[f] = row[f]
  BY <1>1, DeskAssumption DEF Attached, Tickets
<1>3. Held'
  <2>1. \A g \in Handlers : request'[g].pc = "idle" => request'[g].files = {}
    BY DEF Kept, Held
  <2>2. \A g \in Handlers : request'[g].pc = "reread" =>
            request'[g].ticket \in Tickets /\ ticket'[request'[g].ticket].state # "none"
    BY DEF Kept, Held
  <2>3. ASSUME NEW g \in Handlers, NEW f \in request'[g].files
        PROVE  /\ disk'[f] # "none"
               /\ request'[g].pc \in {"create", "save"} => disk'[f] = "there"
               /\ request'[g].pc \in {"create", "save", "remove"} => row'[f] = 0
               /\ request'[g].pc = "reread" =>
                    row'[f] = IF Live(request[g].ticket)' THEN request'[g].ticket ELSE 0
    <3>1. CASE g = h
      BY <1>2, <3>1 DEF Kept, Held, Live
    <3>2. CASE g # h
      <4>1. request'[g] = request[g] /\ f \in request[g].files /\ f \in Files
        BY <1>1, <3>2
      <4>2. f \notin request[h].files
        BY <3>2, <4>1 DEF Kept, Held
      <4>3. row'[f] = row[f]
        BY <1>2, <4>1, <4>2
      <4>4. request[g].pc = "reread" => (Live(request[g].ticket)' <=> Live(request[g].ticket))
        BY <4>1 DEF Kept, Held, Live
      <4> QED
        BY <4>1, <4>3, <4>4 DEF Kept, Held
    <3> QED
      BY <3>1, <3>2
  <2>4. \A g, k \in Handlers : request'[g].pc \in {"create", "save"} /\ k # g =>
            request'[g].files \cap request'[k].files = {}
    BY DEF Kept, Held
  <2>5. \A f \in Files : row'[f] # 0 => disk'[f] # "none"
    BY <1>2 DEF Kept, Held
  <2> QED
    BY <2>1, <2>2, <2>3, <2>4, <2>5 DEF Held
<1>4. AttachmentsHaveFiles'
  BY <1>2 DEF Kept, Held, AttachmentsHaveFiles
<1>5. FilesHaveOwners'
  BY <1>2 DEF Kept, FilesHaveOwners
<1> QED
  BY <1>3, <1>4, <1>5 DEF Kept

\* A deletion detaches files, and its request goes on to remove them.
LEMMA DeleteKeeps ==
    ASSUME TypeOK, Kept, NEW h \in Handlers, NEW tickets \in SUBSET Tickets,
           request[h].pc = "idle", Without(tickets), GoOnToRemove(h, Orphaned(tickets)),
           \A t \in tickets : ticket[t].state # "none",
           UNCHANGED <<disk, stranded, torn>>
    PROVE  Kept'
<1> DEFINE orphaned == Orphaned(tickets)
<1>1. \A g \in Handlers : request[g].files \subseteq Files
  BY DEF TypeOK, Request
<1>2. /\ orphaned \subseteq Files
      /\ \A f \in Files : IF f \in orphaned THEN row[f] # 0 /\ row[f] \in tickets /\ row'[f] = 0
                           ELSE row[f] \notin tickets /\ row'[f] = row[f]
  BY DeskAssumption DEF Orphaned, Without, Unattached, Tickets
<1>3. /\ request'[h].files = orphaned
      /\ request'[h].pc = IF orphaned = {} THEN "idle" ELSE "remove"
      /\ \A g \in Handlers : g # h => request'[g] = request[g]
  BY DEF GoOnToRemove, TypeOK, Idle
<1>4. \A t \in Tickets : ticket'[t] = IF t \in tickets THEN NoTicket("gone") ELSE ticket[t]
  BY DEF Without
<1>5. \A t \in Tickets : (Live(t)' <=> Live(t) /\ t \notin tickets) /\ (ticket[t].state # "none" => ticket'[t].state # "none")
  BY <1>4, NoTicketIsTicket DEF Live
<1> HIDE DEF orphaned
<1>6. Held'
  <2>1. \A g \in Handlers : request'[g].pc = "idle" => request'[g].files = {}
    BY <1>3 DEF Kept, Held
  <2>2. \A g \in Handlers : request'[g].pc = "reread" =>
            request'[g].ticket \in Tickets /\ ticket'[request'[g].ticket].state # "none"
    BY <1>3, <1>5 DEF Kept, Held
  <2>3. ASSUME NEW g \in Handlers, NEW f \in request'[g].files
        PROVE  /\ disk'[f] # "none"
               /\ request'[g].pc \in {"create", "save"} => disk'[f] = "there"
               /\ request'[g].pc \in {"create", "save", "remove"} => row'[f] = 0
               /\ request'[g].pc = "reread" =>
                    row'[f] = IF Live(request[g].ticket)' THEN request'[g].ticket ELSE 0
    <3>1. CASE g = h
      BY <1>2, <1>3, <3>1 DEF Kept, Held
    <3>2. CASE g # h
      <4>1. request'[g] = request[g] /\ f \in request[g].files /\ f \in Files
        BY <1>1, <1>3, <3>2
      <4>2. row[f] = 0 => row'[f] = 0
        BY <1>2, <4>1
      <4>3. ASSUME request[g].pc = "reread"
            PROVE  row'[f] = IF Live(request[g].ticket)' THEN request'[g].ticket ELSE 0
        <5>1. request[g].ticket \in Tickets /\ 0 \notin tickets
          BY <4>3, DeskAssumption DEF Kept, Held, Tickets
        <5>2. row[f] = IF Live(request[g].ticket) THEN request[g].ticket ELSE 0
          BY <4>1, <4>3 DEF Kept, Held
        <5>3. Live(request[g].ticket)' <=> Live(request[g].ticket) /\ request[g].ticket \notin tickets
          BY <1>5, <4>1, <5>1 DEF Live
        <5> QED
          BY <1>2, <4>1, <5>1, <5>2, <5>3
      <4> QED
        BY <4>1, <4>2, <4>3 DEF Kept, Held
    <3> QED
      BY <3>1, <3>2
  <2>4. \A g, k \in Handlers : request'[g].pc \in {"create", "save"} /\ k # g =>
            request'[g].files \cap request'[k].files = {}
    BY <1>2, <1>3 DEF Kept, Held
  <2>5. \A f \in Files : row'[f] # 0 => disk'[f] # "none"
    BY <1>2 DEF Kept, Held
  <2> QED
    BY <2>1, <2>2, <2>3, <2>4, <2>5 DEF Held
<1>7. AttachmentsHaveFiles'
  BY <1>2 DEF Kept, AttachmentsHaveFiles
<1>8. FilesHaveOwners'
  <2>0. request[h].files = {}
    BY DEF Kept, Held
  <2> QED
    BY <1>2, <1>3, <2>0 DEF Kept, FilesHaveOwners
<1> QED
  BY <1>6, <1>7, <1>8 DEF Kept

LEMMA KeptStep == TypeOK /\ Kept /\ [Next]_vars => Kept'
<1> SUFFICES ASSUME TypeOK, Kept, [Next]_vars PROVE Kept'
  OBVIOUS
<1>1. ASSUME NEW h \in Handlers, NEW u \in Users, BeginCreate(h, u) PROVE Kept'
  <2>1. /\ request[h].pc = "idle" /\ UNCHANGED <<ticket, row, disk, stranded, torn>>
        /\ request' = [request EXCEPT ![h] =
                         [[Idle EXCEPT !.pc = "create", !.user = u] EXCEPT !.allowed = TRUE]]
    BY <1>1 DEF BeginCreate, Take, database
  <2>2. /\ request'[h].pc = "create" /\ request'[h].files = {}
        /\ \A g \in Handlers : g # h => request'[g] = request[g]
    BY <2>1 DEF TypeOK, Idle
  <2>3. request[h].files = {}
    BY <2>1 DEF Kept, Held
  <2> QED
    BY <2>3, <2>1, <2>2, EmptyHandKeeps
<1>2. ASSUME NEW h \in Handlers, NEW u \in Users, NEW t \in Tickets, NEW save \in Saves,
             NEW key \in Keys \cup {NoKey}, BeginSave(h, u, t, save, key) PROVE Kept'
  <2>1. /\ request[h].pc = "idle" /\ UNCHANGED <<ticket, row, disk, stranded, torn>>
        /\ \A g \in Handlers : g # h => request'[g] = request[g]
        /\ request'[h].pc = "save" /\ request'[h].files = {}
    BY <1>2 DEF BeginSave, Take, database, TypeOK
  <2>3. request[h].files = {}
    BY <2>1 DEF Kept, Held
  <2> QED
    BY <2>3, <2>1, EmptyHandKeeps
<1>3. ASSUME NEW h \in Handlers, NEW f \in Files, SaveUploadedFile(h, f) PROVE Kept'
  <2>1. /\ request[h].pc \in {"create", "save"} /\ disk[f] = "none"
        /\ disk' = [disk EXCEPT ![f] = "there"]
        /\ request' = [request EXCEPT ![h].files = @ \cup {f}]
        /\ UNCHANGED <<ticket, row, stranded, torn>>
    BY <1>3 DEF SaveUploadedFile, database
  <2>2. /\ disk'[f] = "there" /\ \A e \in Files : e # f => disk'[e] = disk[e]
        /\ request'[h].files = request[h].files \cup {f} /\ request'[h].pc = request[h].pc
        /\ \A g \in Handlers : g # h => request'[g] = request[g]
    BY <2>1 DEF TypeOK, Request
  <2>3. row[f] = 0 /\ \A g \in Handlers : f \notin request[g].files
    BY <2>1 DEF Kept, Held
  <2>4. \A g \in Handlers : request[g].files \subseteq Files
    BY DEF TypeOK, Request
  <2>5. Held'
    <3>1. \A g \in Handlers : request'[g].pc = "idle" => request'[g].files = {}
      BY <2>1, <2>2 DEF Kept, Held
    <3>2. \A g \in Handlers : request'[g].pc = "reread" =>
              request'[g].ticket \in Tickets /\ ticket'[request'[g].ticket].state # "none"
      BY <2>1, <2>2 DEF Kept, Held
    <3>3. ASSUME NEW g \in Handlers, NEW e \in request'[g].files
          PROVE  /\ disk'[e] # "none"
                 /\ request'[g].pc \in {"create", "save"} => disk'[e] = "there"
                 /\ request'[g].pc \in {"create", "save", "remove"} => row'[e] = 0
                 /\ request'[g].pc = "reread" =>
                      row'[e] = IF Live(request[g].ticket)' THEN request'[g].ticket ELSE 0
      <4>1. CASE e = f
        BY <2>1, <2>2, <2>3, <4>1
      <4>2. CASE e # f
        <5>1. e \in request[g].files /\ e \in Files /\ disk'[e] = disk[e] /\ request'[g].pc = request[g].pc
          BY <2>2, <2>4, <4>2
        <5>2. request[g].pc = "reread" => request'[g] = request[g]
          BY <2>1, <2>2
        <5> QED
          BY <2>1, <5>1, <5>2 DEF Kept, Held, Live
      <4> QED
        BY <4>1, <4>2
    <3>4. \A g, k \in Handlers : request'[g].pc \in {"create", "save"} /\ k # g =>
              request'[g].files \cap request'[k].files = {}
      BY <2>1, <2>2, <2>3 DEF Kept, Held
    <3>5. \A e \in Files : row'[e] # 0 => disk'[e] # "none"
      BY <2>1, <2>2 DEF Kept, Held
    <3> QED
      BY <3>1, <3>2, <3>3, <3>4, <3>5 DEF Held
  <2>6. AttachmentsHaveFiles'
    BY <2>1, <2>2 DEF Kept, AttachmentsHaveFiles
  <2>7. FilesHaveOwners'
    BY <2>1, <2>2 DEF Kept, FilesHaveOwners
  <2> QED
    BY <2>5, <2>6, <2>7 DEF Kept
<1>4. ASSUME NEW h \in Handlers, Refuse(h) PROVE Kept'
  <2>1. Cleanup(h) /\ UNCHANGED <<ticket, row, torn>> /\ request[h].pc \in {"create", "save", "remove"}
    BY <1>4 DEF Refuse, database, database
  <2>2. \A f \in request[h].files : row[f] = 0
    BY <2>1 DEF Kept, Held
  <2> QED
    BY <2>1, <2>2, CleanupKeeps
<1>5. ASSUME NEW h \in Handlers, NEW t \in Tickets, NEW requester \in Users,
             NEW assignee \in Users \cup {Nobody}, CreateTicket(h, t, requester, assignee) PROVE Kept'
  <2>1. /\ request[h].pc = "create" /\ ticket[t].state = "none"
        /\ row' = Attached(request[h].files, t) /\ UNCHANGED <<disk, stranded, torn>>
    BY <1>5 DEF CreateTicket
  <2>2. ticket'[t].state = "live" /\ \A s \in Tickets : s # t => ticket'[s].state = ticket[s].state
    BY <1>5 DEF CreateTicket, TypeOK
  <2>3. /\ request'[h].pc = "reread" /\ request'[h].ticket = t /\ request'[h].files = request[h].files
        /\ \A g \in Handlers : g # h => request'[g] = request[g]
    BY <1>5 DEF CreateTicket, TypeOK, Request
  <2> QED
    BY <2>1, <2>2, <2>3, AttachKeeps
<1>6. ASSUME NEW h \in Handlers, ReadCreated(h) PROVE Kept'
  <2>1. /\ request[h].pc = "reread" /\ Live(request[h].ticket) /\ UNCHANGED <<ticket, row, disk, stranded, torn>>
        /\ request' = [request EXCEPT ![h] = Idle]
    BY <1>6 DEF ReadCreated, Reset, database
  <2>2. /\ request'[h].pc = "idle" /\ request'[h].files = {}
        /\ \A g \in Handlers : g # h => request'[g] = request[g]
    BY <2>1, IdleIsRequest DEF TypeOK
  <2>3. \A f \in request[h].files : row[f] # 0
    BY <2>1, DeskAssumption DEF Kept, Held, Live, Tickets
  <2> QED
    BY <2>1, <2>2, <2>3, EmptyHandKeeps
<1>7. ASSUME NEW h \in Handlers, ReadCreatedFails(h) PROVE Kept'
  <2>1. /\ request[h].pc = "reread" /\ torn' = torn \cup {f \in request[h].files : row[f] # 0}
        /\ UNCHANGED <<ticket, row>>
    BY <1>7 DEF ReadCreatedFails, database
  <2>2. CASE Cleanup(h) /\ ~Live(request[h].ticket)
    <3>1. \A f \in request[h].files : row[f] = 0
      BY <2>1, <2>2 DEF Kept, Held
    <3> QED
      BY <2>1, <2>2, <3>1, CleanupKeeps
  <2>3. CASE /\ Live(request[h].ticket) /\ stranded' = stranded
             /\ disk' = [f \in Files |-> IF f \in request[h].files THEN "gone" ELSE disk[f]]
             /\ request' = [request EXCEPT ![h] = Idle]
    <3>1. /\ request'[h].pc = "idle" /\ request'[h].files = {}
          /\ \A g \in Handlers : g # h => request'[g] = request[g]
      BY <2>3, IdleIsRequest DEF TypeOK
    <3>2. \A f \in request[h].files : row[f] # 0 /\ f \in Files /\ f \in torn'
      BY <2>1, <2>3, DeskAssumption DEF Kept, Held, Live, Tickets, TypeOK, Request
    <3>3. Held'
      <4>1. \A g \in Handlers : request'[g].pc = "idle" => request'[g].files = {}
        BY <3>1 DEF Kept, Held
      <4>2. \A g \in Handlers : request'[g].pc = "reread" =>
                request'[g].ticket \in Tickets /\ ticket'[request'[g].ticket].state # "none"
        BY <2>1, <3>1 DEF Kept, Held
      <4>3. ASSUME NEW g \in Handlers, NEW f \in request'[g].files
            PROVE  /\ disk'[f] # "none"
                   /\ request'[g].pc \in {"create", "save"} => disk'[f] = "there"
                   /\ request'[g].pc \in {"create", "save", "remove"} => row'[f] = 0
                   /\ request'[g].pc = "reread" =>
                        row'[f] = IF Live(request[g].ticket)' THEN request'[g].ticket ELSE 0
        <5>1. g # h /\ request'[g] = request[g] /\ f \in request[g].files /\ f \in Files
          BY <3>1 DEF TypeOK, Request
        <5>2. request[g].pc \in {"create", "save"} => f \notin request[h].files
          BY <5>1 DEF Kept, Held
        <5> QED
          BY <2>1, <2>3, <5>1, <5>2 DEF Kept, Held, Live
      <4>4. \A g, k \in Handlers : request'[g].pc \in {"create", "save"} /\ k # g =>
                request'[g].files \cap request'[k].files = {}
        BY <3>1 DEF Kept, Held
      <4>5. \A f \in Files : row'[f] # 0 => disk'[f] # "none"
        BY <2>1, <2>3 DEF Kept, Held
      <4> QED
        BY <4>1, <4>2, <4>3, <4>4, <4>5 DEF Held
    <3>4. AttachmentsHaveFiles'
      BY <2>1, <2>3, <3>2 DEF Kept, AttachmentsHaveFiles
    <3>5. FilesHaveOwners'
      BY <2>1, <2>3, <3>1 DEF Kept, FilesHaveOwners
    <3> QED
      BY <3>3, <3>4, <3>5 DEF Kept
  <2> QED
    BY <1>7, <2>2, <2>3 DEF ReadCreatedFails, Reset
<1>8. ASSUME NEW h \in Handlers, SaveTicket(h) PROVE Kept'
  <2> DEFINE t == request[h].ticket
  <2>1. /\ request[h].pc = "save" /\ t \in Tickets /\ ticket[t].state = "live"
        /\ row' = Attached(request[h].files, t) /\ UNCHANGED <<disk, stranded, torn>>
    BY <1>8 DEF SaveTicket, Saving, Live
  <2>2. \A s \in Tickets : ticket'[s].state = ticket[s].state
    BY <1>8, SaveDoes
  <2>3. /\ request'[h].pc = "idle" /\ request'[h].files = {}
        /\ \A g \in Handlers : g # h => request'[g] = request[g]
    BY <1>8, IdleIsRequest DEF SaveTicket, Reset, TypeOK
  <2> HIDE DEF t
  <2> QED
    BY <2>1, <2>2, <2>3, AttachKeeps DEF t
<1>9. ASSUME NEW h \in Handlers, ReplaySave(h) PROVE Kept'
  <2>1. Cleanup(h) /\ UNCHANGED <<ticket, row, torn>> /\ request[h].pc \in {"create", "save", "remove"}
    BY <1>9 DEF ReplaySave, database, database, Saving
  <2>2. \A f \in request[h].files : row[f] = 0
    BY <2>1 DEF Kept, Held
  <2> QED
    BY <2>1, <2>2, CleanupKeeps
<1>10. ASSUME NEW h \in Handlers, NEW t \in Tickets, DeleteTicket(h, t) PROVE Kept'
  <2> DEFINE tickets == {t}
  <2>1. /\ request[h].pc = "idle" /\ Without(tickets) /\ GoOnToRemove(h, Orphaned(tickets))
        /\ \A s \in tickets : ticket[s].state # "none"
        /\ UNCHANGED <<disk, stranded, torn>>
    BY <1>10 DEF DeleteTicket, Take, Live
  <2>2. tickets \in SUBSET Tickets
    OBVIOUS
  <2> HIDE DEF tickets
  <2> QED
    BY <2>1, <2>2, DeleteKeeps
<1>11. ASSUME NEW h \in Handlers, DeleteProduct(h) PROVE Kept'
  <2> DEFINE tickets == {t \in Tickets : Live(t)}
  <2>1. /\ request[h].pc = "idle" /\ Without(tickets) /\ GoOnToRemove(h, Orphaned(tickets))
        /\ \A s \in tickets : ticket[s].state # "none"
        /\ UNCHANGED <<disk, stranded, torn>>
    BY <1>11 DEF DeleteProduct, Take, Live
  <2>2. tickets \in SUBSET Tickets
    OBVIOUS
  <2> HIDE DEF tickets
  <2> QED
    BY <2>1, <2>2, DeleteKeeps
<1>12. ASSUME NEW h \in Handlers, RemoveFiles(h) PROVE Kept'
  <2>1. Cleanup(h) /\ UNCHANGED <<ticket, row, torn>> /\ request[h].pc \in {"create", "save", "remove"}
    BY <1>12 DEF RemoveFiles, database, database
  <2>2. \A f \in request[h].files : row[f] = 0
    BY <2>1 DEF Kept, Held
  <2> QED
    BY <2>1, <2>2, CleanupKeeps
<1>13. ASSUME CreateProduct PROVE Kept'
  BY <1>13 DEF CreateProduct, Kept, Held, AttachmentsHaveFiles, FilesHaveOwners, Live
<1>14. ASSUME NEW u \in Users, NEW role \in Grants, UpsertProductMember(u, role) PROVE Kept'
  BY <1>14 DEF UpsertProductMember, Kept, Held, AttachmentsHaveFiles, FilesHaveOwners, Live
<1>15. ASSUME NEW u \in Users, DeleteProductMember(u) PROVE Kept'
  BY <1>15 DEF DeleteProductMember, Kept, Held, AttachmentsHaveFiles, FilesHaveOwners, Live
<1>16. ASSUME NEW u \in Users, NEW a \in [role : AccountRoles, disabled : BOOLEAN], UpdateUser(u, a) PROVE Kept'
  BY <1>16 DEF UpdateUser, Kept, Held, AttachmentsHaveFiles, FilesHaveOwners, Live
<1>17. ASSUME Crash PROVE Kept'
  <2>1. /\ UNCHANGED <<ticket, row, disk, torn>> /\ request' = [h \in Handlers |-> Idle]
        /\ stranded' = stranded \cup {f \in UNION {request[h].files : h \in Handlers} :
                                         row[f] = 0 /\ disk[f] = "there"}
    BY <1>17 DEF Crash, database
  <2>2. \A h \in Handlers : request'[h].pc = "idle" /\ request'[h].files = {}
    BY <2>1, IdleIsRequest
  <2>3. Held'
    BY <2>1, <2>2 DEF Kept, Held
  <2>4. AttachmentsHaveFiles'
    BY <2>1 DEF Kept, AttachmentsHaveFiles
  <2>5. FilesHaveOwners'
    BY <2>1 DEF Kept, FilesHaveOwners
  <2> QED
    BY <2>3, <2>4, <2>5 DEF Kept
<1>18. ASSUME UNCHANGED vars PROVE Kept'
  BY <1>18 DEF vars, Kept, Held, AttachmentsHaveFiles, FilesHaveOwners, Live
<1> QED
  <2>1. CASE \E h \in Handlers : CreateRequest(h) \/ SaveRequest(h) \/ FileRequest(h)
    BY <2>1, <1>1, <1>2, <1>3, <1>4, <1>5, <1>6, <1>7, <1>8, <1>9, <1>10, <1>11, <1>12
       DEF CreateRequest, SaveRequest, FileRequest
  <2>2. CASE Administer
    <3>1. ASSUME NEW u \in Users, UpdateUser(u, [account[u] EXCEPT !.disabled = ~@])
                     \/ \E role \in AccountRoles \ {account[u].role} :
                            UpdateUser(u, [account[u] EXCEPT !.role = role])
          PROVE  Kept'
      <4>1. account[u] \in [role : AccountRoles, disabled : BOOLEAN]
        BY DEF TypeOK
      <4> QED
        BY <3>1, <4>1, <1>16
    <3> QED
      BY <2>2, <3>1, <1>13, <1>14, <1>15 DEF Administer
  <2> QED
    BY <2>1, <2>2, <1>17, <1>18 DEF Next

-----------------------------------------------------------------------------
(* Disabled accounts.                                                      *)

LEMMA DisabledStep ==
    ASSUME TypeOK, [Next]_vars
    PROVE  \A h \in Handlers :
            ticket' # ticket /\ request[h].pc \in {"create", "save"} /\ request'[h] # request[h]
                => ~account[request[h].user].disabled
<1> SUFFICES ASSUME NEW g \in Handlers, ticket' # ticket, request[g].pc \in {"create", "save"},
                    request'[g] # request[g]
             PROVE  ~account[request[g].user].disabled
  OBVIOUS
<1>1. ASSUME NEW h \in Handlers, NEW u \in Users, BeginCreate(h, u) PROVE ~account[request[g].user].disabled
  BY <1>1 DEF BeginCreate, Take, database
<1>2. ASSUME NEW h \in Handlers, NEW u \in Users, NEW t \in Tickets, NEW save \in Saves,
             NEW key \in Keys \cup {NoKey}, BeginSave(h, u, t, save, key) PROVE ~account[request[g].user].disabled
  BY <1>2 DEF BeginSave, Take, database
<1>3. ASSUME NEW h \in Handlers, NEW f \in Files, SaveUploadedFile(h, f) PROVE ~account[request[g].user].disabled
  BY <1>3 DEF SaveUploadedFile, database
<1>4. ASSUME NEW h \in Handlers, Refuse(h) PROVE ~account[request[g].user].disabled
  BY <1>4 DEF Refuse, database
<1>5. ASSUME NEW h \in Handlers, NEW t \in Tickets, NEW requester \in Users,
             NEW assignee \in Users \cup {Nobody}, CreateTicket(h, t, requester, assignee) PROVE ~account[request[g].user].disabled
  <2>1. g = h
    BY <1>5 DEF CreateTicket, TypeOK
  <2> QED
    BY <1>5, <2>1 DEF CreateTicket, Creates
<1>6. ASSUME NEW h \in Handlers, ReadCreated(h) PROVE ~account[request[g].user].disabled
  BY <1>6 DEF ReadCreated, Reset, database
<1>7. ASSUME NEW h \in Handlers, ReadCreatedFails(h) PROVE ~account[request[g].user].disabled
  BY <1>7 DEF ReadCreatedFails, database
<1>8. ASSUME NEW h \in Handlers, SaveTicket(h) PROVE ~account[request[g].user].disabled
  <2>1. g = h
    BY <1>8 DEF SaveTicket, Reset, TypeOK
  <2> QED
    BY <1>8, <2>1 DEF SaveTicket, Saving, MayAct
<1>9. ASSUME NEW h \in Handlers, ReplaySave(h) PROVE ~account[request[g].user].disabled
  BY <1>9 DEF ReplaySave, database
<1>10. ASSUME NEW h \in Handlers, NEW t \in Tickets, DeleteTicket(h, t) PROVE ~account[request[g].user].disabled
  <2>1. g # h
    BY <1>10 DEF DeleteTicket, Take
  <2> QED
    BY <1>10, <2>1 DEF DeleteTicket, GoOnToRemove, TypeOK
<1>11. ASSUME NEW h \in Handlers, DeleteProduct(h) PROVE ~account[request[g].user].disabled
  <2>1. g # h
    BY <1>11 DEF DeleteProduct, Take
  <2> QED
    BY <1>11, <2>1 DEF DeleteProduct, GoOnToRemove, TypeOK
<1>12. ASSUME NEW h \in Handlers, RemoveFiles(h) PROVE ~account[request[g].user].disabled
  BY <1>12 DEF RemoveFiles, database
<1>13. ASSUME CreateProduct PROVE ~account[request[g].user].disabled
  BY <1>13 DEF CreateProduct
<1>14. ASSUME NEW u \in Users, NEW role \in Grants, UpsertProductMember(u, role) PROVE ~account[request[g].user].disabled
  BY <1>14 DEF UpsertProductMember
<1>15. ASSUME NEW u \in Users, DeleteProductMember(u) PROVE ~account[request[g].user].disabled
  BY <1>15 DEF DeleteProductMember
<1>16. ASSUME NEW u \in Users, NEW a \in [role : AccountRoles, disabled : BOOLEAN], UpdateUser(u, a) PROVE ~account[request[g].user].disabled
  BY <1>16 DEF UpdateUser
<1>17. ASSUME Crash PROVE ~account[request[g].user].disabled
  BY <1>17 DEF Crash, database
<1>18. ASSUME UNCHANGED vars PROVE ~account[request[g].user].disabled
  BY <1>18 DEF vars
<1> QED
  <2>1. CASE \E h \in Handlers : CreateRequest(h) \/ SaveRequest(h) \/ FileRequest(h)
    BY <2>1, <1>1, <1>2, <1>3, <1>4, <1>5, <1>6, <1>7, <1>8, <1>9, <1>10, <1>11, <1>12
       DEF CreateRequest, SaveRequest, FileRequest
  <2>2. CASE Administer
    <3>1. ASSUME NEW u \in Users, UpdateUser(u, [account[u] EXCEPT !.disabled = ~@])
                     \/ \E role \in AccountRoles \ {account[u].role} :
                            UpdateUser(u, [account[u] EXCEPT !.role = role])
          PROVE  ~account[request[g].user].disabled
      <4>1. account[u] \in [role : AccountRoles, disabled : BOOLEAN]
        BY DEF TypeOK
      <4> QED
        BY <3>1, <4>1, <1>16
    <3> QED
      BY <2>2, <3>1, <1>13, <1>14, <1>15 DEF Administer
  <2> QED
    BY <2>1, <2>2, <1>17, <1>18 DEF Next

-----------------------------------------------------------------------------
(* The invariants together.                                                *)

Inv == TypeOK /\ Numbered /\ Explained /\ Keyed /\ Kept

LEMMA InitInv == Init => Inv
<1> SUFFICES ASSUME Init PROVE Inv
  OBVIOUS
<1>1. /\ ticket = [t \in Tickets |-> NoTicket("none")] /\ ticket \in [Tickets -> Ticket]
      /\ \A t \in Tickets : ticket[t].state = "none" /\ ~Live(t)
  BY NoTicketIsTicket DEF Init, Live
<1>2. TypeOK
  <2>1. account \in [Users -> [role : AccountRoles, disabled : BOOLEAN]]
    <3>1. PICK roles \in Roles : account = [u \in Users |-> [role |-> roles[u], disabled |-> FALSE]]
      BY DEF Init
    <3> QED
      BY <3>1, DeskAssumption
  <2>2. member \in [Users -> MemberRoles] /\ \A u \in Users : member[u] = "none"
    BY DEF Init, MemberRoles
  <2>3. history \in [Tickets -> Seq({"open", "closed"})]
    <3>1. <<>> \in Seq({"open", "closed"})
      OBVIOUS
    <3> QED
      BY <3>1 DEF Init
  <2>4. /\ row \in [Files -> 0..MaxTickets] /\ disk \in [Files -> {"none", "there", "gone"}]
        /\ \A f \in Files : row[f] = 0
    BY DeskAssumption DEF Init
  <2>5. request \in [Handlers -> Request]
    BY IdleIsRequest DEF Init
  <2>6. effects \in [Tickets \X Users \X Keys -> Nat]
    BY DEF Init
  <2>7. /\ product = "none" /\ recorded = {} /\ begun = 0 /\ changes = 0 /\ faults = 0
        /\ stranded = {} /\ torn = {}
    BY DEF Init
  <2> QED
    BY <1>1, <2>1, <2>2, <2>3, <2>4, <2>5, <2>6, <2>7 DEF TypeOK
<1>3. Numbered
  BY <1>1 DEF Numbered, NumbersAreUnique
<1>4. Explained
  BY <1>1 DEF Init, Explained
<1>5. Keyed
  BY DEF Init, Keyed
<1>6. Kept
  <2>1. \A h \in Handlers : request[h].pc = "idle" /\ request[h].files = {}
    BY IdleIsRequest DEF Init
  <2>2. \A f \in Files : row[f] = 0 /\ disk[f] = "none"
    BY DEF Init
  <2> QED
    BY <2>1, <2>2 DEF Kept, Held, AttachmentsHaveFiles, FilesHaveOwners
<1> QED
  BY <1>2, <1>3, <1>4, <1>5, <1>6 DEF Inv

LEMMA NextInv == Inv /\ [Next]_vars => Inv'
  BY TypeStep, NumberedStep, ExplainedStep, KeyedStep, KeptStep DEF Inv

LEMMA Invariance == Spec => []Inv
  BY InitInv, NextInv, PTL DEF Spec

-----------------------------------------------------------------------------
\* The rows are what the schema says and refer to rows that are there: the
\* cascades of a deletion leave none behind.
THEOREM TypeCorrect == Spec => []TypeOK
<1>1. Inv => TypeOK
  BY DEF Inv
<1> QED
  BY <1>1, Invariance, PTL

\* One more than the largest number is a number that no ticket of the product
\* has, whatever was deleted in between: UNIQUE(product_id, number) fails no
\* creation.
THEOREM TicketsAreNumbered == Spec => []NumbersAreUnique
<1>1. Inv => NumbersAreUnique
  BY DEF Inv, Numbered
<1> QED
  BY <1>1, Invariance, PTL

\* Only saves write the status and its history, both in one transaction and
\* from the status they find there, so the history explains the status.
THEOREM HistoryIsExplained == Spec => []HistoryExplainsStatus
<1>1. Inv => HistoryExplainsStatus
  BY ExplainedIsEnough DEF Inv
<1> QED
  BY <1>1, Invariance, PTL

\* The key is looked up and written down in the transaction that applies the
\* save, so that it is applied once, and only then recorded.
THEOREM KeysActOnce == Spec => []OneEffectPerKey
<1>1. Inv => OneEffectPerKey
  BY KeyedIsEnough DEF Inv
<1> QED
  BY <1>1, Invariance, PTL

\* A file has one request until it has its row, and its row before the request
\* lets go of it: no cleanup takes the file of an attachment.
THEOREM AttachmentsKeepFiles == Spec => []AttachmentsHaveFiles
<1>1. Inv => AttachmentsHaveFiles
  BY DEF Inv, Kept
<1> QED
  BY <1>1, Invariance, PTL

\* Every path of a request, its refusals and replays included, ends with its
\* files attached or removed.
THEOREM FilesAreOwned == Spec => []FilesHaveOwners
<1>1. Inv => FilesHaveOwners
  BY DEF Inv, Kept
<1> QED
  BY <1>1, Invariance, PTL

\* The transactions read the account of the actor again, so one that has been
\* disabled since it was let in changes no ticket.
THEOREM DisabledAreStopped == Spec => DisabledChangeNothing
<1>1. TypeOK /\ [Next]_vars =>
        [\A h \in Handlers :
            ticket' # ticket /\ request[h].pc \in {"create", "save"} /\ request'[h] # request[h]
                => ~account[request[h].user].disabled]_vars
  BY DisabledStep
<1> QED
  BY <1>1, TypeCorrect, PTL DEF Spec, DisabledChangeNothing

\* What a list holds, counts and shows in SQL is what the ticket's own page
\* allows in Go, for every account, ticket and role.
THEOREM TicketsHaveOneRule == Spec => []OneRule
<1>1. OneRule
  BY RulesAgree DEF OneRule, DisagreedOn
<1> QED
  BY <1>1, PTL

\* Nobody may do more with a ticket, and staff nothing less, than the table of
\* docs/access.md says.
THEOREM TicketsFollowDocumentation == Spec => []FollowsDocumentation
<1>1. FollowsDocumentation
  BY CodeFollowsDocumentation DEF FollowsDocumentation, UndocumentedOn
<1> QED
  BY <1>1, PTL

\* The events of the next save of a ticket, each projected alone, leave out
\* nobody it concerns, mail nobody twice but a requester whose ticket it changes
\* and comments at once, and tell a customer nothing that is not its own,
\* however many accounts there are.
THEOREM NextSaveIsTold == Spec => []SavesAreTold
<1>1. SavesAreTold
  BY SavesTellWhomTheyShould DEF SavesAreTold, UntoldTickets
<1> QED
  BY <1>1, PTL
=============================================================================
