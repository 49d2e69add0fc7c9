------------------------- MODULE EmailRepliesProofs -------------------------
(***************************************************************************)
(* What holds of EmailReplies for any tickets, messages and workers.       *)
(*                                                                         *)
(* A message identity is imported once, and email reopens a ticket only    *)
(* with a new comment.  That argument never looks at the worker: wherever  *)
(* polls start again, the request recorded in the transaction of the       *)
(* comment outlives them, until its ticket is gone for good.               *)
(*                                                                         *)
(* The cursor passes no message.  That argument, the second half, is about *)
(* the polls: what each of them has taken care of, of what it will cover,   *)
(* for the mailbox that it selected, and that the mailbox undoes nothing   *)
(* of it without a new UIDVALIDITY.                                        *)
(***************************************************************************)
EXTENDS EmailReplies, FiniteSetTheorems, SequenceTheorems, TLAPS

TicketType ==
    /\ access \in [Tickets -> {"granted", "revoked", "deleted"}]
    /\ closed \in SUBSET Tickets
    /\ comments \in [Messages -> Nat]

\* A comment that came by email leaves a request behind while the ticket is.
Recorded ==
    \A m \in Messages :
        comments[m] > 0 =>
            \/ access[TicketOf[m]] = "deleted"
            \/ <<TicketOf[m], KeyOf[m], m>> \in requests

Inv == TicketType /\ Recorded /\ ImportedOnce

LEMMA InitInv == Init => Inv
  BY EmailRepliesAssumption DEF Init, Inv, TicketType, Recorded, ImportedOnce

\* Most steps leave the tickets alone.
LEMMA TicketsUnchanged == Inv /\ UNCHANGED ticketVars => Inv'
  BY DEF Inv, TicketType, Recorded, ImportedOnce, ticketVars

LEMMA SetAccessInv ==
    ASSUME Inv, NEW t \in Tickets, NEW to \in {"granted", "revoked"}, SetAccess(t, to)
    PROVE  Inv'
  BY EmailRepliesAssumption DEF SetAccess, Inv, TicketType, Recorded, ImportedOnce

LEMMA SetStatusInv ==
    ASSUME Inv, NEW t \in Tickets, SetStatus(t)
    PROVE  Inv'
  BY EmailRepliesAssumption DEF SetStatus, Inv, TicketType, Recorded, ImportedOnce

\* The requests that go with a ticket belong to comments that go with it.
LEMMA DeleteTicketInv ==
    ASSUME Inv, NEW t \in Tickets, DeleteTicket(t)
    PROVE  Inv'
<1>1. TicketType' /\ ImportedOnce'
  BY DEF DeleteTicket, Inv, TicketType, ImportedOnce
<1>2. ASSUME NEW m \in Messages, comments'[m] > 0
      PROVE  \/ access'[TicketOf[m]] = "deleted"
             \/ <<TicketOf[m], KeyOf[m], m>> \in requests'
  <2>1. CASE TicketOf[m] = t
    BY <2>1 DEF DeleteTicket, Inv, TicketType
  <2>2. CASE TicketOf[m] # t
    BY <1>2, <2>2, EmailRepliesAssumption DEF DeleteTicket, Inv, TicketType, Recorded
  <2> QED  BY <2>1, <2>2
<1> QED  BY <1>1, <1>2 DEF Inv, Recorded

\* A reply is saved only where nothing of its identity was saved before.
LEMMA SaveInv ==
    ASSUME Inv, NEW w \in Workers, NEW m \in Messages, Save(w, m), access' = access
    PROVE  Inv'
<1> DEFINE t == TicketOf[m]
           k == KeyOf[m]
           known == Replayed(t, k, m)
           refused == access[t] # "granted" \/ (~known /\ Conflicting(t, k, m))
           saved == ~refused /\ ~known
<1>1. /\ requests' = IF saved THEN requests \cup {<<t, k, m>>} ELSE requests
      /\ comments' = IF saved THEN [comments EXCEPT ![m] = @ + 1] ELSE comments
      /\ closed' = IF refused THEN closed ELSE Reopened(t, saved)
  BY DEF Save
<1>2. t \in Tickets /\ k \in Keys
  BY EmailRepliesAssumption
<1>3. TicketType'
  <2>1. closed' \in SUBSET Tickets
    BY <1>1 DEF Inv, TicketType, Reopened
  <2>2. comments' \in [Messages -> Nat]
    BY <1>1 DEF Inv, TicketType
  <2> QED  BY <2>1, <2>2 DEF Inv, TicketType
<1>4. CASE ~saved
  BY <1>1, <1>3, <1>4 DEF Inv, Recorded, ImportedOnce
<1>5. CASE saved
  <2>1. access[t] = "granted" /\ <<t, k, m>> \notin requests
    BY <1>5 DEF Replayed
  <2>2. comments[m] = 0
    BY <2>1 DEF Inv, TicketType, Recorded
  <2>3. ASSUME NEW n \in Messages, n # m, TicketOf[n] = t, KeyOf[n] = k
        PROVE  comments[n] = 0
    <3>1. <<t, k, n>> \notin requests
      BY <1>5, <2>3 DEF Conflicting
    <3> QED  BY <2>1, <2>3, <3>1 DEF Inv, TicketType, Recorded
  <2>4. /\ comments'[m] = 1
        /\ \A n \in Messages \ {m} : comments'[n] = comments[n]
        /\ requests' = requests \cup {<<t, k, m>>}
    BY <1>1, <1>5, <2>2 DEF Inv, TicketType
  <2>5. Recorded'
    BY <2>4 DEF Inv, Recorded
  <2>6. ImportedOnce'
    BY <2>2, <2>3, <2>4 DEF Inv, TicketType, ImportedOnce
  <2> QED  BY <1>3, <2>5, <2>6 DEF Inv
<1> QED  BY <1>4, <1>5

LEMMA SaveReplyInv ==
    ASSUME Inv, NEW w \in Workers, SaveReply(w)
    PROVE  Inv'
  BY SaveInv DEF SaveReply

LEMMA NextInv == Inv /\ [Next]_vars => Inv'
<1> SUFFICES ASSUME Inv, [Next]_vars PROVE Inv'
  OBVIOUS
<1>1. CASE Mailbox
  <2>1. UNCHANGED ticketVars
    BY <1>1 DEF Mailbox, Arrive, ReadByHand, Expunge, Renumber
  <2> QED  BY <2>1, TicketsUnchanged
<1>2. CASE Handlers
  BY <1>2, SetAccessInv, SetStatusInv, DeleteTicketInv DEF Handlers
<1>3. ASSUME NEW w \in Workers, ProcessMailbox(w) \/ Fail(w)
      PROVE  Inv'
  <2>1. CASE SaveReply(w)
    BY <2>1, SaveReplyInv
  <2>2. CASE ~SaveReply(w)
    <3>1. UNCHANGED ticketVars
      BY <1>3, <2>2 DEF ProcessMailbox, Select, ReadCursor, Search, Fetch, Flag,
         Advance, Finish, Disconnect, Fail
    <3> QED  BY <3>1, TicketsUnchanged
  <2> QED  BY <2>1, <2>2
<1>4. CASE UNCHANGED vars
  BY <1>4, TicketsUnchanged DEF vars
<1> QED  BY <1>1, <1>2, <1>3, <1>4 DEF Next

THEOREM Invariance == Spec => []Inv
  BY InitInv, NextInv, PTL DEF Spec

\* recordTicketRequestTx and saveTicketTx share a transaction, so however
\* often a message comes, and whoever polls, its identity brings the ticket
\* at most one comment.
THEOREM OnceForAll == Spec => []ImportedOnce
<1>1. Inv => ImportedOnce
  BY DEF Inv
<1> QED  BY <1>1, Invariance, PTL

\* saveTicketTx reopens a ticket after it has looked for the request: what the
\* worker saves reopens a ticket with a comment, or not at all.
THEOREM ReopeningIsEarned == Spec => OnlyNewCommentsReopen
<1> DEFINE Earned ==
      worker' # worker =>
          \A t \in closed \ closed' :
              \E m \in Messages : TicketOf[m] = t /\ comments'[m] > comments[m]
<1>1. Inv /\ [Next]_vars => [Earned]_vars
  <2> SUFFICES ASSUME Inv, Next, worker' # worker, NEW t \in closed \ closed'
               PROVE  \E m \in Messages : TicketOf[m] = t /\ comments'[m] > comments[m]
    BY Zenon
  <2>1. PICK w \in Workers : SaveReply(w)
    BY DEF Next, Mailbox, Arrive, ReadByHand, Expunge, Renumber, Handlers, SetAccess,
       SetStatus, DeleteTicket, ProcessMailbox, Select, ReadCursor, Search, Fetch, Flag,
       Advance, Finish, Disconnect, Fail, ticketVars
  <2>2. PICK m \in Messages : Save(w, m)
    BY <2>1 DEF SaveReply
  <2>3. TicketOf[m] = t /\ comments' = [comments EXCEPT ![m] = @ + 1]
    BY <2>2 DEF Save, Reopened
  <2>4. comments'[m] > comments[m]
    BY <2>3 DEF Inv, TicketType
  <2> QED  BY <2>3, <2>4
<1>2. [][Earned]_vars => OnlyNewCommentsReopen
  BY DEF OnlyNewCommentsReopen
<1> QED  BY <1>1, <1>2, Invariance, PTL DEF Spec

-----------------------------------------------------------------------------
(* The mailbox, the cursor and the polls.                                  *)

\* Whoever looks at the mailbox need not look at this UID again.
Handled(u) == box[u] = "none" \/ "flagged" \in flags[u] \/ comments[box[u]] > 0

Holds(w) == worker[w].pc \in {"fetch", "save", "flag", "advance"}

\* What a poll holds: UIDs in ascending order, up to where it ends.
Ordered(w) ==
    LET p == worker[w] IN
    /\ p.pc # "idle" => p.validity \in 1..validity
    /\ Holds(w) => p.uids # <<>>
    /\ ~Holds(w) => p.uids = <<>>
    /\ \A i \in 1..Len(p.uids) : p.uids[i] <= p.end
    /\ \A i, j \in 1..Len(p.uids) : i < j => p.uids[i] < p.uids[j]
    /\ p.pc = "save" => p.message \in Messages

\* What it has taken care of, in the mailbox it selected.
TakenCare(w) ==
    LET p == worker[w] IN
    /\ p.end < next
    /\ p.pc = "search" => p.from < p.end /\ \A u \in 1..p.from : Handled(u)
    /\ Holds(w) \/ p.pc = "finish" =>
           \A u \in 1..p.end : Handled(u) \/ \E i \in 1..Len(p.uids) : p.uids[i] = u
    /\ p.pc = "save" => box[Current(w)] \in {"none", p.message}
    /\ p.pc = "flag" => p.flag = "flagged" \/ Handled(Current(w))
    /\ p.pc = "advance" => Handled(Current(w))

Active(w) == worker[w].pc # "idle" /\ worker[w].validity = validity

PollInv(w) == Ordered(w) /\ (Active(w) => TakenCare(w))

MailInv ==
    /\ TypeOK
    /\ cursor.validity <= validity
    /\ \A u \in Uid : u >= next => box[u] = "none"
    /\ cursor.validity = validity =>
           cursor.last < next /\ \A u \in 1..cursor.last : Handled(u)
    /\ \A r \in requests : comments[r[3]] > 0
    /\ \A w \in Workers : PollInv(w)

\* What the steps that leave the numbering alone keep.
MailGoesOn ==
    /\ validity' = validity /\ next' >= next
    /\ \A u \in Uid : u < next => box'[u] \in {box[u], "none"}
    /\ \A u \in Uid : (u < next /\ Handled(u)) => Handled(u)'

LEMMA Numbers ==
    ASSUME TypeOK
    PROVE  /\ MaxUid \in Nat /\ BatchSize \in Nat /\ BatchSize > 0
           /\ validity \in Nat /\ validity > 0 /\ next \in Nat /\ next > 0 /\ next <= MaxUid + 1
           /\ cursor.validity \in Nat /\ cursor.last \in 0..MaxUid
           /\ \A u \in Uid : u \in Nat /\ u > 0
           /\ \A u \in Nat : (u > 0 /\ u < next) => u \in Uid
  BY EmailRepliesAssumption DEF TypeOK, Uid

LEMMA PollNumbers ==
    ASSUME TypeOK, NEW w \in Workers
    PROVE  /\ worker[w] \in Poll
           /\ worker[w].end \in 0..MaxUid /\ worker[w].from \in 0..MaxUid
           /\ worker[w].uids \in Seq(Uid) /\ Len(worker[w].uids) \in Nat
           /\ \A i \in 1..Len(worker[w].uids) : worker[w].uids[i] \in Uid
<1>1. worker[w] \in Poll
  BY DEF TypeOK
<1>2. worker[w].uids \in Seq(Uid)
  BY <1>1 DEF Poll
<1> QED
  BY <1>1, <1>2, ElementOfSeq DEF Poll

\* The UID a poll is at.
LEMMA CurrentUid ==
    ASSUME TypeOK, NEW w \in Workers, Ordered(w), Holds(w)
    PROVE  /\ Current(w) \in Uid /\ Current(w) = worker[w].uids[1]
           /\ 1 \in 1..Len(worker[w].uids) /\ Current(w) <= worker[w].end
<1> DEFINE s == worker[w].uids
<1>1. s \in Seq(Uid) /\ s # <<>>
  BY PollNumbers DEF Ordered
<1>2. Len(s) \in Nat /\ Len(s) # 0
  BY <1>1, EmptySeq
<1>3. 1 \in 1..Len(s) /\ Head(s) = s[1]
  BY <1>1, <1>2, HeadTailProperties
<1>4. s[1] \in Uid /\ s[1] <= worker[w].end
  BY <1>3, PollNumbers DEF Ordered
<1> QED
  BY <1>3, <1>4 DEF Current

\* What is handled in the mailbox stays so.
LEMMA HandledStays ==
    ASSUME TypeOK, MailGoesOn, NEW u \in Nat, u > 0, u < next, Handled(u)
    PROVE  Handled(u)'
  BY Numbers DEF MailGoesOn

\* A poll that a step leaves alone keeps its invariant.
LEMMA PollKept ==
    ASSUME MailInv, TypeOK', MailGoesOn, NEW w \in Workers, worker'[w] = worker[w]
    PROVE  PollInv(w)'
<1>0. TypeOK /\ PollInv(w)
  BY DEF MailInv
<1> DEFINE p == worker[w]
<1>1. Ordered(w)'
  BY <1>0 DEF PollInv, Ordered, Holds, MailGoesOn
<1>2. ASSUME Active(w)' PROVE TakenCare(w)'
  <2>1. Active(w) /\ TakenCare(w) /\ Ordered(w)
    BY <1>0, <1>2 DEF Active, MailGoesOn, PollInv
  <2>2. p.end < next /\ p.end \in Nat /\ p.from \in Nat
    BY <1>0, <2>1, PollNumbers, EmailRepliesAssumption DEF TakenCare
  <2>3. p.end < next'
    <3>1. next \in Nat /\ next' \in Nat /\ next' >= next
      BY <1>0, EmailRepliesAssumption DEF MailGoesOn, TypeOK
    <3> QED
      BY <2>2, <3>1
  <2>4. \A u \in 1..p.end : u \in Nat /\ u > 0 /\ u < next
    BY <1>0, <2>2, Numbers
  <2>5. p.pc = "search" => p.from < p.end /\ \A u \in 1..p.from : Handled(u)'
    <3>1. ASSUME p.pc = "search", NEW u \in 1..p.from PROVE Handled(u)'
      <4>1. Handled(u) /\ p.from < p.end
        BY <2>1, <3>1 DEF TakenCare
      <4>2. u \in 1..p.end
        BY <2>2, <4>1
      <4> QED
        BY <1>0, <2>4, <4>1, <4>2, HandledStays
    <3> QED
      BY <2>1, <3>1 DEF TakenCare
  <2>6. ASSUME Holds(w) \/ p.pc = "finish", NEW u \in 1..p.end
        PROVE  Handled(u)' \/ \E i \in 1..Len(p.uids) : p.uids[i] = u
    <3>1. Handled(u) \/ \E i \in 1..Len(p.uids) : p.uids[i] = u
      BY <2>1, <2>6 DEF TakenCare
    <3> QED
      BY <1>0, <2>4, <3>1, HandledStays
  <2>7. ASSUME Holds(w)
        PROVE  Current(w) \in Uid /\ Current(w) < next /\ (Handled(Current(w)) => Handled(Current(w))')
    <3>1. Current(w) \in Uid /\ Current(w) <= p.end /\ Current(w)' = Current(w)
      BY <1>0, <2>1, <2>7, CurrentUid DEF Current
    <3>2. Current(w) \in Nat /\ Current(w) > 0 /\ Current(w) < next
      BY <1>0, <2>2, <3>1, Numbers
    <3>3. ASSUME NEW u \in Nat, u > 0, u < next, Handled(u) PROVE Handled(u)'
      BY <1>0, <3>3, HandledStays
    <3>4. PICK c \in Nat : c = Current(w) /\ c > 0 /\ c < next
      BY <3>2
    <3>5. Handled(c) => Handled(c)'
      BY <3>3, <3>4
    <3>6. (Handled(Current(w)))' <=> Handled(c)'
      BY <3>1, <3>4 DEF Handled
    <3>7. Handled(Current(w)) <=> Handled(c)
      BY <3>4
    <3> QED
      BY <3>1, <3>2, <3>5, <3>6, <3>7
  <2>8. p.pc = "save" => box'[Current(w)'] \in {"none", p.message}
    <3>1. ASSUME p.pc = "save" PROVE box'[Current(w)'] \in {"none", p.message}
      <4>1. Holds(w) /\ Current(w)' = Current(w) /\ box[Current(w)] \in {"none", p.message}
        BY <2>1, <3>1 DEF Holds, TakenCare, Current
      <4> QED
        BY <2>7, <4>1 DEF MailGoesOn
    <3> QED
      BY <3>1
  <2>9. /\ p.pc = "flag" => p.flag = "flagged" \/ (Handled(Current(w)))'
        /\ p.pc = "advance" => (Handled(Current(w)))'
    BY <2>1, <2>7 DEF Holds, TakenCare
  <2> QED
    BY <2>3, <2>5, <2>6, <2>8, <2>9 DEF TakenCare, Holds
<1> QED
  BY <1>1, <1>2 DEF PollInv

\* A step that leaves the numbering and the cursor alone.
LEMMA MailKept ==
    ASSUME MailInv, TypeOK', MailGoesOn, cursor' = cursor,
           \A u \in Uid : u >= next' => box'[u] = "none",
           \A r \in requests' : comments'[r[3]] > 0,
           \A w \in Workers : worker'[w] = worker[w] \/ PollInv(w)'
    PROVE  MailInv'
<1>0. TypeOK
  BY DEF MailInv
<1>1. \A w \in Workers : PollInv(w)'
  BY PollKept
<1>2. ASSUME cursor'.validity = validity'
      PROVE  cursor'.last < next' /\ \A u \in 1..cursor'.last : Handled(u)'
  <2>1. cursor.last < next /\ \A u \in 1..cursor.last : Handled(u)
    BY <1>2 DEF MailInv, MailGoesOn
  <2>2. cursor.last \in Nat /\ next \in Nat /\ next' \in Nat /\ next' >= next
    BY <1>0, EmailRepliesAssumption DEF TypeOK, MailGoesOn
  <2>3. \A u \in 1..cursor.last : u \in Nat /\ u > 0 /\ u < next
    BY <2>1, <2>2
  <2>4. \A u \in 1..cursor.last : Handled(u)'
    BY <1>0, <2>1, <2>3, HandledStays
  <2> QED
    BY <2>1, <2>2, <2>4
<1>3. cursor'.validity <= validity'
  BY DEF MailInv, MailGoesOn
<1> QED
  BY <1>1, <1>2, <1>3 DEF MailInv

LEMMA IdlePoll ==
    /\ Idle \in Poll
    /\ \A w \in Workers : worker'[w] = Idle => PollInv(w)'
<1>1. /\ Idle.pc = "idle" /\ Idle.uids = <<>>
  BY DEF Idle
<1>2. Idle \in Poll
  <2>1. <<>> \in Seq(Uid)
    OBVIOUS
  <2> QED
    BY <2>1, EmailRepliesAssumption DEF Idle, Poll
<1>3. Len(<<>>) = 0
  BY EmptySeq
<1> QED
  BY <1>1, <1>2, <1>3 DEF PollInv, Ordered, Active, Holds

-----------------------------------------------------------------------------
(* The mailbox changes, and so do the tickets.                             *)

LEMMA ArriveMail ==
    ASSUME MailInv, NEW m \in Messages, Arrive(m)
    PROVE  MailInv'
<1>0. TypeOK /\ TypeOK'
  <2>1. TypeOK
    BY DEF MailInv
  <2>2. /\ box' = [box EXCEPT ![next] = m] /\ flags' = [flags EXCEPT ![next] = {}]
        /\ next' = next + 1 /\ next \in Uid
        /\ UNCHANGED <<validity, access, closed, requests, comments, cursor, worker, faults>>
    BY DEF Arrive, ticketVars
  <2>3. next' \in 1..MaxUid + 1
    BY <2>1, <2>2, Numbers DEF Uid
  <2> QED
    BY <2>1, <2>2, <2>3 DEF TypeOK
<1>1. /\ next' = next + 1 /\ next \in Nat /\ validity' = validity
      /\ UNCHANGED <<requests, comments, cursor, worker>>
      /\ \A u \in Uid : u # next => box'[u] = box[u] /\ flags'[u] = flags[u]
  BY <1>0, Numbers DEF Arrive, ticketVars, TypeOK
<1>2. \A u \in Uid : u \in Nat /\ (u < next => u # next) /\ (u >= next' => u >= next /\ u # next)
  BY <1>0, <1>1, Numbers
<1>3. MailGoesOn
  BY <1>1, <1>2 DEF MailGoesOn, Handled
<1>4. \A u \in Uid : u >= next' => box'[u] = "none"
  BY <1>1, <1>2 DEF MailInv
<1> QED
  BY <1>0, <1>1, <1>3, <1>4, MailKept DEF MailInv

\* A message is read, or goes away.
LEMMA ByHandMail ==
    ASSUME MailInv, NEW u \in Uid, ReadByHand(u) \/ Expunge(u)
    PROVE  MailInv'
<1>1. TypeOK /\ TypeOK'
  BY DEF MailInv, TypeOK, ReadByHand, Expunge, ticketVars
<1>2. /\ UNCHANGED <<validity, next, requests, comments, cursor, worker>>
      /\ \A x \in Uid : box'[x] = "none" \/ (box'[x] = box[x] /\ flags[x] \subseteq flags'[x])
  <2>1. CASE ReadByHand(u)
    BY <1>1, <2>1 DEF ReadByHand, ticketVars, TypeOK
  <2>2. CASE Expunge(u)
    BY <1>1, <2>2 DEF Expunge, ticketVars, TypeOK
  <2> QED
    BY <2>1, <2>2
<1>3. MailGoesOn
  <2>1. next' >= next
    BY <1>1, <1>2, Numbers
  <2> QED
    BY <1>2, <2>1 DEF MailGoesOn, Handled
<1>4. \A x \in Uid : x >= next' => box'[x] = "none"
  BY <1>2 DEF MailInv
<1> QED
  BY <1>1, <1>2, <1>3, <1>4, MailKept DEF MailInv

\* A listing of a set of UIDs.
LEMMA ListingIs ==
    ASSUME NEW S \in SUBSET Uid, NEW list \in Listings(S)
    PROVE  /\ list \in Seq(Uid) /\ Len(list) \in Nat /\ Len(list) <= MaxUid
           /\ DOMAIN list = 1..Len(list)
           /\ \A i \in 1..Len(list) : list[i] \in S
           /\ \A u \in S : \E i \in 1..Len(list) : list[i] = u
           /\ \A i, j \in 1..Len(list) : i < j => list[i] < list[j]
<1>1. MaxUid \in Nat
  BY EmailRepliesAssumption
<1>2. IsFiniteSet(Uid) /\ Cardinality(Uid) = MaxUid
  <2>1. 1 \in Int /\ MaxUid \in Int
    BY <1>1
  <2>2. IsFiniteSet(1..MaxUid) /\ Cardinality(1..MaxUid) = IF 1 > MaxUid THEN 0 ELSE MaxUid - 1 + 1
    BY <2>1, FS_Interval
  <2> QED
    BY <1>1, <2>2 DEF Uid
<1>3. IsFiniteSet(S) /\ Cardinality(S) <= MaxUid
  BY <1>2, FS_Subset
<1>4. Cardinality(S) \in Nat
  BY <1>3, FS_CardinalityType
<1> DEFINE n == Cardinality(S)
<1>5. /\ list \in [1..n -> S] /\ {list[i] : i \in DOMAIN list} = S
      /\ \A i, j \in DOMAIN list : i < j => list[i] < list[j]
  BY DEF Listings
<1> HIDE DEF n
<1>6. n \in Nat /\ n <= MaxUid
  BY <1>3, <1>4 DEF n
<1>7. list \in Seq(Uid) /\ Len(list) = n /\ DOMAIN list = 1..n
  BY <1>5, <1>6
<1> QED
  BY <1>5, <1>6, <1>7

\* The polls of the old numbering end as they notice.
LEMMA RenumberMail == ASSUME MailInv, Renumber PROVE MailInv'
<1>0. TypeOK /\ validity \in Nat /\ validity' = validity + 1 /\ validity < MaxValidity
      /\ UNCHANGED <<access, closed, requests, comments, cursor, worker, faults>>
  BY Numbers DEF MailInv, Renumber, ticketVars
<1> DEFINE S == {u \in Uid : box[u] # "none"}
<1>1. PICK kept \in Listings(S) :
         /\ box' = [u \in Uid |-> IF u \in DOMAIN kept THEN box[kept[u]] ELSE "none"]
         /\ flags' = [u \in Uid |-> IF u \in DOMAIN kept THEN flags[kept[u]] ELSE {}]
         /\ next' = Len(kept) + 1
  BY DEF Renumber
<1>2. S \in SUBSET Uid
  OBVIOUS
<1> HIDE DEF S
<1>3. /\ Len(kept) \in Nat /\ Len(kept) <= MaxUid /\ DOMAIN kept = 1..Len(kept)
      /\ \A i \in 1..Len(kept) : kept[i] \in Uid
  BY <1>2, ListingIs
<1>4. TypeOK'
  <2>1. /\ box' \in [Uid -> Messages \cup {"none"}]
        /\ flags' \in [Uid -> SUBSET {"seen", "flagged"}]
    BY <1>0, <1>1, <1>3 DEF TypeOK
  <2>2. next' \in 1..MaxUid + 1
    BY <1>1, <1>3, EmailRepliesAssumption
  <2>3. validity' \in 1..MaxValidity
    BY <1>0, EmailRepliesAssumption DEF TypeOK
  <2> QED
    BY <1>0, <2>1, <2>2, <2>3 DEF TypeOK
<1>5. \A u \in Uid : u >= next' => box'[u] = "none"
  <2>1. \A u \in Uid : u \in Nat /\ (u >= next' => u \notin 1..Len(kept))
    BY <1>0, <1>1, <1>3, Numbers
  <2> QED
    BY <1>1, <1>3, <2>1
<1>6. cursor'.validity # validity' /\ cursor'.validity <= validity'
  BY <1>0, Numbers DEF MailInv
<1>7. ASSUME NEW w \in Workers PROVE PollInv(w)'
  <2>1. Ordered(w) /\ worker'[w] = worker[w]
    BY <1>0 DEF MailInv, PollInv
  <2>2. worker[w].pc # "idle" => worker[w].validity \in 1..validity' /\ worker[w].validity # validity'
    BY <1>0, <2>1 DEF Ordered
  <2>3. Ordered(w)'
    BY <2>1, <2>2 DEF Ordered, Holds
  <2>4. ~Active(w)'
    BY <2>1, <2>2 DEF Active
  <2> QED
    BY <2>3, <2>4 DEF PollInv
<1> QED
  BY <1>0, <1>4, <1>5, <1>6, <1>7 DEF MailInv

LEMMA HandlersMail == ASSUME MailInv, Handlers PROVE MailInv'
<1>1. /\ UNCHANGED <<validity, box, next, flags, comments, cursor, worker, faults>>
      /\ requests' \subseteq requests
  BY DEF Handlers, SetAccess, SetStatus, DeleteTicket, boxVars
<1>2. TypeOK /\ TypeOK'
  BY <1>1 DEF MailInv, TypeOK, Handlers, SetAccess, SetStatus, DeleteTicket
<1>3. MailGoesOn
  <2>1. next' >= next
    BY <1>1, <1>2, Numbers
  <2> QED
    BY <1>1, <2>1 DEF MailGoesOn, Handled
<1> QED
  BY <1>1, <1>2, <1>3, MailKept DEF MailInv

-----------------------------------------------------------------------------
(* The polls, step by step.                                                *)

\* A step that changes nothing but a poll.
LEMMA OnlyPoll ==
    ASSUME MailInv, NEW w \in Workers, NEW p \in Poll, worker' = [worker EXCEPT ![w] = p],
           UNCHANGED <<boxVars, ticketVars, cursor>>, faults' \in 0..MaxFaults, PollInv(w)'
    PROVE  MailInv'
<1>1. TypeOK /\ TypeOK'
  BY DEF MailInv, TypeOK, boxVars, ticketVars
<1>2. UNCHANGED <<validity, box, next, flags, comments, requests, cursor>>
  BY DEF boxVars, ticketVars
<1>3. MailGoesOn
  <2>1. next' >= next
    BY <1>1, <1>2, Numbers
  <2> QED
    BY <1>2, <2>1 DEF MailGoesOn, Handled
<1>4. \A v \in Workers : worker'[v] = worker[v] \/ PollInv(v)'
  BY <1>1 DEF TypeOK
<1> QED
  BY <1>1, <1>2, <1>3, <1>4, MailKept DEF MailInv

LEMMA StopsMail ==
    ASSUME MailInv, NEW w \in Workers, Fail(w) \/ Disconnect(w)
    PROVE  MailInv'
<1>1. faults' \in 0..MaxFaults
  BY EmailRepliesAssumption DEF MailInv, TypeOK, Fail, Disconnect
<1>2. worker' = [worker EXCEPT ![w] = Idle] /\ UNCHANGED <<boxVars, ticketVars, cursor>>
  BY DEF Fail, Disconnect
<1>3. worker'[w] = Idle
  BY <1>2 DEF MailInv, TypeOK
<1> QED
  BY <1>1, <1>2, <1>3, IdlePoll, OnlyPoll

LEMMA SelectMail == ASSUME MailInv, NEW w \in Workers, Select(w) PROVE MailInv'
<1> DEFINE p == [Idle EXCEPT !.pc = "cursor", !.validity = validity, !.end = next - 1]
<1>0. TypeOK /\ faults' \in 0..MaxFaults
  BY DEF MailInv, TypeOK, Select
<1>1. /\ p.pc = "cursor" /\ p.validity = validity /\ p.end = next - 1 /\ p.uids = <<>>
      /\ p \in Poll
  <2>1. next - 1 \in 0..MaxUid /\ validity \in 0..MaxValidity
    BY <1>0, Numbers DEF TypeOK
  <2> QED
    BY <2>1, IdlePoll DEF Idle, Poll
<1>2. worker' = [worker EXCEPT ![w] = p] /\ UNCHANGED <<boxVars, ticketVars, cursor>>
      /\ validity' = validity /\ next' = next
  BY DEF Select, boxVars
<1>3. worker'[w] = p
  BY <1>0, <1>2 DEF TypeOK
<1> HIDE DEF p
<1>4. Len(<<>>) = 0 /\ validity \in 1..validity /\ next - 1 < next
  BY <1>0, EmptySeq, Numbers
<1>5. PollInv(w)'
  BY <1>1, <1>2, <1>3, <1>4 DEF PollInv, Ordered, Holds, TakenCare
<1> QED
  BY <1>0, <1>1, <1>2, <1>5, OnlyPoll

LEMMA ReadCursorMail == ASSUME MailInv, NEW w \in Workers, ReadCursor(w) PROVE MailInv'
<1>0. TypeOK /\ PollInv(w) /\ faults' \in 0..MaxFaults /\ worker[w] \in Poll
  BY DEF MailInv, TypeOK, ReadCursor
<1> DEFINE from == CursorFor(worker[w].validity)
           p == [worker[w] EXCEPT !.pc = "search", !.from = from]
<1>1. worker[w].pc = "cursor" /\ UNCHANGED <<boxVars, ticketVars, cursor>>
      /\ worker' = [worker EXCEPT ![w] = IF from >= worker[w].end THEN Idle ELSE p]
  BY DEF ReadCursor
<1>2. from \in 0..MaxUid
  BY <1>0, EmailRepliesAssumption DEF TypeOK, CursorFor
<1>3. CASE from >= worker[w].end
  <2>1. worker' = [worker EXCEPT ![w] = Idle]
    BY <1>1, <1>3
  <2>2. worker'[w] = Idle
    BY <1>0, <2>1 DEF TypeOK
  <2> QED
    BY <1>0, <1>1, <2>1, <2>2, IdlePoll, OnlyPoll
<1>4. CASE ~(from >= worker[w].end)
  <2>1. worker' = [worker EXCEPT ![w] = p]
    BY <1>1, <1>4
  <2>2. /\ p.pc = "search" /\ p.from = from /\ p.uids = worker[w].uids /\ p.end = worker[w].end
        /\ p.validity = worker[w].validity /\ p \in Poll
    BY <1>0, <1>2 DEF Poll
  <2>3. worker'[w] = p
    BY <1>0, <2>1 DEF TypeOK
  <2>4. from < worker[w].end
    BY <1>0, <1>2, <1>4, PollNumbers, EmailRepliesAssumption
  <2>5. ASSUME worker[w].validity = validity PROVE \A u \in 1..from : Handled(u)
    BY <2>5 DEF CursorFor, MailInv
  <2> HIDE DEF p, from
  <2>6. UNCHANGED <<validity, next, box, flags, comments>>
    BY <1>1 DEF boxVars, ticketVars
  <2>7. Ordered(w)'
    BY <1>0, <1>1, <2>2, <2>3, <2>6 DEF PollInv, Ordered, Holds
  <2>8. ASSUME Active(w)' PROVE TakenCare(w)'
    <3>1. Active(w) /\ TakenCare(w) /\ worker[w].validity = validity
      BY <1>0, <1>1, <2>2, <2>3, <2>6, <2>8 DEF Active, PollInv
    <3>2. \A u \in 1..from : Handled(u)'
      BY <2>5, <2>6, <3>1 DEF Handled
    <3> QED
      BY <2>2, <2>3, <2>4, <2>6, <3>1, <3>2 DEF TakenCare, Holds
  <2> QED
    BY <1>0, <1>1, <2>1, <2>2, <2>7, <2>8, OnlyPoll DEF PollInv
<1> QED
  BY <1>3, <1>4

\* What one poll takes of what the search found, and how far that reaches.
Part(list) == IF Len(list) > BatchSize THEN SubSeq(list, 1, BatchSize) ELSE list

LEMMA PartTaken ==
    ASSUME TypeOK, NEW list \in Seq(Uid), NEW end \in 0..MaxUid,
           \A i \in 1..Len(list) : list[i] <= end,
           \A i, j \in 1..Len(list) : i < j => list[i] < list[j]
    PROVE  LET part == Part(list) IN
           /\ part \in Seq(Uid) /\ Len(part) \in Nat /\ Covered(list, end) \in 0..MaxUid
           /\ Covered(list, end) <= end
           /\ \A i \in 1..Len(part) : part[i] <= Covered(list, end)
           /\ \A i, j \in 1..Len(part) : i < j => part[i] < part[j]
           /\ \A i \in 1..Len(list) : list[i] <= Covered(list, end) =>
                 \E k \in 1..Len(part) : part[k] = list[i]
           /\ list # <<>> => part # <<>>
<1> DEFINE part == Part(list)
<1>0. /\ Len(list) \in Nat /\ BatchSize \in Nat /\ BatchSize > 0 /\ MaxUid \in Nat
      /\ \A i \in 1..Len(list) : list[i] \in Uid /\ list[i] \in Nat
  BY ElementOfSeq, Numbers
<1> HIDE DEF part
<1>1. CASE ~(Len(list) > BatchSize)
  <2>1. part = list /\ Covered(list, end) = end
    BY <1>1 DEF Covered, Part, part
  <2> QED
    BY <1>0, <2>1 DEF part
<1>2. CASE Len(list) > BatchSize
  <2>1. part = SubSeq(list, 1, BatchSize) /\ Covered(list, end) = list[BatchSize]
    BY <1>2 DEF Covered, Part, part
  <2>2. BatchSize \in 1..Len(list) /\ 1 \in Int /\ BatchSize \in Int
        /\ \A i \in 1..BatchSize : i \in 1..Len(list)
    BY <1>0, <1>2
  <2>3. \A i \in 1..BatchSize : list[i] \in Uid
    BY <1>0, <2>2
  <2>4. /\ part \in Seq(Uid)
        /\ Len(part) = IF 1 <= BatchSize THEN BatchSize - 1 + 1 ELSE 0
        /\ \A i \in 1..(BatchSize - 1 + 1) : part[i] = list[1 + i - 1]
    BY <2>1, <2>2, <2>3, SubSeqProperties
  <2>5. Len(part) = BatchSize /\ \A i \in 1..BatchSize : part[i] = list[i]
    BY <1>0, <2>4
  <2>6. list[BatchSize] \in 0..MaxUid /\ list[BatchSize] <= end
    BY <1>0, <2>2, Numbers DEF Uid
  <2>7. \A i \in 1..BatchSize : part[i] <= list[BatchSize]
    <3>1. ASSUME NEW i \in 1..BatchSize PROVE list[i] <= list[BatchSize]
      <4>1. CASE i = BatchSize
        BY <1>0, <2>2, <4>1
      <4>2. CASE i # BatchSize
        <5>1. i < BatchSize
          BY <1>0, <4>2
        <5>2. list[i] < list[BatchSize] /\ list[i] \in Nat /\ list[BatchSize] \in Nat
          BY <1>0, <2>2, <5>1
        <5> QED
          BY <5>2
      <4> QED
        BY <4>1, <4>2
    <3> QED
      BY <2>5, <3>1
  <2>8. ASSUME NEW i \in 1..Len(list), list[i] <= list[BatchSize]
        PROVE  \E k \in 1..BatchSize : part[k] = list[i]
    <3>1. ~(BatchSize < i)
      <4>1. ASSUME BatchSize < i PROVE FALSE
        <5>1. list[BatchSize] < list[i] /\ list[i] \in Nat /\ list[BatchSize] \in Nat
          BY <1>0, <2>2, <4>1
        <5> QED
          BY <2>8, <5>1
      <4> QED
        BY <4>1
    <3>2. i \in 1..BatchSize
      BY <1>0, <3>1
    <3> QED
      BY <2>5, <3>2
  <2>9. part # <<>>
    BY <1>0, <2>5, EmptySeq
  <2>10. \A i, j \in 1..BatchSize : i < j => part[i] < part[j]
    BY <2>2, <2>5
  <2> QED
    BY <1>0, <2>1, <2>4, <2>5, <2>6, <2>7, <2>8, <2>9, <2>10 DEF part
<1> QED
  BY <1>1, <1>2 DEF part

LEMMA SearchMail == ASSUME MailInv, NEW w \in Workers, Search(w) PROVE MailInv'
<1>0. TypeOK /\ PollInv(w) /\ faults' \in 0..MaxFaults /\ worker[w] \in Poll
      /\ UNCHANGED <<boxVars, ticketVars, cursor>>
      /\ UNCHANGED <<validity, next, box, flags, comments>>
      /\ worker[w].pc = "search" /\ worker[w].validity = validity
  BY DEF MailInv, TypeOK, Search, Connected, boxVars, ticketVars
<1> DEFINE q == worker[w]
           S == {u \in Uid : Found(u) /\ q.from < u /\ u <= q.end}
<1>1. PICK uids \in Listings(S) :
         worker' = [worker EXCEPT ![w] =
                       [q EXCEPT !.pc = IF uids = <<>> THEN "finish" ELSE "fetch",
                                 !.uids = IF Len(uids) > BatchSize
                                          THEN SubSeq(uids, 1, BatchSize) ELSE uids,
                                 !.from = 0,
                                 !.end = Covered(uids, q.end)]]
  BY DEF Search
<1> DEFINE part == Part(uids)
           reach == Covered(uids, q.end)
           pc == IF uids = <<>> THEN "finish" ELSE "fetch"
           p == [q EXCEPT !.pc = pc, !.uids = part, !.from = 0, !.end = reach]
<1>2. worker' = [worker EXCEPT ![w] = p]
  BY <1>1 DEF Part
<1>3. S \in SUBSET Uid /\ \A u \in S : u <= q.end
  OBVIOUS
<1>3a. \A u \in Uid : (Found(u) /\ q.from < u /\ u <= q.end) => u \in S
  OBVIOUS
<1>4. q.end \in 0..MaxUid /\ q.from \in 0..MaxUid /\ MaxUid \in Nat
  BY <1>0, PollNumbers, EmailRepliesAssumption
<1> HIDE DEF S
<1>5. /\ uids \in Seq(Uid) /\ \A i \in 1..Len(uids) : uids[i] \in S /\ uids[i] <= q.end
      /\ \A u \in S : \E i \in 1..Len(uids) : uids[i] = u
      /\ \A i, j \in 1..Len(uids) : i < j => uids[i] < uids[j]
  BY <1>3, ListingIs
<1>6. /\ part \in Seq(Uid) /\ Len(part) \in Nat /\ reach \in 0..MaxUid /\ reach <= q.end
      /\ \A i \in 1..Len(part) : part[i] <= reach
      /\ \A i, j \in 1..Len(part) : i < j => part[i] < part[j]
      /\ \A i \in 1..Len(uids) : uids[i] <= reach => \E k \in 1..Len(part) : part[k] = uids[i]
      /\ uids # <<>> => part # <<>>
  <2>1. \A i \in 1..Len(uids) : uids[i] <= q.end
    BY <1>5
  <2>2. \A i, j \in 1..Len(uids) : i < j => uids[i] < uids[j]
    BY <1>5
  <2>3. TypeOK /\ uids \in Seq(Uid) /\ q.end \in 0..MaxUid
    BY <1>0, <1>4, <1>5
  <2> HIDE DEF q
  <2> QED
    BY <2>1, <2>2, <2>3, PartTaken
<1>6a. uids = <<>> => part = <<>>
  <2>1. ASSUME uids = <<>> PROVE part = <<>>
    <3>1. Len(uids) = 0 /\ BatchSize \in Nat
      BY <2>1, EmptySeq, EmailRepliesAssumption
    <3> QED
      BY <2>1, <3>1 DEF Part
  <2> QED
    BY <2>1
<1> HIDE DEF part, reach
<1>6b. pc \in {"finish", "fetch"} /\ (pc = "fetch" <=> part # <<>>)
  BY <1>6, <1>6a
<1> HIDE DEF pc
<1>7. /\ p.pc = pc /\ p.uids = part /\ p.end = reach /\ p.validity = q.validity /\ p \in Poll
  <2>1. pc \in {"finish", "fetch"} /\ part \in Seq(Uid) /\ reach \in 0..MaxUid /\ 0 \in 0..MaxUid
    BY <1>4, <1>6, <1>6b
  <2>2. q \in Poll
    BY <1>0
  <2> HIDE DEF q
  <2> QED
    BY <2>1, <2>2 DEF Poll
<1>8. worker'[w] = p
  BY <1>0, <1>2 DEF TypeOK
<1> HIDE DEF p
<1>9. Ordered(w)'
  BY <1>0, <1>6, <1>6b, <1>7, <1>8 DEF PollInv, Ordered, Holds
<1>10. ASSUME Active(w)' PROVE TakenCare(w)'
  <2>1. TakenCare(w)
    BY <1>0 DEF Active, PollInv
  <2>2. reach < next'
    <3>1. q.end < next /\ next \in Nat /\ next' = next
      BY <1>0, <2>1, Numbers DEF TakenCare
    <3> QED
      BY <1>4, <1>6, <3>1
  <2>3. ASSUME NEW u \in 1..reach PROVE Handled(u)' \/ \E i \in 1..Len(part) : part[i] = u
    <3>1. u \in Uid /\ u <= q.end /\ u <= reach
      BY <1>4, <1>6 DEF Uid
    <3>2. CASE u \in 1..q.from
      BY <1>0, <2>1, <3>2 DEF TakenCare, Handled
    <3>3. CASE ~Found(u)
      BY <1>0, <3>3 DEF Found, Handled
    <3>4. CASE u \notin 1..q.from /\ Found(u)
      <4>1. q.from < u
        BY <1>4, <1>6, <3>4
      <4>2. u \in S
        BY <1>3a, <3>1, <3>4, <4>1
      <4>3. PICK i \in 1..Len(uids) : uids[i] = u
        BY <1>5, <4>2
      <4> QED
        BY <1>6, <3>1, <4>3
    <3> QED
      BY <3>2, <3>3, <3>4
  <2> QED
    BY <1>6b, <1>7, <1>8, <2>2, <2>3 DEF TakenCare, Holds
<1> QED
  BY <1>0, <1>2, <1>7, <1>9, <1>10, OnlyPoll DEF PollInv

\* The steps within one message: the poll keeps its UIDs.
LEMMA SameUid ==
    ASSUME MailInv, TypeOK', MailGoesOn, NEW w \in Workers, Holds(w), Holds(w)',
           worker'[w].uids = worker[w].uids, worker'[w].end = worker[w].end,
           worker'[w].validity = worker[w].validity,
           worker'[w].pc = "save" => worker'[w].message \in Messages,
           Active(w)' =>
              /\ worker'[w].pc = "save" => box'[Current(w)] \in {"none", worker'[w].message}
              /\ worker'[w].pc = "flag" =>
                    worker'[w].flag = "flagged" \/ \A u \in Uid : u = Current(w) => Handled(u)'
              /\ worker'[w].pc = "advance" => \A u \in Uid : u = Current(w) => Handled(u)'
    PROVE  PollInv(w)'
<1>0. TypeOK /\ PollInv(w) /\ worker[w].pc # "idle"
  BY DEF MailInv, Holds
<1>1. Ordered(w)'
  BY <1>0 DEF PollInv, Ordered, MailGoesOn, Holds
<1>2. ASSUME Active(w)' PROVE TakenCare(w)'
  <2>1. Active(w) /\ TakenCare(w) /\ Ordered(w)
    BY <1>0, <1>2 DEF Active, MailGoesOn, PollInv
  <2>2. Current(w)' = Current(w) /\ Current(w) \in Uid
    BY <1>0, <2>1, CurrentUid DEF Current
  <2>3. PICK c \in Uid : c = Current(w)
    BY <2>2
  <2>4. (Handled(Current(w)))' <=> Handled(c)'
    BY <2>2, <2>3 DEF Handled
  <2>5. worker[w].end < next /\ worker[w].end < next'
        /\ \A u \in 1..worker[w].end : u \in Nat /\ u > 0 /\ u < next
    <3>1. worker[w].end < next /\ worker[w].end \in Nat
      BY <1>0, <2>1, PollNumbers, EmailRepliesAssumption DEF TakenCare
    <3>2. next \in Nat /\ next' \in Nat /\ next' >= next
      BY <1>0, EmailRepliesAssumption DEF TypeOK, MailGoesOn
    <3> QED
      BY <3>1, <3>2
  <2>6. ASSUME NEW u \in 1..worker[w].end
        PROVE  Handled(u)' \/ \E i \in 1..Len(worker[w].uids) : worker[w].uids[i] = u
    <3>1. Handled(u) \/ \E i \in 1..Len(worker[w].uids) : worker[w].uids[i] = u
      BY <2>1 DEF TakenCare
    <3> QED
      BY <1>0, <2>5, <3>1, HandledStays
  <2> QED
    BY <1>2, <2>2, <2>3, <2>4, <2>5, <2>6 DEF TakenCare, Holds
<1> QED
  BY <1>1, <1>2 DEF PollInv

LEMMA FetchMail == ASSUME MailInv, NEW w \in Workers, Fetch(w) PROVE MailInv'
<1>0. TypeOK /\ PollInv(w) /\ faults' \in 0..MaxFaults /\ worker[w] \in Poll
      /\ UNCHANGED <<boxVars, ticketVars, cursor>>
      /\ UNCHANGED <<validity, next, box, flags, comments, requests>>
      /\ worker[w].pc = "fetch" /\ Holds(w)
  BY DEF MailInv, TypeOK, Fetch, boxVars, ticketVars, Holds
<1>1. Current(w) \in Uid
  BY <1>0, CurrentUid DEF PollInv
<1> DEFINE m == box[Current(w)]
<1>2. \E p \in Poll :
         /\ worker' = [worker EXCEPT ![w] = p]
         /\ p.uids = worker[w].uids /\ p.end = worker[w].end /\ p.validity = worker[w].validity
         /\ \/ m = "none" /\ p.pc = "flag"
            \/ p.pc = "flag" /\ p.flag = "flagged"
            \/ p.pc = "save" /\ m \in Messages /\ p.message = m
  <2>1. CASE m = "none" /\ worker' = [worker EXCEPT ![w] = [worker[w] EXCEPT !.pc = "flag",
                                                                           !.flag = "seen"]]
    <3> DEFINE p == [worker[w] EXCEPT !.pc = "flag", !.flag = "seen"]
    <3>1. /\ p \in Poll /\ p.uids = worker[w].uids /\ p.end = worker[w].end
          /\ p.validity = worker[w].validity /\ p.pc = "flag"
      BY <1>0 DEF Poll
    <3> HIDE DEF m
    <3> QED
      BY <2>1, <3>1
  <2>2. CASE m \in Messages /\ worker' = [worker EXCEPT ![w] =
                 [worker[w] EXCEPT !.pc = "flag", !.flag = "flagged"]]
    <3> DEFINE p == [worker[w] EXCEPT !.pc = "flag", !.flag = "flagged"]
    <3>1. /\ p \in Poll /\ p.uids = worker[w].uids /\ p.end = worker[w].end
          /\ p.validity = worker[w].validity /\ p.pc = "flag" /\ p.flag = "flagged"
      BY <1>0 DEF Poll
    <3> HIDE DEF m
    <3> QED
      BY <2>2, <3>1
  <2>3. CASE m \in Messages /\ worker' = [worker EXCEPT ![w] =
                 [worker[w] EXCEPT !.pc = "save", !.message = m]]
    <3> HIDE DEF m
    <3> DEFINE p == [worker[w] EXCEPT !.pc = "save", !.message = m]
    <3>1. /\ p \in Poll /\ p.uids = worker[w].uids /\ p.end = worker[w].end
          /\ p.validity = worker[w].validity /\ p.pc = "save" /\ p.message = m
      BY <1>0, <2>3 DEF Poll
    <3> QED
      BY <2>3, <3>1
  <2> QED
    BY <2>1, <2>2, <2>3 DEF Fetch
<1>3. PICK p \in Poll :
         /\ worker' = [worker EXCEPT ![w] = p]
         /\ p.uids = worker[w].uids /\ p.end = worker[w].end /\ p.validity = worker[w].validity
         /\ \/ m = "none" /\ p.pc = "flag"
            \/ p.pc = "flag" /\ p.flag = "flagged"
            \/ p.pc = "save" /\ m \in Messages /\ p.message = m
  BY <1>2
<1>4. worker'[w] = p
  BY <1>0, <1>3 DEF TypeOK
<1>5. MailGoesOn
  <2>1. next' >= next
    BY <1>0, Numbers
  <2> QED
    BY <1>0, <2>1 DEF MailGoesOn, Handled
<1>6. TypeOK'
  BY <1>0, <1>3 DEF TypeOK, boxVars, ticketVars
<1>7. Current(w)' = Current(w)
  BY <1>3, <1>4 DEF Current
<1>8. m = "none" => \A u \in Uid : u = Current(w) => Handled(u)'
  BY <1>0 DEF Handled
<1>9. PollInv(w)'
  <2>1. worker'[w].pc = "save" => worker'[w].message \in Messages
    BY <1>3, <1>4
  <2>2. worker'[w].pc = "save" => box'[Current(w)] \in {"none", worker'[w].message}
    BY <1>0, <1>3, <1>4
  <2>3. worker'[w].pc = "flag" =>
           worker'[w].flag = "flagged" \/ \A u \in Uid : u = Current(w) => Handled(u)'
    BY <1>3, <1>4, <1>8
  <2>4. Holds(w)' /\ worker'[w].pc # "advance"
    BY <1>3, <1>4 DEF Holds
  <2> HIDE DEF m
  <2> QED
    BY <1>0, <1>3, <1>4, <1>5, <1>6, <2>1, <2>2, <2>3, <2>4, SameUid
<1> QED
  BY <1>0, <1>3, <1>9, OnlyPoll

\* A reply is saved: the request goes with the comment, and what was found
\* saved before left its comment then.
LEMMA SaveMail == ASSUME MailInv, NEW w \in Workers, SaveReply(w) PROVE MailInv'
<1>0. TypeOK /\ PollInv(w) /\ worker[w] \in Poll /\ Holds(w)
      /\ UNCHANGED <<validity, box, next, flags, access, cursor, faults>>
      /\ worker[w].pc = "save"
  BY DEF MailInv, TypeOK, SaveReply, boxVars, Holds
<1>1. PICK m \in Messages : m = worker[w].message /\ Save(w, m)
  BY DEF SaveReply
<1> DEFINE t == TicketOf[m]
           k == KeyOf[m]
           known == Replayed(t, k, m)
           refused == access[t] # "granted" \/ (~known /\ Conflicting(t, k, m))
           saved == ~refused /\ ~known
           p == [worker[w] EXCEPT !.pc = "flag", !.message = "none",
                                  !.flag = IF refused THEN "flagged" ELSE "seen"]
<1>2. /\ requests' = IF saved THEN requests \cup {<<t, k, m>>} ELSE requests
      /\ comments' = IF saved THEN [comments EXCEPT ![m] = @ + 1] ELSE comments
      /\ closed' = IF refused THEN closed ELSE Reopened(t, saved)
      /\ worker' = [worker EXCEPT ![w] = p]
  BY <1>1 DEF Save
<1>3. t \in Tickets /\ k \in Keys
  BY EmailRepliesAssumption
<1>4. known => comments[m] > 0
  BY DEF Replayed, MailInv
<1>5. comments \in [Messages -> Nat] /\ requests \subseteq Tickets \X Keys \X Messages
  BY <1>0 DEF TypeOK
<1> HIDE DEF known
<1>5a. refused \in BOOLEAN
  OBVIOUS
<1> HIDE DEF refused
<1>6. /\ p \in Poll /\ p.uids = worker[w].uids /\ p.end = worker[w].end
      /\ p.validity = worker[w].validity /\ p.pc = "flag"
      /\ p.flag = IF refused THEN "flagged" ELSE "seen"
  BY <1>0 DEF Poll
<1> HIDE DEF p, t, k
<1>7. \A n \in Messages : comments'[n] \in Nat /\ comments'[n] >= comments[n]
  <2>1. CASE saved
    BY <1>2, <1>5, <2>1
  <2>2. CASE ~saved
    BY <1>2, <1>5, <2>2
  <2> QED
    BY <2>1, <2>2
<1>8. ~refused => comments'[m] > 0
  <2>1. CASE saved
    BY <1>2, <1>5, <2>1
  <2>2. CASE known
    BY <1>2, <1>4, <1>5, <2>2
  <2> QED
    BY <2>1, <2>2
<1>9. TypeOK'
  <2>1. comments' \in [Messages -> Nat]
    BY <1>2, <1>5
  <2>2. requests' \subseteq Tickets \X Keys \X Messages
    BY <1>2, <1>3, <1>5
  <2>3. closed' \in SUBSET Tickets
    BY <1>0, <1>2 DEF TypeOK, Reopened
  <2>4. worker' \in [Workers -> Poll]
    BY <1>0, <1>2, <1>6 DEF TypeOK
  <2> QED
    BY <1>0, <2>1, <2>2, <2>3, <2>4 DEF TypeOK
<1>10. worker'[w] = p /\ \A v \in Workers : v # w => worker'[v] = worker[v]
  BY <1>0, <1>2 DEF TypeOK
<1>11. MailGoesOn
  <2>1. next' >= next
    BY <1>0, Numbers
  <2>2. ASSUME NEW u \in Uid, Handled(u) PROVE Handled(u)'
    <3>1. box[u] \in Messages \cup {"none"}
      BY <1>0 DEF TypeOK
    <3>2. CASE box[u] \in Messages /\ comments[box[u]] > 0
      <4>1. /\ comments'[box[u]] >= comments[box[u]]
            /\ comments'[box[u]] \in Nat /\ comments[box[u]] \in Nat
        BY <1>5, <1>7, <3>2
      <4>2. comments'[box[u]] > 0
        BY <3>2, <4>1
      <4> QED
        BY <1>0, <4>2 DEF Handled
    <3>3. CASE box[u] = "none" \/ "flagged" \in flags[u]
      BY <1>0, <3>3 DEF Handled
    <3> QED
      BY <2>2, <3>1, <3>2, <3>3 DEF Handled
  <2> QED
    BY <1>0, <2>1, <2>2 DEF MailGoesOn
<1>12. ASSUME NEW r \in requests' PROVE comments'[r[3]] > 0
  <2>1. CASE r \in requests
    <3>1. r[3] \in Messages /\ comments[r[3]] > 0
      BY <1>5, <2>1 DEF MailInv
    <3>2. comments'[r[3]] >= comments[r[3]] /\ comments'[r[3]] \in Nat /\ comments[r[3]] \in Nat
      BY <1>5, <1>7, <3>1
    <3> QED
      BY <3>1, <3>2
  <2>2. CASE saved /\ r = <<t, k, m>>
    BY <1>8, <2>2
  <2> QED
    BY <1>2, <1>12, <2>1, <2>2
<1>13. PollInv(w)'
  <2>1. ASSUME Active(w)', ~refused, NEW u \in Uid, u = Current(w) PROVE Handled(u)'
    <3>1. TakenCare(w)
      BY <1>0, <1>6, <1>10, <2>1 DEF Active, PollInv
    <3>2. box[u] \in {"none", m}
      BY <1>0, <1>1, <2>1, <3>1 DEF TakenCare
    <3> QED
      BY <1>0, <1>8, <2>1, <3>2 DEF Handled
  <2>2. Holds(w)' /\ worker'[w].pc = "flag"
    BY <1>6, <1>10 DEF Holds
  <2> QED
    BY <1>0, <1>6, <1>9, <1>10, <1>11, <2>1, <2>2, SameUid
<1>14. \A u \in Uid : u >= next' => box'[u] = "none"
  BY <1>0 DEF MailInv
<1> QED
  BY <1>0, <1>9, <1>10, <1>11, <1>12, <1>13, <1>14, MailKept

LEMMA FlagMail == ASSUME MailInv, NEW w \in Workers, Flag(w) PROVE MailInv'
<1> DEFINE c == Current(w)
           p == [worker[w] EXCEPT !.pc = "advance"]
<1>0. TypeOK /\ PollInv(w) /\ worker[w] \in Poll /\ Holds(w)
      /\ UNCHANGED <<validity, box, next, access, closed, requests, comments, cursor, faults>>
      /\ worker[w].pc = "flag" /\ Connected(w)
      /\ worker' = [worker EXCEPT ![w] = p]
      /\ flags' = IF box[c] = "none" THEN flags
                  ELSE [flags EXCEPT ![c] = @ \cup {worker[w].flag}]
  BY DEF MailInv, TypeOK, Flag, Goto, ticketVars, Holds
<1>1. c \in Uid
  BY <1>0, CurrentUid DEF PollInv
<1>2. worker[w].flag \in {"seen", "flagged"}
  BY <1>0 DEF Poll
<1>3. /\ p \in Poll /\ p.uids = worker[w].uids /\ p.end = worker[w].end
      /\ p.validity = worker[w].validity /\ p.pc = "advance"
  BY <1>0 DEF Poll
<1>3a. TakenCare(w)
  BY <1>0 DEF Active, Connected, PollInv
<1>3b. worker[w].flag = "flagged" \/ Handled(c)
  BY <1>0, <1>3a DEF TakenCare
<1> HIDE DEF c, p
<1>4. worker'[w] = p /\ \A v \in Workers : v # w => worker'[v] = worker[v]
  BY <1>0 DEF TypeOK
<1>5. /\ flags' \in [Uid -> SUBSET {"seen", "flagged"}]
      /\ \A u \in Uid : flags[u] \subseteq flags'[u]
      /\ box[c] = "none" \/ worker[w].flag \in flags'[c]
  <2>1. flags \in [Uid -> SUBSET {"seen", "flagged"}]
    BY <1>0 DEF TypeOK
  <2> QED
    BY <1>0, <1>1, <1>2, <2>1
<1>6. TypeOK'
  <2>1. worker' \in [Workers -> Poll]
    BY <1>0, <1>3 DEF TypeOK
  <2> QED
    BY <1>0, <1>5, <2>1 DEF TypeOK
<1>7. MailGoesOn
  <2>1. next' >= next
    BY <1>0, Numbers
  <2> QED
    BY <1>0, <1>5, <2>1 DEF MailGoesOn, Handled
<1>9. PollInv(w)'
  <2>1. Holds(w)' /\ worker'[w].pc = "advance"
    BY <1>3, <1>4 DEF Holds
  <2>2. \A u \in Uid : u = Current(w) => Handled(u)'
    <3>1. ASSUME NEW u \in Uid, u = Current(w) PROVE Handled(u)'
      <4>1. box[u] = "none" \/ "flagged" \in flags'[u] \/ comments[box[u]] > 0
        BY <1>3b, <1>5, <3>1 DEF c, Handled
      <4> QED
        BY <1>0, <4>1 DEF Handled
    <3> QED
      BY <3>1
  <2> QED
    BY <1>0, <1>3, <1>4, <1>6, <1>7, <2>1, <2>2, SameUid
<1>10. \A u \in Uid : u >= next' => box'[u] = "none"
  BY <1>0 DEF MailInv
<1>11. \A r \in requests' : comments'[r[3]] > 0
  BY <1>0 DEF MailInv
<1> QED
  BY <1>0, <1>4, <1>6, <1>7, <1>9, <1>10, <1>11, MailKept

-----------------------------------------------------------------------------
(* The cursor moves over what was taken care of.                           *)

LEMMA CursorMoves ==
    ASSUME MailInv, NEW w \in Workers, NEW v \in 1..validity, NEW last \in 0..MaxUid,
           cursor' = Advanced(v, last),
           UNCHANGED <<boxVars, ticketVars, faults>>,
           NEW p \in Poll, worker' = [worker EXCEPT ![w] = p], PollInv(w)',
           v = validity => last < next /\ \A u \in 1..last : Handled(u)
    PROVE  MailInv'
<1>0. TypeOK /\ UNCHANGED <<validity, box, next, flags, comments, requests, closed, access, faults>>
      /\ validity \in Nat /\ validity <= MaxValidity /\ MaxUid \in Nat /\ MaxValidity \in Nat
  BY Numbers, EmailRepliesAssumption DEF MailInv, boxVars, ticketVars, TypeOK
<1>1. /\ cursor'.validity = v
      /\ cursor'.last \in {last, cursor.last}
      /\ cursor'.last = cursor.last /\ cursor.last # last => cursor.validity = v
      /\ cursor' \in [validity : 0..MaxValidity, last : 0..MaxUid]
  <2>1. cursor.last \in 0..MaxUid /\ v \in 0..MaxValidity
    BY <1>0, Numbers
  <2>2. cursor' = [validity |-> v, last |-> IF cursor.validity = v /\ cursor.last > last
                                            THEN cursor.last ELSE last]
    BY DEF Advanced
  <2> QED
    BY <2>1, <2>2
<1>2. TypeOK'
  BY <1>0, <1>1 DEF TypeOK
<1>3. MailGoesOn
  <2>1. next' >= next
    BY <1>0, Numbers
  <2> QED
    BY <1>0, <2>1 DEF MailGoesOn, Handled
<1>4. \A x \in Workers : PollInv(x)'
  <2>1. \A x \in Workers : x # w => worker'[x] = worker[x]
    BY <1>0 DEF TypeOK
  <2> QED
    BY <1>2, <1>3, <2>1, PollKept
<1>5. ASSUME cursor'.validity = validity'
      PROVE  cursor'.last < next' /\ \A u \in 1..cursor'.last : Handled(u)'
  <2>1. v = validity
    BY <1>0, <1>1, <1>5
  <2>2. cursor'.last < next /\ \A u \in 1..cursor'.last : Handled(u)
    <3>1. CASE cursor'.last = last
      BY <2>1, <3>1
    <3>2. CASE cursor'.last # last
      BY <1>1, <2>1, <3>2 DEF MailInv
    <3> QED
      BY <3>1, <3>2
  <2> QED
    BY <1>0, <2>2 DEF Handled
<1>6. cursor'.validity <= validity'
  BY <1>0, <1>1
<1>7. /\ \A u \in Uid : u >= next' => box'[u] = "none"
      /\ \A r \in requests' : comments'[r[3]] > 0
  BY <1>0 DEF MailInv
<1> QED
  BY <1>2, <1>4, <1>5, <1>6, <1>7 DEF MailInv

LEMMA FinishMail == ASSUME MailInv, NEW w \in Workers, Finish(w) PROVE MailInv'
<1>0. TypeOK /\ PollInv(w) /\ worker[w] \in Poll /\ worker[w].pc = "finish"
      /\ cursor' = Advanced(worker[w].validity, worker[w].end)
      /\ worker' = [worker EXCEPT ![w] = Idle]
      /\ UNCHANGED <<boxVars, ticketVars, faults>>
  BY DEF MailInv, TypeOK, Finish
<1>1. worker[w].validity \in 1..validity /\ worker[w].end \in 0..MaxUid
  BY <1>0, PollNumbers DEF PollInv, Ordered
<1>2. worker'[w] = Idle
  BY <1>0 DEF TypeOK
<1>3. PollInv(w)' /\ Idle \in Poll
  BY <1>2, IdlePoll
<1>4. ASSUME worker[w].validity = validity
      PROVE  worker[w].end < next /\ \A u \in 1..worker[w].end : Handled(u)
  <2>1. TakenCare(w)
    BY <1>0, <1>4 DEF PollInv, Active
  <2>2. Len(worker[w].uids) = 0
    <3>1. worker[w].uids = <<>>
      BY <1>0 DEF PollInv, Ordered, Holds
    <3> QED
      BY <3>1, EmptySeq
  <2> QED
    BY <1>0, <2>1, <2>2 DEF TakenCare
<1> QED
  BY <1>0, <1>1, <1>3, <1>4, CursorMoves

LEMMA AdvanceMail == ASSUME MailInv, NEW w \in Workers, Advance(w) PROVE MailInv'
<1> DEFINE q == worker[w]
           rest == Tail(q.uids)
           pc == IF rest = <<>> THEN "finish" ELSE "fetch"
           p == [q EXCEPT !.pc = pc, !.uids = rest, !.flag = "seen"]
<1>0. /\ TypeOK /\ PollInv(w) /\ q \in Poll /\ q.pc = "advance" /\ Holds(w)
      /\ cursor' = Advanced(q.validity, Current(w))
      /\ worker' = [worker EXCEPT ![w] = p]
      /\ UNCHANGED <<boxVars, ticketVars, faults>>
      /\ UNCHANGED <<validity, next, box, flags, comments>>
  BY DEF MailInv, TypeOK, Advance, boxVars, ticketVars, Holds
<1>1. Ordered(w) /\ Current(w) \in Uid /\ Current(w) = q.uids[1] /\ 1 \in 1..Len(q.uids)
      /\ Current(w) <= q.end
  BY <1>0, CurrentUid DEF PollInv
<1>2. q.uids \in Seq(Uid) /\ q.uids # <<>> /\ Len(q.uids) \in Nat /\ q.end \in 0..MaxUid
      /\ \A i \in 1..Len(q.uids) : q.uids[i] \in Uid
  BY <1>0, <1>1, PollNumbers DEF Ordered
<1>3. rest \in Seq(Uid) /\ Len(rest) = Len(q.uids) - 1
      /\ \A i \in 1..Len(rest) : i + 1 \in 1..Len(q.uids) /\ rest[i] = q.uids[i + 1]
  <2>1. /\ rest \in Seq(Uid) /\ Len(rest) = Len(q.uids) - 1
        /\ \A i \in 1..Len(rest) : rest[i] = q.uids[i + 1]
    BY <1>2, HeadTailProperties
  <2> QED
    BY <1>2, <2>1
<1>4. pc \in {"finish", "fetch"} /\ (pc = "fetch" <=> rest # <<>>)
  OBVIOUS
<1> HIDE DEF rest, pc
<1>3a. Len(rest) \in Nat /\ (rest = <<>> => Len(rest) = 0)
  <2>1. rest \in Seq(Uid)
    BY <1>3
  <2>2. Len(rest) \in Nat
    BY <2>1, LenProperties
  <2> QED
    BY <2>1, <2>2, EmptySeq
<1>5. /\ p.pc = pc /\ p.uids = rest /\ p.end = q.end /\ p.validity = q.validity /\ p \in Poll
  <2>1. q \in Poll
    BY <1>0
  <2> HIDE DEF q
  <2> QED
    BY <1>3, <1>4, <2>1 DEF Poll
<1>6. worker'[w] = p
  BY <1>0 DEF TypeOK
<1> HIDE DEF p
<1>7. /\ \A i \in 1..Len(rest) : rest[i] <= q.end
      /\ \A i, j \in 1..Len(rest) : i < j => rest[i] < rest[j]
  <2>1. ASSUME NEW i \in 1..Len(rest), NEW j \in 1..Len(rest), i < j PROVE rest[i] < rest[j]
    <3>1. i + 1 < j + 1
      BY <1>3a, <2>1
    <3> QED
      BY <1>1, <1>3, <3>1 DEF Ordered
  <2> QED
    BY <1>1, <1>3, <2>1 DEF Ordered
<1>8. Ordered(w)'
  BY <1>0, <1>1, <1>3a, <1>4, <1>5, <1>6, <1>7 DEF Ordered, Holds
<1>9. ASSUME Active(w)
      PROVE  /\ q.end < next /\ Current(w) < next
             /\ \A u \in 1..Current(w) : Handled(u)
             /\ \A u \in 1..q.end : Handled(u) \/ \E i \in 1..Len(rest) : rest[i] = u
  <2>1. /\ q.end < next /\ Handled(Current(w))
        /\ \A u \in 1..q.end : Handled(u) \/ \E i \in 1..Len(q.uids) : q.uids[i] = u
    BY <1>0, <1>9 DEF PollInv, TakenCare
  <2>2. ASSUME NEW i \in 1..Len(q.uids)
        PROVE  \/ i = 1
               \/ Current(w) < q.uids[i] /\ \E k \in 1..Len(rest) : rest[k] = q.uids[i]
    <3>1. CASE i # 1
      <4>1. i - 1 \in 1..Len(rest) /\ i - 1 + 1 = i /\ 1 < i
        BY <1>2, <1>3, <3>1
      <4>2. rest[i - 1] = q.uids[i]
        BY <1>3, <4>1
      <4>3. Current(w) < q.uids[i]
        BY <1>1, <4>1 DEF Ordered
      <4> QED
        BY <4>1, <4>2, <4>3
    <3> QED
      BY <3>1
  <2>3. Current(w) \in Nat /\ next \in Nat /\ q.end \in Nat /\ Current(w) < next
    <3>1. Current(w) \in Nat /\ next \in Nat
      BY <1>0, <1>1, Numbers
    <3>2. MaxUid \in Nat /\ q.end \in 0..MaxUid
      BY <1>2, EmailRepliesAssumption
    <3>3. q.end \in Nat
      BY <3>2
    <3>4. Current(w) <= q.end /\ q.end < next
      BY <1>1, <2>1
    <3> HIDE DEF q
    <3> QED
      BY <3>1, <3>3, <3>4
  <2>4. ASSUME NEW u \in 1..Current(w) PROVE Handled(u)
    <3>1. u \in 1..q.end /\ ~(Current(w) < u)
      BY <1>1, <2>3
    <3>2. CASE Handled(u)
      BY <3>2
    <3>3. CASE \E i \in 1..Len(q.uids) : q.uids[i] = u
      <4>1. PICK i \in 1..Len(q.uids) : q.uids[i] = u
        BY <3>3
      <4>2. i = 1
        BY <2>2, <3>1, <4>1
      <4> QED
        BY <1>1, <2>1, <4>1, <4>2
    <3> QED
      BY <2>1, <3>1, <3>2, <3>3
  <2>5. ASSUME NEW u \in 1..q.end PROVE Handled(u) \/ \E i \in 1..Len(rest) : rest[i] = u
    <3>1. CASE \E i \in 1..Len(q.uids) : q.uids[i] = u
      <4>1. PICK i \in 1..Len(q.uids) : q.uids[i] = u
        BY <3>1
      <4>2. CASE i = 1
        BY <1>1, <2>1, <4>1, <4>2
      <4>3. CASE i # 1
        BY <2>2, <4>1, <4>3
      <4> QED
        BY <4>2, <4>3
    <3> QED
      BY <2>1, <3>1
  <2> QED
    BY <2>1, <2>3, <2>4, <2>5
<1>10. ASSUME Active(w)' PROVE TakenCare(w)'
  <2>1. Active(w)
    BY <1>0, <1>5, <1>6, <1>10 DEF Active
  <2>2. \A u \in 1..q.end : Handled(u)' \/ \E i \in 1..Len(rest) : rest[i] = u
    BY <1>0, <1>9, <2>1 DEF Handled
  <2> QED
    BY <1>0, <1>4, <1>5, <1>6, <1>9, <2>1, <2>2 DEF TakenCare, Holds
<1>11. q.validity \in 1..validity /\ Current(w) \in 0..MaxUid
  <2>1. MaxUid \in Nat
    BY EmailRepliesAssumption
  <2> QED
    BY <1>0, <1>1, <2>1 DEF Ordered, Uid
<1>12. q.validity = validity => Current(w) < next /\ \A u \in 1..Current(w) : Handled(u)
  BY <1>0, <1>9 DEF Active
<1>13. PollInv(w)'
  BY <1>8, <1>10 DEF PollInv
<1>14. PICK v \in 1..validity, last \in 0..MaxUid : v = q.validity /\ last = Current(w)
  BY <1>11
<1>15. /\ cursor' = Advanced(v, last)
       /\ v = validity => last < next /\ \A u \in 1..last : Handled(u)
  BY <1>0, <1>12, <1>14
<1> QED
  BY <1>0, <1>5, <1>13, <1>15, CursorMoves

LEMMA InitMail == Init => MailInv
<1>1. ASSUME Init PROVE MailInv
  <2>1. Idle \in Poll /\ Idle.pc = "idle" /\ Idle.uids = <<>> /\ Len(<<>>) = 0
    BY IdlePoll, EmptySeq DEF Idle
  <2>2. TypeOK
    BY <1>1, <2>1, EmailRepliesAssumption DEF Init, TypeOK
  <2>3. \A w \in Workers : PollInv(w)
    BY <1>1, <2>1 DEF Init, PollInv, Ordered, Active, Holds
  <2> QED
    BY <1>1, <2>2, <2>3 DEF Init, MailInv
<1> QED
  BY <1>1

LEMMA MailStep == MailInv /\ [Next]_vars => MailInv'
<1>1. ASSUME MailInv, Mailbox PROVE MailInv'
  BY <1>1, ArriveMail, ByHandMail, RenumberMail DEF Mailbox
<1>2. ASSUME MailInv, NEW w \in Workers, ProcessMailbox(w) \/ Fail(w) PROVE MailInv'
  <2>1. CASE Select(w)
    BY <1>2, <2>1, SelectMail
  <2>2. CASE ReadCursor(w)
    BY <1>2, <2>2, ReadCursorMail
  <2>3. CASE Search(w)
    BY <1>2, <2>3, SearchMail
  <2>4. CASE Fetch(w)
    BY <1>2, <2>4, FetchMail
  <2>5. CASE SaveReply(w)
    BY <1>2, <2>5, SaveMail
  <2>6. CASE Flag(w)
    BY <1>2, <2>6, FlagMail
  <2>7. CASE Advance(w)
    BY <1>2, <2>7, AdvanceMail
  <2>8. CASE Finish(w)
    BY <1>2, <2>8, FinishMail
  <2>9. CASE Fail(w) \/ Disconnect(w)
    BY <1>2, <2>9, StopsMail
  <2> QED
    BY <1>2, <2>1, <2>2, <2>3, <2>4, <2>5, <2>6, <2>7, <2>8, <2>9 DEF ProcessMailbox
<1>3. ASSUME MailInv, UNCHANGED vars PROVE MailInv'
  BY <1>3 DEF vars, boxVars, ticketVars, MailInv, TypeOK, PollInv, Ordered, TakenCare,
              Active, Holds, Handled, Current
<1> QED
  BY <1>1, <1>2, <1>3, HandlersMail DEF Next

LEMMA MailInvariance == Spec => []MailInv
  BY InitMail, MailStep, PTL DEF Spec

\* Every state of the mailbox, the tickets and the polls is well formed.
THEOREM TypeCorrect == Spec => []TypeOK
<1>1. MailInv => TypeOK
  BY DEF MailInv
<1> QED
  BY <1>1, MailInvariance, PTL

\* The cursor passes no message, however many polls there are, wherever they
\* stop, and whatever happens to the mailbox meanwhile.
THEOREM NothingIsSkipped == Spec => []NothingSkipped
<1>1. MailInv => NothingSkipped
  <2>1. ASSUME MailInv, NEW u \in Uid, box[u] # "none", Covers(u)
        PROVE  "flagged" \in flags[u] \/ comments[box[u]] > 0
    <3>1. u \in 1..cursor.last
      BY <2>1, Numbers DEF MailInv, Covers
    <3>2. Handled(u)
      BY <2>1, <3>1 DEF MailInv, Covers
    <3> QED
      BY <2>1, <3>2 DEF Handled
  <2> QED
    BY <2>1 DEF NothingSkipped
<1> QED
  BY <1>1, MailInvariance, PTL
=============================================================================
