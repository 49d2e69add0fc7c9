-------------------------- MODULE EmailOutboxProofs -------------------------
(***************************************************************************)
(* Proofs about EmailOutbox for every number of accounts, mails and        *)
(* workers, and every bound: the types, what is left of the mail of an     *)
(* account that was disabled, how often a mail is accepted, and, for one   *)
(* worker, what becomes of the last mail.                                  *)
(*                                                                         *)
(* TypeOK is inductive once a busy worker is known to have a mail in hand, *)
(* and NothingNewForDisabled beside it: each step that makes mail pending  *)
(* either looks at the account, or counts an attempt, or is a retry.       *)
(*                                                                         *)
(* AcceptedOnce counts who may still have the server accept a mail: the    *)
(* workers that have it in hand and have not sent it, and the one that may *)
(* take it up.  Every step loses such a right, passes it on, uses it, or   *)
(* pays for a new one with a fault.                                        *)
(*                                                                         *)
(* NewestIsKept needs a lone worker: only then is a row what the worker's  *)
(* copy says, so that neither a rewrite nor a mark of its own comes        *)
(* between the claim and the mark.                                         *)
(***************************************************************************)
EXTENDS EmailOutbox, TLAPS, SequenceTheorems, FiniteSetTheorems

\* A worker that is busy has a mail in hand.
Busy == \A w \in Workers : worker[w].pc # "idle" => worker[w].batch # <<>>

Inv == TypeOK /\ Busy /\ NothingNewForDisabled

-----------------------------------------------------------------------------
(* Facts about batches and rows.                                           *)

\* A batch that is not empty has a first mail, and others after it.
LEMMA BatchInHand ==
    ASSUME NEW s \in Seq(Copy), s # <<>>
    PROVE  Head(s) \in Copy /\ Tail(s) \in Seq(Copy) /\ (Len(s) # 1 => Tail(s) # <<>>)
<1>1. Len(s) \in Nat \ {0} /\ Len(<<>>) = 0
  BY EmptySeq
<1>2. Head(s) \in Copy
  BY HeadTailProperties, ElementOfSeq, <1>1
<1>3. Tail(s) \in Seq(Copy) /\ Len(Tail(s)) = Len(s) - 1
  BY HeadTailProperties
<1>4. ASSUME Tail(s) = <<>> PROVE Len(s) = 1
  <2>1. Len(Tail(s)) = 0
    BY <1>1, <1>4, Zenon
  <2>2. Len(s) - 1 = 0
    BY <1>3, <2>1, Zenon
  <2> QED
    BY <1>1, <2>2
<1> QED
  BY <1>2, <1>3, <1>4

\* An idle worker holds nothing, and one that takes a batch holds that.
LEMMA HoldingIsState ==
    /\ Idle \in WorkerState /\ Idle.pc = "idle"
    /\ \A batch \in Seq(Copy) : /\ Holding("send", batch) \in WorkerState
                               /\ Holding("send", batch).batch = batch
<1>1. <<>> \in Seq(Copy)
  OBVIOUS
<1> QED
  BY <1>1 DEF Idle, Holding, WorkerState

LEMMA NoMailIsRow == NoMail \in MailRow /\ NoMail.status = "none"
<1>1. (CHOOSE t \in Topics : TRUE) \in Topics
  BY EmailOutboxAssumption
<1>2. 0 \in Version
  BY EmailOutboxAssumption DEF Version
<1> QED
  BY <1>1, <1>2 DEF NoMail, MailRow, MailStatus

\* The mail in hand is one.
LEMMA CurrentIsCopy ==
    ASSUME TypeOK, Busy, NEW w \in Workers, worker[w].pc # "idle"
    PROVE  Current(w) \in Copy /\ Current(w).id \in MailId /\ Current(w).payload \in Version
<1>1. worker[w].batch \in Seq(Copy) /\ worker[w].batch # <<>>
  BY DEF TypeOK, Busy, WorkerState
<1> QED
  BY <1>1, BatchInHand DEF Current, Copy

\* Going on with the batch leaves every worker with what it should have.
LEMMA GoesOn ==
    ASSUME TypeOK, Busy, NEW w \in Workers, worker[w].pc # "idle", NextInBatch(w)
    PROVE  worker' \in [Workers -> WorkerState] /\ Busy'
<1> DEFINE b == worker[w].batch
           s == IF Len(b) = 1 THEN Idle ELSE Holding("send", Tail(b))
<1>1. b \in Seq(Copy) /\ b # <<>>
  BY DEF TypeOK, Busy, WorkerState
<1>2. s \in WorkerState /\ (s.pc # "idle" => s.batch # <<>>)
  BY <1>1, BatchInHand, HoldingIsState
<1>3. worker' = [worker EXCEPT ![w] = s]
  BY DEF NextInBatch
<1> HIDE DEF s
<1> QED
  BY <1>2, <1>3 DEF TypeOK, Busy

\* A worker that ends its pass.
LEMMA Ends ==
    ASSUME TypeOK, Busy, NEW w \in Workers, worker' = [worker EXCEPT ![w] = Idle]
    PROVE  worker' \in [Workers -> WorkerState] /\ Busy'
  BY HoldingIsState DEF TypeOK, Busy

\* A worker whose mail in hand stays the same.
LEMMA StaysBusy ==
    ASSUME TypeOK, Busy, NEW w \in Workers, worker[w].pc # "idle",
           NEW pc \in {"sent", "read", "write"}, NEW seen \in Nat,
           worker' = [worker EXCEPT ![w] = [worker[w] EXCEPT !.pc = pc, !.seen = seen]]
    PROVE  worker' \in [Workers -> WorkerState] /\ Busy'
<1>1. worker[w] \in WorkerState
  BY DEF TypeOK
<1>2. [worker[w] EXCEPT !.pc = pc, !.seen = seen] \in WorkerState
  BY <1>1 DEF WorkerState
<1>3. [worker[w] EXCEPT !.pc = pc, !.seen = seen].batch = worker[w].batch
  BY <1>1 DEF WorkerState
<1> DEFINE s == [worker[w] EXCEPT !.pc = pc, !.seen = seen]
<1> HIDE DEF s
<1> QED
  BY <1>2, <1>3 DEF TypeOK, Busy, s

\* Rows stay rows when their marks change.
LEMMA RowsChange ==
    ASSUME NEW r \in MailRow
    PROVE  /\ Withdrawn(r) \in MailRow /\ [r EXCEPT !.user = NoUser] \in MailRow
           /\ Retried(r) \in MailRow /\ Taken(r) \in MailRow
           /\ [r EXCEPT !.status = "sent", !.leased = FALSE] \in MailRow
           /\ [r EXCEPT !.leased = FALSE] \in MailRow /\ [r EXCEPT !.due = TRUE] \in MailRow
           /\ \A seen \in Nat : Failed(r, seen) \in MailRow
           /\ version + 1 \in Version => \A due \in BOOLEAN : Rewritten(r, due) \in MailRow
<1> USE DEF MailRow, MailStatus
<1>1. Withdrawn(r) \in MailRow /\ [r EXCEPT !.user = NoUser] \in MailRow
  BY DEF Withdrawn
<1>2. Retried(r) \in MailRow /\ Taken(r) \in MailRow
  BY DEF Retried, Taken
<1>3. /\ [r EXCEPT !.status = "sent", !.leased = FALSE] \in MailRow
      /\ [r EXCEPT !.leased = FALSE] \in MailRow /\ [r EXCEPT !.due = TRUE] \in MailRow
  OBVIOUS
<1>4. ASSUME NEW seen \in Nat PROVE Failed(r, seen) \in MailRow
  <2> DEFINE last == seen + 1 >= MaxAttempts
             next == seen + 1
  <2>1. last \in BOOLEAN /\ next \in Nat
    BY EmailOutboxAssumption
  <2>2. Failed(r, seen) = [r EXCEPT !.status = IF last THEN "failed" ELSE "pending",
                                   !.attempts = next, !.due = last, !.leased = FALSE]
    BY DEF Failed
  <2> HIDE DEF last, next
  <2>3. "failed" \in MailStatus /\ "pending" \in MailStatus
    OBVIOUS
  <2> QED
    BY <2>1, <2>2, <2>3
<1>5. version + 1 \in Version => \A due \in BOOLEAN : Rewritten(r, due) \in MailRow
  BY DEF Rewritten
<1> QED
  BY <1>1, <1>2, <1>3, <1>4, <1>5

-----------------------------------------------------------------------------
(* One lemma for each action.                                              *)

\* Whatever is pending for the account is withdrawn.
LEMMA DisableUserInv == ASSUME Inv, NEW u \in Users, DisableUser(u) PROVE Inv'
<1> USE DEF Inv
<1>1. worker' = worker /\ worker' \in [Workers -> WorkerState] /\ Busy'
  BY DEF DisableUser, TypeOK, Busy
<1>2. TypeOK'
  <2>1. mail' \in [MailId -> MailRow] /\ user' \in [Users -> {"active", "disabled", "deleted"}]
    BY RowsChange DEF DisableUser, CancelPending, TypeOK
  <2>2. newest' \in [Users -> [Topics -> Version]]
    BY EmailOutboxAssumption DEF DisableUser, Forget, TypeOK, Version
  <2> QED
    BY <1>1, <2>1, <2>2 DEF DisableUser, wireVars, TypeOK
<1>3. NothingNewForDisabled'
  <2>1. ASSUME NEW n \in MailId, mail'[n].status = "pending"
        PROVE  mail'[n] = mail[n] /\ n \notin PendingOf(u)
    <3>1. /\ mail[n] \in MailRow
          /\ mail'[n] = IF n \in PendingOf(u) THEN Withdrawn(mail[n]) ELSE mail[n]
      BY DEF DisableUser, CancelPending, TypeOK
    <3> QED
      BY <2>1, <3>1 DEF Withdrawn, MailRow
  <2>2. retried' = retried /\ \A v \in Users : v # u => user'[v] = user[v]
    BY DEF DisableUser, TypeOK
  <2> QED
    BY <2>1, <2>2 DEF NothingNewForDisabled, PendingOf
<1> QED
  BY <1>1, <1>2, <1>3

\* Nothing is disabled by it.
LEMMA EnableUserInv == ASSUME Inv, NEW u \in Users, EnableUser(u) PROVE Inv'
<1> USE DEF Inv
<1>1. worker' = worker /\ worker' \in [Workers -> WorkerState] /\ Busy'
  BY DEF EnableUser, TypeOK, Busy
<1>2. TypeOK'
  BY <1>1 DEF EnableUser, queueVars, wireVars, TypeOK
<1>3. NothingNewForDisabled'
  BY DEF EnableUser, TypeOK, NothingNewForDisabled
<1> QED
  BY <1>1, <1>2, <1>3

\* What is left of its mail belongs to no account.
LEMMA DeleteUserInv == ASSUME Inv, NEW u \in Users, DeleteUser(u) PROVE Inv'
<1> USE DEF Inv
<1>1. worker' = worker /\ worker' \in [Workers -> WorkerState] /\ Busy'
  BY DEF DeleteUser, TypeOK, Busy
<1>2. TypeOK'
  <2>1. mail' \in [MailId -> MailRow] /\ user' \in [Users -> {"active", "disabled", "deleted"}]
    BY RowsChange DEF DeleteUser, TypeOK
  <2>2. newest' \in [Users -> [Topics -> Version]]
    BY EmailOutboxAssumption DEF DeleteUser, Forget, TypeOK, Version
  <2> QED
    BY <1>1, <2>1, <2>2 DEF DeleteUser, wireVars, TypeOK
<1>3. NothingNewForDisabled'
  <2>1. ASSUME NEW n \in MailId, mail'[n].status = "pending"
        PROVE  mail'[n] = mail[n] \/ mail'[n].user = NoUser
    <3>1. /\ mail[n] \in MailRow
          /\ \/ mail'[n] = Withdrawn(mail[n])
             \/ mail'[n] = [mail[n] EXCEPT !.user = NoUser]
             \/ mail'[n] = mail[n]
      BY DEF DeleteUser, TypeOK
    <3> QED
      BY <2>1, <3>1 DEF Withdrawn, MailRow
  <2>2. retried' = retried /\ \A v \in Users : user'[v] = "disabled" => user[v] = "disabled"
    BY DEF DeleteUser, TypeOK
  <2> QED
    BY <2>1, <2>2, EmailOutboxAssumption DEF NothingNewForDisabled
<1> QED
  BY <1>1, <1>2, <1>3

\* Mail goes with its ticket, and nothing becomes pending.
LEMMA DeleteTicketInv == ASSUME Inv, NEW t \in Tickets, DeleteTicket(t) PROVE Inv'
<1> USE DEF Inv
<1>1. worker' = worker /\ worker' \in [Workers -> WorkerState] /\ Busy'
  BY DEF DeleteTicket, TypeOK, Busy
<1>2. TypeOK'
  <2>1. mail' \in [MailId -> MailRow] /\ live' \in SUBSET Tickets
    BY RowsChange DEF DeleteTicket, TypeOK
  <2> QED
    BY <1>1, <2>1 DEF DeleteTicket, queueVars, wireVars, TypeOK
<1>3. NothingNewForDisabled'
  <2>1. ASSUME NEW n \in MailId, mail'[n].status = "pending"
        PROVE  mail'[n] = mail[n]
    <3>1. mail[n] \in MailRow /\ (mail'[n] = Withdrawn(mail[n]) \/ mail'[n] = mail[n])
      BY DEF DeleteTicket, TypeOK
    <3> QED
      BY <2>1, <3>1 DEF Withdrawn, MailRow
  <2>2. UNCHANGED <<user, retried>>
    BY DEF DeleteTicket
  <2> QED
    BY <2>1, <2>2 DEF NothingNewForDisabled
<1> QED
  BY <1>1, <1>2, <1>3

\* A test mail has no account.
LEMMA EnqueueTestInv == ASSUME Inv, NEW event \in Events, EnqueueTest(event) PROVE Inv'
<1> USE DEF Inv
<1>1. worker' = worker /\ worker' \in [Workers -> WorkerState] /\ Busy'
  BY DEF EnqueueTest, TypeOK, Busy
<1>2. TypeOK'
  <2>1. /\ lastId + 1 \in MailId /\ lastId + 1 \in 0..MaxMails
        /\ version + 1 \in Version /\ version + 1 \in Nat
    BY EmailOutboxAssumption DEF EnqueueTest, TypeOK, MailId, Version
  <2>2. NewMail(NoUser, event, TRUE) \in MailRow
    BY <2>1 DEF NewMail, MailRow, MailStatus, Topics
  <2>3. mail' \in [MailId -> MailRow]
    BY <2>2 DEF EnqueueTest, TypeOK
  <2>4. lastId' \in 0..MaxMails /\ version' \in Version
    BY <2>1 DEF EnqueueTest
  <2>5. UNCHANGED <<user, live, retried, newest, received, sends, accepted, faults>>
    BY DEF EnqueueTest, tableVars, wireVars
  <2> QED
    BY <1>1, <2>3, <2>4, <2>5 DEF TypeOK
<1>3. NothingNewForDisabled'
  <2>1. \A n \in MailId : mail'[n] = mail[n] \/ mail'[n].user = NoUser
    BY DEF EnqueueTest, TypeOK, NewMail
  <2>2. UNCHANGED <<user, retried>>
    BY DEF EnqueueTest, tableVars
  <2> QED
    BY <2>1, <2>2, EmailOutboxAssumption DEF NothingNewForDisabled
<1> QED
  BY <1>1, <1>2, <1>3

\* A retry is counted.
LEMMA RetryInv == ASSUME Inv, NEW n \in MailId, Retry(n) PROVE Inv'
<1> USE DEF Inv
<1>1. worker' = worker /\ worker' \in [Workers -> WorkerState] /\ Busy'
  BY DEF Retry, TypeOK, Busy
<1>2. TypeOK'
  <2>1. Retried(mail[n]) \in MailRow /\ retried' \subseteq MailId
    <3>1. mail[n] \in MailRow
      BY DEF TypeOK
    <3>2. Retried(mail[n]) \in MailRow
      BY <3>1, RowsChange
    <3> QED
      BY <3>2, EmailOutboxAssumption DEF Retry, TypeOK
  <2>3. mail' \in [MailId -> MailRow]
    BY <2>1 DEF Retry, TypeOK
  <2>2. sends' \in [MailId -> Nat] /\ accepted' \in [MailId -> Nat]
    BY DEF Retry, Reset, TypeOK
  <2> QED
    BY <1>1, <2>1, <2>2, <2>3 DEF Retry, queueVars, TypeOK
<1>3. NothingNewForDisabled'
  <2>1. retried' = retried \cup {n} /\ user' = user
    BY DEF Retry
  <2>2. \A m \in MailId : m # n => mail'[m] = mail[m]
    BY DEF Retry, TypeOK
  <2> QED
    BY <2>1, <2>2 DEF NothingNewForDisabled
<1> QED
  BY <1>1, <1>2, <1>3

\* A row that a projection writes is one for an active account.
LEMMA EnqueueRows ==
    ASSUME TypeOK, NEW topic \in Topics, NEW recipients \in SUBSET Users,
           Enqueue(topic, recipients)
    PROVE  /\ mail' = [n \in MailId |-> mail'[n]]
           /\ \A n \in MailId :
                \/ mail'[n] = mail[n]
                \/ \E due \in BOOLEAN, u \in Users :
                      user[u] = "active" /\ mail'[n] = NewMail(u, topic, due)
                \/ \E due \in BOOLEAN :
                      user[mail[n].user] = "active" /\ mail'[n] = Rewritten(mail[n], due)
<1> DEFINE active == {u \in recipients : user[u] = "active"}
           reused == {u \in active : \E n \in MailId : Coalescable(n, u, topic)}
           fresh  == active \ reused
           ids    == lastId + 1 .. lastId + Cardinality(fresh)
           Written(due, owner, old) ==
             /\ \A u \in fresh : \E n \in ids : owner[n] = u
             /\ \A u \in reused :
                    /\ Coalescable(old[u], u, topic)
                    /\ \A n \in MailId :
                           Coalescable(n, u, topic) => mail[n].created <= mail[old[u]].created
             /\ mail' = [n \in MailId |->
                    IF n \in ids THEN NewMail(owner[n], topic, due)
                    ELSE IF \E u \in reused : old[u] = n
                         THEN Rewritten(mail[n], due)
                         ELSE mail[n]]
             /\ Reset({old[u] : u \in reused})
<1>1. \E due \in BOOLEAN : \E owner \in [ids -> fresh] : \E old \in [reused -> MailId] :
          Written(due, owner, old)
  BY Zenon DEF Enqueue
<1>2. fresh \subseteq active /\ reused \subseteq active /\ active \subseteq Users
  OBVIOUS
<1>3. \A u \in active : user[u] = "active"
  OBVIOUS
<1> HIDE DEF active, reused, fresh, ids
<1>4. PICK due \in BOOLEAN : \E owner \in [ids -> fresh] : \E old \in [reused -> MailId] :
          Written(due, owner, old)
  BY <1>1, Zenon
<1>5. PICK owner \in [ids -> fresh] : \E old \in [reused -> MailId] :
          Written(due, owner, old)
  BY <1>4, Zenon
<1>6. PICK old \in [reused -> MailId] : Written(due, owner, old)
  BY <1>5, Zenon
<1>7. mail' = [n \in MailId |->
                  IF n \in ids THEN NewMail(owner[n], topic, due)
                  ELSE IF \E u \in reused : old[u] = n
                       THEN Rewritten(mail[n], due)
                       ELSE mail[n]]
  BY <1>6, Zenon
<1>8. ASSUME NEW n \in MailId
      PROVE  \/ mail'[n] = mail[n]
             \/ \E u \in Users : user[u] = "active" /\ mail'[n] = NewMail(u, topic, due)
             \/ user[mail[n].user] = "active" /\ mail'[n] = Rewritten(mail[n], due)
  <2>1. CASE n \in ids
    <3>1. mail'[n] = NewMail(owner[n], topic, due) /\ owner[n] \in fresh
      BY <1>7, <2>1
    <3>2. owner[n] \in Users /\ user[owner[n]] = "active"
      BY <3>1, <1>2, <1>3
    <3> QED
      BY <3>1, <3>2
  <2>2. CASE n \notin ids /\ \E u \in reused : old[u] = n
    <3>1. PICK u \in reused : old[u] = n
      BY <2>2
    <3>2. Coalescable(n, u, topic) /\ user[u] = "active"
      BY <3>1, <1>6, <1>2, <1>3
    <3>3. mail'[n] = Rewritten(mail[n], due)
      BY <1>7, <2>2
    <3> QED
      BY <3>2, <3>3 DEF Coalescable
  <2>3. CASE n \notin ids /\ ~\E u \in reused : old[u] = n
    BY <1>7, <2>3
  <2> QED
    BY <2>1, <2>2, <2>3
<1>9. mail' = [n \in MailId |-> mail'[n]]
  BY <1>7
<1> QED
  BY <1>8, <1>9

\* Mail is queued for active accounts.
LEMMA EnqueueInv ==
    ASSUME Inv, NEW topic \in Topics, NEW recipients \in SUBSET Users,
           Enqueue(topic, recipients)
    PROVE  Inv'
<1> USE DEF Inv
<1>1. worker' = worker /\ worker' \in [Workers -> WorkerState] /\ Busy'
  BY DEF Enqueue, TypeOK, Busy
<1>2. TypeOK'
  <2> DEFINE active == {u \in recipients : user[u] = "active"}
             reused == {u \in active : \E n \in MailId : Coalescable(n, u, topic)}
             fresh  == active \ reused
             ids    == lastId + 1 .. lastId + Cardinality(fresh)
  <2>1. IsFiniteSet(fresh) /\ Cardinality(fresh) \in Nat
    BY EmailOutboxAssumption, FS_Subset, FS_CardinalityType
  <2>2. version + 1 \in Version /\ version + 1 \in Nat
    BY EmailOutboxAssumption DEF Enqueue, TypeOK, Version
  <2>3. lastId + Cardinality(fresh) \in 0..MaxMails
    <3>1. ids \subseteq MailId
      BY DEF Enqueue
    <3> HIDE DEF fresh
    <3>2. Cardinality(fresh) > 0 => lastId + Cardinality(fresh) \in ids
      BY <2>1 DEF TypeOK
    <3> QED
      BY <2>1, <3>1, <3>2 DEF TypeOK, MailId
  <2>4. mail' \in [MailId -> MailRow]
    <3>1. ASSUME NEW due \in BOOLEAN
          PROVE  /\ \A u \in Users : NewMail(u, topic, due) \in MailRow
                 /\ \A r \in MailRow : Rewritten(r, due) \in MailRow
      <4>1. \A u \in Users : NewMail(u, topic, due) \in MailRow
        BY <2>2 DEF NewMail, MailRow, MailStatus
      <4>2. \A r \in MailRow : Rewritten(r, due) \in MailRow
        BY <2>2, RowsChange
      <4> QED
        BY <4>1, <4>2
    <3>2. \A n \in MailId : mail[n] \in MailRow
      BY DEF TypeOK
    <3>3. \A n \in MailId : mail'[n] \in MailRow
      BY <3>1, <3>2, EnqueueRows
    <3>4. mail' = [n \in MailId |-> mail'[n]]
      BY EnqueueRows
    <3> QED
      BY <3>3, <3>4
  <2>5. newest' \in [Users -> [Topics -> Version]]
    BY <2>2 DEF Enqueue, TypeOK
  <2>6. sends' \in [MailId -> Nat] /\ accepted' \in [MailId -> Nat]
    BY DEF Enqueue, Reset, TypeOK
  <2>7. lastId' = lastId + Cardinality(fresh) /\ version' = version + 1
    BY DEF Enqueue
  <2>8. UNCHANGED <<user, live, retried, received, faults>>
    BY DEF Enqueue, tableVars
  <2> HIDE DEF fresh
  <2> QED
    BY <1>1, <2>2, <2>3, <2>4, <2>5, <2>6, <2>7, <2>8 DEF TypeOK
<1>3. NothingNewForDisabled'
  <2>1. \A n \in MailId : mail'[n] = mail[n] \/ user[mail'[n].user] = "active"
    <3>1. \A due \in BOOLEAN, u \in Users : NewMail(u, topic, due).user = u
      BY DEF NewMail
    <3>2. \A due \in BOOLEAN, r \in MailRow : Rewritten(r, due).user = r.user
      BY DEF Rewritten, MailRow
    <3>3. \A n \in MailId : mail[n] \in MailRow
      BY DEF TypeOK
    <3> QED
      BY <3>1, <3>2, <3>3, EnqueueRows
  <2>2. UNCHANGED <<user, retried>>
    BY DEF Enqueue, tableVars
  <2> QED
    BY <2>1, <2>2 DEF NothingNewForDisabled
<1> QED
  BY <1>1, <1>2, <1>3

\* What is claimed is not pending any more.
LEMMA ClaimInv == ASSUME Inv, NEW w \in Workers, Claim(w) PROVE Inv'
<1> USE DEF Inv
<1>1. worker' \in [Workers -> WorkerState] /\ Busy'
  <2>0. PICK k \in 1..BatchSize : \E ids \in [1..k -> ClaimableIds] :
          worker' = [worker EXCEPT ![w] = Holding("send",
                      [i \in 1..k |-> [id |-> ids[i], payload |-> mail[ids[i]].payload]])]
    BY DEF Claim
  <2>1. PICK ids \in [1..k -> ClaimableIds] :
          worker' = [worker EXCEPT ![w] = Holding("send",
                      [i \in 1..k |-> [id |-> ids[i], payload |-> mail[ids[i]].payload]])]
    BY <2>0
  <2> DEFINE batch == [i \in 1..k |-> [id |-> ids[i], payload |-> mail[ids[i]].payload]]
  <2>2. k \in Nat /\ k > 0
    BY EmailOutboxAssumption
  <2>3. \A i \in 1..k : [id |-> ids[i], payload |-> mail[ids[i]].payload] \in Copy
    BY DEF ClaimableIds, Copy, TypeOK, MailRow
  <2>4. batch \in Seq(Copy) /\ Len(batch) = k
    BY <2>2, <2>3
  <2>5. batch # <<>>
    BY <2>2, <2>4, EmptySeq
  <2> HIDE DEF batch
  <2>6. worker' = [worker EXCEPT ![w] = Holding("send", batch)]
    BY <2>1 DEF batch
  <2> QED
    BY <2>4, <2>5, <2>6, HoldingIsState DEF TypeOK, Busy
<1>2. TypeOK'
  <2>1. mail' \in [MailId -> MailRow]
    <3>1. /\ mail' = [n \in MailId |-> mail'[n]]
          /\ \A n \in MailId : mail'[n] = Taken(mail[n]) \/ mail'[n] = mail[n]
      BY DEF Claim
    <3>2. \A n \in MailId : mail[n] \in MailRow /\ Taken(mail[n]) \in MailRow
      BY RowsChange DEF TypeOK
    <3> QED
      BY <3>1, <3>2
  <2> QED
    BY <1>1, <2>1 DEF Claim, tableVars, queueVars, wireVars, TypeOK
<1>3. NothingNewForDisabled'
  <2>1. ASSUME NEW n \in MailId, mail'[n].status = "pending" PROVE mail'[n] = mail[n]
    <3>1. mail[n] \in MailRow /\ (mail'[n] = Taken(mail[n]) \/ mail'[n] = mail[n])
      BY DEF Claim, TypeOK
    <3> QED
      BY <2>1, <3>1 DEF Taken, MailRow
  <2>2. UNCHANGED <<user, retried>>
    BY DEF Claim, tableVars
  <2> QED
    BY <2>1, <2>2 DEF NothingNewForDisabled
<1> QED
  BY <1>1, <1>2, <1>3

\* Sending changes no row.
LEMMA SendInv == ASSUME Inv, NEW w \in Workers, Send(w) PROVE Inv'
<1> USE DEF Inv
<1>1. worker' \in [Workers -> WorkerState] /\ Busy'
  <2>1. PICK pc \in {"sent", "read"} : worker' = [worker EXCEPT ![w].pc = pc]
    BY DEF Send, AfterSend
  <2>2. worker[w] \in WorkerState /\ worker[w].seen \in Nat
    BY DEF TypeOK, WorkerState
  <2>3. [worker[w] EXCEPT !.pc = pc] = [worker[w] EXCEPT !.pc = pc, !.seen = worker[w].seen]
    BY <2>2 DEF WorkerState
  <2>4. worker' = [worker EXCEPT ![w] = [worker[w] EXCEPT !.pc = pc, !.seen = worker[w].seen]]
    BY <2>1, <2>3
  <2>5. worker[w].pc # "idle" /\ pc \in {"sent", "read", "write"}
    BY DEF Send
  <2> QED
    BY <2>2, <2>4, <2>5, StaysBusy
<1>2. TypeOK'
  <2>1. Current(w).id \in MailId /\ Current(w).payload \in Version
    BY CurrentIsCopy DEF Send
  <2>2. /\ sends' \in [MailId -> Nat] /\ accepted' \in [MailId -> Nat]
        /\ received' \in [MailId -> SUBSET Version]
    BY <2>1 DEF Send, TypeOK
  <2> QED
    BY <1>1, <2>2 DEF Send, tableVars, queueVars, TypeOK
<1>3. NothingNewForDisabled'
  <2>1. UNCHANGED <<user, retried, mail>>
    BY DEF Send, tableVars
  <2> QED
    BY <2>1 DEF NothingNewForDisabled
<1> QED
  BY <1>1, <1>2, <1>3

\* What was sent is not pending.
LEMMA MarkSentInv == ASSUME Inv, NEW w \in Workers, MarkSent(w) PROVE Inv'
<1> USE DEF Inv
<1>1. worker' \in [Workers -> WorkerState] /\ Busy'
  BY GoesOn DEF MarkSent
<1>2. TypeOK'
  <2>1. Current(w).id \in MailId /\ worker[w].seen \in Nat
    BY CurrentIsCopy DEF MarkSent, TypeOK, WorkerState
  <2>2. mail[Current(w).id] \in MailRow
    BY <2>1 DEF TypeOK
  <2>3. mail' \in [MailId -> MailRow]
    BY <2>1, <2>2, RowsChange DEF MarkSent, TypeOK
  <2> QED
    BY <1>1, <2>3 DEF MarkSent, tableVars, queueVars, wireVars, TypeOK
<1>3. NothingNewForDisabled'
  <2>1. Current(w).id \in MailId /\ worker[w].seen \in Nat
    BY CurrentIsCopy DEF MarkSent, TypeOK, WorkerState
  <2>2. ASSUME NEW n \in MailId
        PROVE  \/ mail'[n] = mail[n]
               \/ mail'[n].status = "sent"
    <3>1. /\ mail[n] \in MailRow
          /\ \/ mail'[n] = mail[n]
             \/ mail'[n] = [mail[n] EXCEPT !.status = "sent", !.leased = FALSE]
      BY <2>1 DEF MarkSent, TypeOK
    <3> QED
      BY <2>1, <3>1 DEF Failed, MailRow
  <2>3. UNCHANGED <<user, retried>>
    BY DEF MarkSent, tableVars
  <2> QED
    BY <2>2, <2>3 DEF NothingNewForDisabled
<1> QED
  BY <1>1, <1>2, <1>3

\* A failure is counted.
LEMMA MarkFailedInv == ASSUME Inv, NEW w \in Workers, MarkFailed(w) PROVE Inv'
<1> USE DEF Inv
<1>1. worker' \in [Workers -> WorkerState] /\ Busy'
  BY GoesOn DEF MarkFailed
<1>2. TypeOK'
  <2>1. Current(w).id \in MailId /\ worker[w].seen \in Nat
    BY CurrentIsCopy DEF MarkFailed, TypeOK, WorkerState
  <2>2. mail[Current(w).id] \in MailRow
    BY <2>1 DEF TypeOK
  <2>3. mail' \in [MailId -> MailRow]
    BY <2>1, <2>2, RowsChange DEF MarkFailed, TypeOK
  <2> QED
    BY <1>1, <2>3 DEF MarkFailed, tableVars, queueVars, wireVars, TypeOK
<1>3. NothingNewForDisabled'
  <2>1. Current(w).id \in MailId /\ worker[w].seen \in Nat
    BY CurrentIsCopy DEF MarkFailed, TypeOK, WorkerState
  <2>2. ASSUME NEW n \in MailId
        PROVE  \/ mail'[n] = mail[n]
               \/ mail'[n].attempts > 0
    <3>1. /\ mail[n] \in MailRow
          /\ mail'[n] = mail[n] \/ mail'[n] = Failed(mail[n], worker[w].seen)
      BY <2>1 DEF MarkFailed, TypeOK
    <3>2. Failed(mail[n], worker[w].seen).attempts = worker[w].seen + 1
      BY <3>1 DEF Failed, MailRow
    <3> QED
      BY <2>1, <3>1, <3>2
  <2>3. UNCHANGED <<user, retried>>
    BY DEF MarkFailed, tableVars
  <2> QED
    BY <2>2, <2>3 DEF NothingNewForDisabled
<1> QED
  BY <1>1, <1>2, <1>3

\* Reading changes no row.
LEMMA ReadAttemptsInv == ASSUME Inv, NEW w \in Workers, ReadAttempts(w) PROVE Inv'
<1> USE DEF Inv
<1>1. worker' \in [Workers -> WorkerState] /\ Busy'
  <2>1. CASE Exists(Current(w).id)
    <3>1. mail[Current(w).id].attempts \in Nat
      BY CurrentIsCopy DEF ReadAttempts, TypeOK, MailRow
    <3>2. worker' = [worker EXCEPT ![w] =
                [worker[w] EXCEPT !.pc = "write", !.seen = mail[Current(w).id].attempts]]
      BY <2>1 DEF ReadAttempts, TypeOK
    <3> QED
      BY <3>1, <3>2, StaysBusy DEF ReadAttempts
  <2>2. CASE ~Exists(Current(w).id)
    BY <2>2, GoesOn DEF ReadAttempts
  <2> QED
    BY <2>1, <2>2
<1>2. TypeOK'
  BY <1>1 DEF ReadAttempts, tableVars, queueVars, wireVars, TypeOK
<1>3. NothingNewForDisabled'
  <2>1. UNCHANGED <<user, retried, mail>>
    BY DEF ReadAttempts, tableVars
  <2> QED
    BY <2>1 DEF NothingNewForDisabled
<1> QED
  BY <1>1, <1>2, <1>3

\* Only the worker goes on.
LEMMA MarkFailsInv == ASSUME Inv, NEW w \in Workers, MarkFails(w) PROVE Inv'
<1> USE DEF Inv
<1>1. worker' \in [Workers -> WorkerState] /\ Busy'
  BY GoesOn DEF MarkFails
<1>2. TypeOK'
  <2>1. faults' \in 0..MaxFaults
    BY EmailOutboxAssumption DEF MarkFails, Fault, TypeOK
  <2> QED
    BY <1>1, <2>1 DEF MarkFails, tableVars, queueVars, wireVars, TypeOK
<1>3. NothingNewForDisabled'
  <2>1. UNCHANGED <<user, retried, mail>>
    BY DEF MarkFails, tableVars
  <2> QED
    BY <2>1 DEF NothingNewForDisabled
<1> QED
  BY <1>1, <1>2, <1>3

\* Only the worker ends.
LEMMA AbandonInv == ASSUME Inv, NEW w \in Workers, Abandon(w) PROVE Inv'
<1> USE DEF Inv
<1>1. worker' \in [Workers -> WorkerState] /\ Busy'
  BY Ends DEF Abandon
<1>2. TypeOK'
  <2>1. faults' \in 0..MaxFaults
    BY EmailOutboxAssumption DEF Abandon, Fault, TypeOK
  <2> QED
    BY <1>1, <2>1 DEF Abandon, tableVars, queueVars, wireVars, TypeOK
<1>3. NothingNewForDisabled'
  <2>1. UNCHANGED <<user, retried, mail>>
    BY DEF Abandon, tableVars
  <2> QED
    BY <2>1 DEF NothingNewForDisabled
<1> QED
  BY <1>1, <1>2, <1>3

\* Neither the status nor the account changes.
LEMMA LeaseExpiresInv == ASSUME Inv, NEW n \in MailId, LeaseExpires(n) PROVE Inv'
<1> USE DEF Inv
<1>1. worker' = worker /\ worker' \in [Workers -> WorkerState] /\ Busy'
  BY DEF LeaseExpires, TypeOK, Busy
<1>2. TypeOK'
  <2>1. mail' \in [MailId -> MailRow]
    <3>1. mail[n] \in MailRow /\ mail' = [mail EXCEPT ![n] = [mail[n] EXCEPT !.leased = FALSE]]
      BY DEF LeaseExpires, TypeOK
    <3> QED
      BY <3>1, RowsChange DEF TypeOK
  <2>2. faults' \in 0..MaxFaults
    BY EmailOutboxAssumption DEF LeaseExpires, Fault, TypeOK
  <2> QED
    BY <1>1, <2>1, <2>2 DEF LeaseExpires, tableVars, queueVars, wireVars, TypeOK
<1>3. NothingNewForDisabled'
  <2>1. \A m \in MailId : /\ mail'[m].status = mail[m].status /\ mail'[m].user = mail[m].user
                            /\ mail'[m].attempts = mail[m].attempts
    <3>1. mail[n] \in MailRow /\ mail' = [mail EXCEPT ![n] = [mail[n] EXCEPT !.leased = FALSE]]
      BY DEF LeaseExpires, TypeOK
    <3> QED
      BY <3>1 DEF TypeOK, MailRow
  <2>2. UNCHANGED <<user, retried>>
    BY DEF LeaseExpires, tableVars
  <2> QED
    BY <2>1, <2>2 DEF NothingNewForDisabled
<1> QED
  BY <1>1, <1>2, <1>3

\* Neither the status nor the account changes.
LEMMA BecomesDueInv == ASSUME Inv, NEW n \in MailId, BecomesDue(n) PROVE Inv'
<1> USE DEF Inv
<1>1. worker' = worker /\ worker' \in [Workers -> WorkerState] /\ Busy'
  BY DEF BecomesDue, TypeOK, Busy
<1>2. TypeOK'
  <2>1. mail' \in [MailId -> MailRow]
    <3>1. mail[n] \in MailRow /\ mail' = [mail EXCEPT ![n] = [mail[n] EXCEPT !.due = TRUE]]
      BY DEF BecomesDue, TypeOK
    <3> QED
      BY <3>1, RowsChange DEF TypeOK
  <2>2. faults' \in 0..MaxFaults
    BY EmailOutboxAssumption DEF BecomesDue, Fault, TypeOK
  <2> QED
    BY <1>1, <2>1, <2>2 DEF BecomesDue, tableVars, queueVars, wireVars, TypeOK
<1>3. NothingNewForDisabled'
  <2>1. \A m \in MailId : /\ mail'[m].status = mail[m].status /\ mail'[m].user = mail[m].user
                            /\ mail'[m].attempts = mail[m].attempts
    <3>1. mail[n] \in MailRow /\ mail' = [mail EXCEPT ![n] = [mail[n] EXCEPT !.due = TRUE]]
      BY DEF BecomesDue, TypeOK
    <3> QED
      BY <3>1 DEF TypeOK, MailRow
  <2>2. UNCHANGED <<user, retried>>
    BY DEF BecomesDue, tableVars
  <2> QED
    BY <2>1, <2>2 DEF NothingNewForDisabled
<1> QED
  BY <1>1, <1>2, <1>3

-----------------------------------------------------------------------------
(* The invariants together.                                                *)

\* The outbox begins empty, ...
LEMMA InitInv == Init => Inv
<1> SUFFICES ASSUME Init PROVE Inv
  OBVIOUS
<1>1. mail \in [MailId -> MailRow] /\ \A n \in MailId : mail[n].status = "none"
  BY NoMailIsRow DEF Init
<1>2. worker \in [Workers -> WorkerState] /\ Busy
  BY HoldingIsState DEF Init, Busy
<1>3. 0 \in Version /\ 0 \in 0..MaxMails /\ 0 \in 0..MaxFaults
  BY EmailOutboxAssumption DEF Version
<1>4. TypeOK
  BY <1>1, <1>2, <1>3 DEF Init, TypeOK
<1> QED
  BY <1>1, <1>2, <1>4 DEF Inv, NothingNewForDisabled

\* ... and every step keeps the invariant.
LEMMA NextInv == Inv /\ [Next]_vars => Inv'
<1> SUFFICES ASSUME Inv, [Next]_vars PROVE Inv'
  OBVIOUS
<1>1. CASE Handler
  BY <1>1, DisableUserInv, EnableUserInv, DeleteUserInv, DeleteTicketInv, EnqueueInv,
     EnqueueTestInv, RetryInv DEF Handler
<1>2. ASSUME NEW w \in Workers, Deliver(w) \/ MarkFails(w) \/ Abandon(w) PROVE Inv'
  BY <1>2, ClaimInv, SendInv, MarkSentInv, ReadAttemptsInv, MarkFailedInv, MarkFailsInv,
     AbandonInv DEF Deliver
<1>3. ASSUME NEW n \in MailId, LeaseExpires(n) \/ BecomesDue(n) PROVE Inv'
  BY <1>3, LeaseExpiresInv, BecomesDueInv
<1>4. CASE UNCHANGED vars
  BY <1>4 DEF vars, tableVars, queueVars, wireVars, Inv, TypeOK, Busy, NothingNewForDisabled
<1> QED
  BY <1>1, <1>2, <1>3, <1>4 DEF Next

LEMMA Invariance == Spec => []Inv
  BY InitInv, NextInv, PTL DEF Spec

\* Rows, marks and what workers hold are of their types: a busy worker has a
\* mail in hand, and no counter leaves its bound.
THEOREM TypeCorrect == Spec => []TypeOK
<1>1. Inv => TypeOK
  BY DEF Inv
<1> QED
  BY <1>1, Invariance, PTL

\* UpdateUser withdraws what is pending and a projection looks at the account
\* again, so whatever is pending for a disabled account has failed before or was
\* retried by hand, however many workers have its mail.
THEOREM DisabledGetNothingNew == Spec => []NothingNewForDisabled
<1>1. Inv => NothingNewForDisabled
  BY DEF Inv
<1> QED
  BY <1>1, Invariance, PTL

-----------------------------------------------------------------------------
(* Who may still send a mail.                                              *)

IdsOf(batch) == {batch[i].id : i \in DOMAIN batch}
NoTwice(batch) == \A i, j \in DOMAIN batch : i # j => batch[i].id # batch[j].id

\* The mails that a worker has in hand.
InHand(w) == IdsOf(worker[w].batch)

\* A worker has a mail once, and only mails that were queued.
Orderly(w) ==
    /\ NoTwice(worker[w].batch)
    /\ InHand(w) \subseteq 1..lastId
    /\ worker[w].pc = "idle" => worker[w].batch = <<>>

\* A row that is not there yet.
Unborn(n) == n > lastId => mail[n] = NoMail /\ accepted[n] = 0 /\ sends[n] = 0

\* The workers that may yet have the server accept the mail ...
MaySend(w, n) == n \in InHand(w) /\ ~(worker[w].pc = "sent" /\ n = Current(w).id)
Senders(n) == {w \in Workers : MaySend(w, n)}

\* ... and a mail that another one may take up without a fault.
Loose(n) ==
    \/ mail[n].status \in {"pending", "failed"}
    \/ mail[n].status = "sending" /\ (mail[n].leased => ~Held(n))

\* There are no more of them than the one that there should be, and the faults.
Counted(n) ==
    /\ IsFiniteSet(Senders(n))
    /\ accepted[n] + Cardinality(Senders(n)) + (IF Loose(n) THEN 1 ELSE 0) <= 1 + faults

CountInv ==
    /\ Inv
    /\ \A w \in Workers : Orderly(w)
    /\ \A n \in MailId : Unborn(n) /\ Counted(n)

\* What a step does to the right to send a mail: it is lost, or paid for by a
\* fault, or taken up by a worker, or given back by one, or used, or it is
\* that of a new mail.
IsLost(n) ==
    /\ Senders(n)' \subseteq Senders(n) /\ (Loose(n)' => Loose(n))
    /\ accepted'[n] <= accepted[n] /\ faults' >= faults
IsPaid(n) ==
    /\ Senders(n)' \subseteq Senders(n)
    /\ accepted'[n] <= accepted[n] /\ faults' = faults + 1
IsTakenUp(n) ==
    /\ \E w \in Workers : Senders(n)' = Senders(n) \cup {w}
    /\ Loose(n) /\ ~Loose(n)'
    /\ accepted'[n] = accepted[n] /\ faults' = faults
IsGivenBack(n) ==
    /\ \E w \in Senders(n) : Senders(n)' = Senders(n) \ {w}
    /\ accepted'[n] = accepted[n] /\ faults' = faults
IsUsed(n) ==
    /\ \E w \in Senders(n) : Senders(n)' = Senders(n) \ {w}
    /\ Loose(n)' => Loose(n)
    /\ accepted'[n] = accepted[n] + 1 /\ faults' = faults
IsNew(n) == Senders(n)' = {} /\ accepted'[n] = 0

RightMoves(n) ==
    IsLost(n) \/ IsPaid(n) \/ IsTakenUp(n) \/ IsGivenBack(n) \/ IsUsed(n) \/ IsNew(n)

\* None of these makes them too many.
LEMMA RightsAreCounted ==
    ASSUME TypeOK, TypeOK', NEW n \in MailId, Counted(n), RightMoves(n)
    PROVE  Counted(n)'
<1> DEFINE S == Senders(n)
           T == Senders(n)'
           L == IF Loose(n) THEN 1 ELSE 0
           M == IF Loose(n)' THEN 1 ELSE 0
<1>1. /\ IsFiniteSet(S) /\ Cardinality(S) \in Nat /\ L \in {0, 1}
      /\ accepted[n] + Cardinality(S) + L <= 1 + faults
  BY FS_CardinalityType DEF Counted
<1>2. M \in {0, 1} /\ (M = 1 <=> Loose(n)') /\ (L = 1 <=> Loose(n))
  OBVIOUS
<1>3. accepted[n] \in Nat /\ accepted'[n] \in Nat /\ faults \in Nat /\ faults' \in Nat
  BY EmailOutboxAssumption DEF TypeOK
<1>4. SUFFICES IsFiniteSet(T) /\ accepted'[n] + Cardinality(T) + M <= 1 + faults'
  BY DEF Counted
<1>5. T \subseteq S => IsFiniteSet(T) /\ Cardinality(T) \in Nat /\ Cardinality(T) <= Cardinality(S)
  BY <1>1, FS_Subset, FS_CardinalityType
<1>6. ASSUME NEW w \in S, T = S \ {w}
      PROVE  IsFiniteSet(T) /\ Cardinality(T) \in Nat /\ Cardinality(T) = Cardinality(S) - 1
  BY <1>1, <1>6, FS_RemoveElement, FS_CardinalityType
<1>7. ASSUME NEW w, T = S \cup {w}
      PROVE  IsFiniteSet(T) /\ Cardinality(T) \in Nat /\ Cardinality(T) <= Cardinality(S) + 1
  <2>1. IsFiniteSet(T) /\ Cardinality(T) = IF w \in S THEN Cardinality(S) ELSE Cardinality(S) + 1
    BY <1>1, <1>7, FS_AddElement
  <2> QED
    BY <1>1, <2>1
<1>8. T = {} => IsFiniteSet(T) /\ Cardinality(T) = 0
  BY FS_EmptySet
<1> HIDE DEF S, T, L, M
<1>9. CASE IsLost(n)
  <2>1. T \subseteq S /\ accepted'[n] <= accepted[n] /\ faults' >= faults /\ (M = 1 => L = 1)
    BY <1>2, <1>9 DEF IsLost, S, T
  <2> QED
    BY <1>1, <1>2, <1>3, <1>5, <2>1
<1>10. CASE IsPaid(n)
  <2>1. T \subseteq S /\ accepted'[n] <= accepted[n] /\ faults' = faults + 1
    BY <1>10 DEF IsPaid, S, T
  <2> QED
    BY <1>1, <1>2, <1>3, <1>5, <2>1
<1>11. CASE IsTakenUp(n)
  <2>1. PICK w \in Workers : T = S \cup {w}
    BY <1>11 DEF IsTakenUp, S, T
  <2>2. L = 1 /\ M = 0 /\ accepted'[n] = accepted[n] /\ faults' = faults
    BY <1>2, <1>11 DEF IsTakenUp
  <2>3. IsFiniteSet(T) /\ Cardinality(T) \in Nat /\ Cardinality(T) <= Cardinality(S) + 1
    BY <1>7, <2>1
  <2> QED
    BY <1>1, <1>3, <2>2, <2>3
<1>12. CASE IsGivenBack(n)
  <2>1. PICK w \in S : T = S \ {w}
    BY <1>12 DEF IsGivenBack, S, T
  <2>2. accepted'[n] = accepted[n] /\ faults' = faults
    BY <1>12 DEF IsGivenBack
  <2>3. IsFiniteSet(T) /\ Cardinality(T) \in Nat /\ Cardinality(T) = Cardinality(S) - 1
    BY <1>6, <2>1
  <2> QED
    BY <1>1, <1>2, <1>3, <2>2, <2>3
<1>13. CASE IsUsed(n)
  <2>1. PICK w \in S : T = S \ {w}
    BY <1>13 DEF IsUsed, S, T
  <2>2. accepted'[n] = accepted[n] + 1 /\ faults' = faults /\ (M = 1 => L = 1)
    BY <1>2, <1>13 DEF IsUsed
  <2>3. IsFiniteSet(T) /\ Cardinality(T) \in Nat /\ Cardinality(T) = Cardinality(S) - 1
    BY <1>6, <2>1
  <2> QED
    BY <1>1, <1>2, <1>3, <2>2, <2>3
<1>14. CASE IsNew(n)
  BY <1>2, <1>3, <1>8, <1>14 DEF IsNew, T
<1> QED
  BY <1>9, <1>10, <1>11, <1>12, <1>13, <1>14 DEF RightMoves

-----------------------------------------------------------------------------
(* How a worker's hands change.                                            *)

LEMMA HeldIsInHand == \A n \in MailId : Held(n) <=> \E w \in Workers : n \in InHand(w)
  BY DEF Held, InHand, IdsOf

\* The first mail of a batch, and the others.
LEMMA RestOfBatch ==
    ASSUME NEW b \in Seq(Copy), b # <<>>, NoTwice(b)
    PROVE  /\ Head(b).id \in IdsOf(b)
           /\ NoTwice(Tail(b)) /\ IdsOf(Tail(b)) = IdsOf(b) \ {Head(b).id}
           /\ Len(b) = 1 => IdsOf(b) = {Head(b).id}
<1>1. Len(b) \in Nat /\ Len(b) > 0 /\ DOMAIN b = 1..Len(b) /\ Head(b) = b[1]
  BY EmptySeq
<1>2. /\ Tail(b) \in Seq(Copy) /\ DOMAIN Tail(b) = 1..Len(b) - 1
      /\ \A i \in 1..Len(b) - 1 : Tail(b)[i] = b[i + 1]
  BY <1>1
<1>3. Head(b).id \in IdsOf(b)
  BY <1>1 DEF IdsOf
<1>4. NoTwice(Tail(b))
  BY <1>1, <1>2 DEF NoTwice
<1>5. ASSUME NEW n \in IdsOf(Tail(b)) PROVE n \in IdsOf(b) \ {Head(b).id}
  <2>1. PICK i \in 1..Len(b) - 1 : n = b[i + 1].id
    BY <1>2 DEF IdsOf
  <2>2. i + 1 \in DOMAIN b /\ 1 \in DOMAIN b /\ i + 1 # 1
    BY <1>1
  <2> QED
    BY <1>1, <2>1, <2>2 DEF IdsOf, NoTwice
<1>6. ASSUME NEW n \in IdsOf(b), n # Head(b).id PROVE n \in IdsOf(Tail(b))
  <2>1. PICK i \in 1..Len(b) : n = b[i].id
    BY <1>1 DEF IdsOf
  <2>2. i # 1 /\ i - 1 \in 1..Len(b) - 1 /\ (i - 1) + 1 = i
    BY <1>1, <1>6, <2>1
  <2>3. Tail(b)[i - 1] = b[i]
    BY <1>2, <2>2
  <2> QED
    BY <1>2, <2>1, <2>2, <2>3 DEF IdsOf
<1>7. Len(b) = 1 => IdsOf(b) = {Head(b).id}
  BY <1>1 DEF IdsOf
<1> QED
  BY <1>3, <1>4, <1>5, <1>6, <1>7

\* A worker that goes on lets go of one mail and may send the others.
LEMMA LetsGo ==
    ASSUME CountInv, NEW w \in Workers, worker[w].pc # "idle", NextInBatch(w)
    PROVE  /\ Current(w).id \in InHand(w)
           /\ InHand(w)' = InHand(w) \ {Current(w).id}
           /\ NoTwice(worker'[w].batch)
           /\ worker'[w].pc \in {"idle", "send"}
           /\ worker'[w].pc = "idle" => worker'[w].batch = <<>>
           /\ \A v \in Workers : v # w => worker'[v] = worker[v]
<1> DEFINE b == worker[w].batch
<1>1. b \in Seq(Copy) /\ b # <<>> /\ NoTwice(b)
  BY DEF CountInv, Inv, TypeOK, Busy, WorkerState, Orderly
<1>2. worker' = [worker EXCEPT ![w] = IF Len(b) = 1 THEN Idle ELSE Holding("send", Tail(b))]
  BY DEF NextInBatch
<1>3. worker \in [Workers -> WorkerState]
  BY DEF CountInv, Inv, TypeOK
<1>4. CASE Len(b) = 1
  <2>1. worker'[w] = Idle /\ \A v \in Workers : v # w => worker'[v] = worker[v]
    BY <1>2, <1>3, <1>4
  <2>2. Idle.pc = "idle" /\ Idle.batch = <<>> /\ IdsOf(<<>>) = {} /\ NoTwice(<<>>)
    BY DEF Idle, Holding, IdsOf, NoTwice
  <2> QED
    BY <1>1, <1>4, <2>1, <2>2, RestOfBatch DEF InHand, Current
<1>5. CASE Len(b) # 1
  <2>1. /\ worker'[w] = Holding("send", Tail(b))
        /\ \A v \in Workers : v # w => worker'[v] = worker[v]
    BY <1>2, <1>3, <1>5
  <2>2. worker'[w].pc = "send" /\ worker'[w].batch = Tail(b)
    BY <2>1 DEF Holding
  <2> QED
    BY <1>1, <2>1, <2>2, RestOfBatch DEF InHand, Current
<1> QED
  BY <1>4, <1>5

-----------------------------------------------------------------------------
(* What each action does to the rights.                                    *)

CountNext ==
    /\ \A w \in Workers : Orderly(w)'
    /\ \A n \in MailId : Unborn(n)' /\ RightMoves(n)

\* While no worker moves, all have in hand what they had.
LEMMA HandsStay ==
    ASSUME CountInv, worker' = worker, lastId' >= lastId, lastId' \in Nat
    PROVE  /\ \A w \in Workers : Orderly(w)'
           /\ \A n \in MailId : Senders(n)' = Senders(n) /\ (Held(n)' <=> Held(n))
<1>1. lastId \in Nat
  BY EmailOutboxAssumption DEF CountInv, Inv, TypeOK
<1>2. \A w \in Workers : Orderly(w)'
  BY <1>1 DEF CountInv, Orderly, InHand, IdsOf, NoTwice
<1>3. \A n \in MailId : Senders(n)' = Senders(n)
  BY DEF Senders, MaySend, InHand, Current
<1>4. \A n \in MailId : Held(n)' <=> Held(n)
  BY DEF Held
<1> QED
  BY <1>2, <1>3, <1>4

\* Rows are marked, or taken away, and no new one comes.
LEMMA RowsAreMarked ==
    ASSUME CountInv, TypeOK', UNCHANGED <<worker, lastId, sends, accepted, faults>>,
           \A n \in MailId :
              \/ mail'[n] = mail[n]
              \/ Exists(n) /\ mail'[n].status = "gone"
              \/ /\ Exists(n) /\ mail'[n].status = mail[n].status
                 /\ mail'[n].leased = mail[n].leased
    PROVE  CountNext
<1>1. lastId \in Nat /\ faults \in Nat /\ accepted \in [MailId -> Nat]
  BY EmailOutboxAssumption DEF CountInv, Inv, TypeOK
<1>2. /\ \A w \in Workers : Orderly(w)'
      /\ \A n \in MailId : Senders(n)' = Senders(n) /\ (Held(n)' <=> Held(n))
  BY <1>1, HandsStay
<1>3. ASSUME NEW n \in MailId PROVE Unborn(n)' /\ RightMoves(n)
  <2>1. Unborn(n)
    BY DEF CountInv
  <2>2. Unborn(n)'
    BY <2>1, NoMailIsRow DEF Unborn, Exists
  <2>3. Loose(n)' => Loose(n)
    BY <1>2 DEF Loose
  <2>4. IsLost(n)
    BY <1>1, <1>2, <2>3 DEF IsLost
  <2> QED
    BY <2>2, <2>4 DEF RightMoves
<1> QED
  BY <1>2, <1>3 DEF CountNext

LEMMA DisableUserCount == ASSUME CountInv, NEW u \in Users, DisableUser(u) PROVE CountNext
<1>1. TypeOK' /\ TypeOK
  BY DisableUserInv DEF CountInv, Inv
<1>2. ASSUME NEW n \in MailId
      PROVE  mail'[n] = mail[n] \/ (Exists(n) /\ mail'[n].status = "gone")
  <2>1. mail'[n] = IF n \in PendingOf(u) THEN Withdrawn(mail[n]) ELSE mail[n]
    BY DEF DisableUser, CancelPending
  <2>2. mail[n] \in MailRow
    BY <1>1 DEF TypeOK
  <2>3. Withdrawn(mail[n]).status = "gone"
    BY <2>2 DEF Withdrawn, MailRow
  <2> QED
    BY <2>1, <2>3 DEF PendingOf, Exists
<1> QED
  BY <1>1, <1>2, RowsAreMarked DEF DisableUser, wireVars

LEMMA EnableUserCount == ASSUME CountInv, NEW u \in Users, EnableUser(u) PROVE CountNext
<1>1. TypeOK'
  BY EnableUserInv DEF CountInv, Inv
<1> QED
  BY <1>1, RowsAreMarked DEF EnableUser, queueVars, wireVars

LEMMA DeleteUserCount == ASSUME CountInv, NEW u \in Users, DeleteUser(u) PROVE CountNext
<1>1. TypeOK' /\ TypeOK
  BY DeleteUserInv DEF CountInv, Inv
<1>2. ASSUME NEW n \in MailId
      PROVE  \/ mail'[n] = mail[n]
             \/ Exists(n) /\ mail'[n].status = "gone"
             \/ /\ Exists(n) /\ mail'[n].status = mail[n].status
                /\ mail'[n].leased = mail[n].leased
  <2>1. mail'[n] = IF n \in PendingOf(u) THEN Withdrawn(mail[n])
                   ELSE IF Exists(n) /\ mail[n].user = u
                        THEN [mail[n] EXCEPT !.user = NoUser]
                        ELSE mail[n]
    BY DEF DeleteUser
  <2>2. mail[n] \in MailRow
    BY <1>1 DEF TypeOK
  <2>3. Withdrawn(mail[n]).status = "gone"
    BY <2>2 DEF Withdrawn, MailRow
  <2>4. /\ [mail[n] EXCEPT !.user = NoUser].status = mail[n].status
        /\ [mail[n] EXCEPT !.user = NoUser].leased = mail[n].leased
    BY <2>2 DEF MailRow
  <2> QED
    BY <2>1, <2>3, <2>4 DEF PendingOf, Exists
<1> QED
  BY <1>1, <1>2, RowsAreMarked DEF DeleteUser, wireVars

LEMMA DeleteTicketCount == ASSUME CountInv, NEW t \in Tickets, DeleteTicket(t) PROVE CountNext
<1>1. TypeOK' /\ TypeOK
  BY DeleteTicketInv DEF CountInv, Inv
<1>2. ASSUME NEW n \in MailId
      PROVE  mail'[n] = mail[n] \/ (Exists(n) /\ mail'[n].status = "gone")
  <2>1. mail'[n] = IF Exists(n) /\ mail[n].topic = t THEN Withdrawn(mail[n]) ELSE mail[n]
    BY DEF DeleteTicket
  <2>2. mail[n] \in MailRow
    BY <1>1 DEF TypeOK
  <2>3. Withdrawn(mail[n]).status = "gone"
    BY <2>2 DEF Withdrawn, MailRow
  <2> QED
    BY <2>1, <2>3
<1> QED
  BY <1>1, <1>2, RowsAreMarked DEF DeleteTicket, queueVars, wireVars

\* The delay of a mail is over: it could be taken up before as well.
LEMMA BecomesDueCount == ASSUME CountInv, NEW n \in MailId, BecomesDue(n) PROVE CountNext
<1>1. TypeOK' /\ TypeOK
  BY BecomesDueInv DEF CountInv, Inv
<1>2. /\ mail[n] \in MailRow /\ Exists(n)
      /\ mail' = [mail EXCEPT ![n] = [mail[n] EXCEPT !.due = TRUE]]
  BY <1>1 DEF BecomesDue, TypeOK, Exists
<1>3. \A m \in MailId : m # n => mail'[m] = mail[m]
  BY <1>2
<1>4. mail'[n].status = mail[n].status /\ mail'[n].leased = mail[n].leased
  BY <1>1, <1>2 DEF TypeOK, MailRow
<1> QED
  BY <1>1, <1>2, <1>3, <1>4, RowsAreMarked DEF BecomesDue, queueVars, wireVars

\* Nobody has a mail in hand that is new.
LEMMA NewMailIsFree ==
    ASSUME CountInv, NEW n \in MailId, n > lastId
    PROVE  Senders(n) = {}
<1>1. lastId \in Nat /\ n \in Nat
  BY EmailOutboxAssumption DEF CountInv, Inv, TypeOK, MailId
<1>2. \A w \in Workers : n \notin InHand(w)
  BY <1>1 DEF CountInv, Orderly
<1> QED
  BY <1>2 DEF Senders, MaySend

\* A retry gives back what a failure took, and counts anew.
LEMMA RetryCount == ASSUME CountInv, NEW n \in MailId, Retry(n) PROVE CountNext
<1>1. TypeOK' /\ TypeOK
  BY RetryInv DEF CountInv, Inv
<1>2. lastId \in Nat /\ faults \in Nat /\ accepted \in [MailId -> Nat]
  BY <1>1, EmailOutboxAssumption DEF TypeOK
<1>3. /\ worker' = worker /\ lastId' = lastId /\ faults' = faults
      /\ mail[n].status = "failed"
      /\ \A m \in MailId : m # n => mail'[m] = mail[m]
      /\ sends' = [m \in MailId |-> IF m = n THEN 0 ELSE sends[m]]
      /\ accepted' = [m \in MailId |-> IF m = n THEN 0 ELSE accepted[m]]
  BY <1>1 DEF Retry, queueVars, Reset, TypeOK
<1>4. /\ \A w \in Workers : Orderly(w)'
      /\ \A m \in MailId : Senders(m)' = Senders(m) /\ (Held(m)' <=> Held(m))
  BY <1>2, <1>3, HandsStay
<1>5. ASSUME NEW m \in MailId PROVE Unborn(m)' /\ RightMoves(m)
  <2>1. Unborn(m) /\ Unborn(n)
    BY DEF CountInv
  <2>2. Unborn(m)'
    BY <1>3, <2>1, NoMailIsRow DEF Unborn
  <2>3. Loose(m)' => Loose(m)
    BY <1>3, <1>4 DEF Loose
  <2>4. accepted'[m] <= accepted[m] /\ faults' >= faults
    BY <1>2, <1>3
  <2> QED
    BY <1>4, <2>2, <2>3, <2>4 DEF RightMoves, IsLost
<1> QED
  BY <1>4, <1>5 DEF CountNext

LEMMA EnqueueTestCount ==
    ASSUME CountInv, NEW event \in Events, EnqueueTest(event) PROVE CountNext
<1>1. TypeOK' /\ TypeOK
  BY EnqueueTestInv DEF CountInv, Inv
<1>2. lastId \in Nat /\ lastId' = lastId + 1 /\ lastId + 1 \in MailId
  BY <1>1, EmailOutboxAssumption DEF TypeOK, EnqueueTest
<1>3. /\ worker' = worker /\ faults' = faults /\ accepted' = accepted /\ sends' = sends
      /\ \A m \in MailId : m # lastId + 1 => mail'[m] = mail[m]
  BY <1>1 DEF EnqueueTest, wireVars, TypeOK
<1>4. /\ \A w \in Workers : Orderly(w)'
      /\ \A m \in MailId : Senders(m)' = Senders(m) /\ (Held(m)' <=> Held(m))
  BY <1>2, <1>3, HandsStay
<1>5. faults \in Nat /\ accepted \in [MailId -> Nat] /\ \A m \in MailId : m \in Nat
  BY <1>1, EmailOutboxAssumption DEF TypeOK, MailId
<1>6. ASSUME NEW m \in MailId PROVE Unborn(m)' /\ RightMoves(m)
  <2>1. Unborn(m)
    BY DEF CountInv
  <2>2. CASE m = lastId + 1
    <3>1. Unborn(m)'
      BY <1>2, <2>2 DEF Unborn
    <3>2. Senders(m)' = {} /\ accepted'[m] = 0
      BY <1>2, <1>3, <1>4, <1>5, <2>1, <2>2, NewMailIsFree DEF Unborn
    <3> QED
      BY <3>1, <3>2 DEF RightMoves, IsNew
  <2>3. CASE m # lastId + 1
    <3>1. Unborn(m)'
      BY <1>2, <1>3, <1>5, <2>1, <2>3 DEF Unborn
    <3>2. Loose(m)' => Loose(m)
      BY <1>3, <1>4, <2>3 DEF Loose
    <3>3. accepted'[m] <= accepted[m] /\ faults' >= faults
      BY <1>3, <1>5
    <3> QED
      BY <1>4, <3>1, <3>2, <3>3 DEF RightMoves, IsLost
  <2> QED
    BY <2>2, <2>3
<1> QED
  BY <1>4, <1>6 DEF CountNext

\* A row as a projection leaves it: new, rewritten, or as it was.
IsQueued(n, topic) ==
    /\ lastId < n /\ n <= lastId'
    /\ \E due \in BOOLEAN, u \in Users : user[u] = "active" /\ mail'[n] = NewMail(u, topic, due)
    /\ sends'[n] \in {0, sends[n]} /\ accepted'[n] \in {0, accepted[n]}
IsRewritten(n, topic, recipients) ==
    /\ ~(lastId < n /\ n <= lastId')
    /\ mail[n].status = "pending" /\ mail[n].topic = topic /\ mail[n].user \in recipients
    /\ user[mail[n].user] = "active"
    /\ \E due \in BOOLEAN : mail'[n] = Rewritten(mail[n], due)
    /\ sends'[n] = 0 /\ accepted'[n] = 0
IsLeft(n) ==
    /\ ~(lastId < n /\ n <= lastId')
    /\ mail'[n] = mail[n] /\ sends'[n] = sends[n] /\ accepted'[n] = accepted[n]

\* Every active recipient has a row with the projection's payload.
LEMMA EnqueueWrites ==
    ASSUME TypeOK, NEW topic \in Topics, NEW recipients \in SUBSET Users,
           Enqueue(topic, recipients), \A n \in MailId : n > lastId => mail[n].status = "none"
    PROVE  /\ lastId' \in Nat /\ lastId' >= lastId
           /\ \A n \in MailId : IsQueued(n, topic) \/ IsRewritten(n, topic, recipients) \/ IsLeft(n)
           /\ \A u \in recipients : user[u] = "active" =>
                 \E n \in MailId : \E due \in BOOLEAN :
                    \/ n > lastId /\ mail'[n] = NewMail(u, topic, due)
                    \/ /\ mail[n].user = u /\ mail[n].topic = topic
                       /\ mail'[n] = Rewritten(mail[n], due)
<1> DEFINE active == {u \in recipients : user[u] = "active"}
           reused == {u \in active : \E n \in MailId : Coalescable(n, u, topic)}
           fresh  == active \ reused
           ids    == lastId + 1 .. lastId + Cardinality(fresh)
           Written(due, owner, old) ==
             /\ \A u \in fresh : \E n \in ids : owner[n] = u
             /\ \A u \in reused :
                    /\ Coalescable(old[u], u, topic)
                    /\ \A n \in MailId :
                           Coalescable(n, u, topic) => mail[n].created <= mail[old[u]].created
             /\ mail' = [n \in MailId |->
                    IF n \in ids THEN NewMail(owner[n], topic, due)
                    ELSE IF \E u \in reused : old[u] = n
                         THEN Rewritten(mail[n], due)
                         ELSE mail[n]]
             /\ Reset({old[u] : u \in reused})
<1>1. \E due \in BOOLEAN : \E owner \in [ids -> fresh] : \E old \in [reused -> MailId] :
          Written(due, owner, old)
  BY Zenon DEF Enqueue
<1>2. /\ fresh \subseteq active /\ reused \subseteq active
      /\ active \subseteq Users /\ active \subseteq recipients
      /\ active = fresh \cup reused
      /\ \A u \in recipients : user[u] = "active" => u \in active
  OBVIOUS
<1>3. \A u \in active : user[u] = "active"
  OBVIOUS
<1>4. IsFiniteSet(fresh) /\ Cardinality(fresh) \in Nat
  BY <1>2, EmailOutboxAssumption, FS_Subset, FS_CardinalityType
<1>5. lastId' = lastId + Cardinality(fresh) /\ ids \subseteq MailId
  BY DEF Enqueue
<1>6. lastId \in Nat /\ \A n \in MailId : n \in Nat
  BY EmailOutboxAssumption DEF TypeOK, MailId
<1> HIDE DEF active, reused, fresh
<1>7. \A n \in MailId : n \in ids <=> lastId < n /\ n <= lastId'
  BY <1>4, <1>5, <1>6
<1>8. lastId' \in Nat /\ lastId' >= lastId
  BY <1>4, <1>5, <1>6
<1>9. \A n \in ids : n \in MailId /\ n > lastId
  BY <1>5, <1>6, <1>7
<1> HIDE DEF ids
<1>10. PICK due \in BOOLEAN : \E owner \in [ids -> fresh] : \E old \in [reused -> MailId] :
          Written(due, owner, old)
  BY <1>1, Zenon
<1>11. PICK owner \in [ids -> fresh] : \E old \in [reused -> MailId] :
          Written(due, owner, old)
  BY <1>10, Zenon
<1>12. PICK old \in [reused -> MailId] : Written(due, owner, old)
  BY <1>11, Zenon
<1>13. \A n \in MailId :
          mail'[n] = IF n \in ids THEN NewMail(owner[n], topic, due)
                     ELSE IF \E u \in reused : old[u] = n
                          THEN Rewritten(mail[n], due)
                          ELSE mail[n]
  BY <1>12
<1>14. /\ \A u \in fresh : \E n \in ids : owner[n] = u
       /\ \A u \in reused : old[u] \in MailId /\ Coalescable(old[u], u, topic)
  BY <1>12
<1>15. \A n \in MailId :
          /\ sends'[n] = IF \E u \in reused : old[u] = n THEN 0 ELSE sends[n]
          /\ accepted'[n] = IF \E u \in reused : old[u] = n THEN 0 ELSE accepted[n]
  BY <1>12 DEF Reset
<1> HIDE DEF Written
<1>16. ASSUME NEW n \in MailId
       PROVE  IsQueued(n, topic) \/ IsRewritten(n, topic, recipients) \/ IsLeft(n)
  <2>1. CASE n \in ids
    <3>1. mail'[n] = NewMail(owner[n], topic, due) /\ owner[n] \in Users /\ user[owner[n]] = "active"
      BY <1>2, <1>3, <1>13, <2>1
    <3> QED
      BY <1>7, <1>15, <2>1, <3>1 DEF IsQueued
  <2>2. CASE n \notin ids /\ \E u \in reused : old[u] = n
    <3>1. PICK u \in reused : old[u] = n
      BY <2>2
    <3>2. mail[n].status = "pending" /\ mail[n].topic = topic /\ mail[n].user = u
      BY <1>14, <3>1 DEF Coalescable
    <3>3. u \in recipients /\ user[u] = "active"
      BY <1>2, <1>3
    <3>4. mail'[n] = Rewritten(mail[n], due) /\ sends'[n] = 0 /\ accepted'[n] = 0
      BY <1>13, <1>15, <2>2
    <3> QED
      BY <1>7, <2>2, <3>2, <3>3, <3>4 DEF IsRewritten
  <2>3. CASE n \notin ids /\ ~\E u \in reused : old[u] = n
    BY <1>7, <1>13, <1>15, <2>3 DEF IsLeft
  <2> QED
    BY <2>1, <2>2, <2>3
<1>17. ASSUME NEW u \in recipients, user[u] = "active"
       PROVE  \E n \in MailId : \E d \in BOOLEAN :
                 \/ n > lastId /\ mail'[n] = NewMail(u, topic, d)
                 \/ /\ mail[n].user = u /\ mail[n].topic = topic
                    /\ mail'[n] = Rewritten(mail[n], d)
  <2>1. CASE u \in fresh
    <3>1. PICK n \in ids : owner[n] = u
      BY <1>14, <2>1
    <3> QED
      BY <1>9, <1>13, <3>1
  <2>2. CASE u \in reused
    <3>1. /\ old[u] \in MailId /\ mail[old[u]].user = u /\ mail[old[u]].topic = topic
      BY <1>14, <2>2 DEF Coalescable
    <3>2. old[u] \notin ids
      BY <1>9, <1>14, <2>2 DEF Coalescable
    <3> QED
      BY <1>13, <2>2, <3>1, <3>2
  <2> QED
    BY <1>2, <1>17, <2>1, <2>2
<1> QED
  BY <1>8, <1>16, <1>17

\* A projection rewrites only mail that anyone may take up.
LEMMA EnqueueCount ==
    ASSUME CountInv, NEW topic \in Topics, NEW recipients \in SUBSET Users,
           Enqueue(topic, recipients)
    PROVE  CountNext
<1>1. TypeOK' /\ TypeOK
  BY EnqueueInv DEF CountInv, Inv
<1>2. \A n \in MailId : Unborn(n) /\ (n > lastId => mail[n].status = "none")
  BY NoMailIsRow DEF CountInv, Unborn
<1>3. /\ lastId' \in Nat /\ lastId' >= lastId
      /\ \A n \in MailId : IsQueued(n, topic) \/ IsRewritten(n, topic, recipients) \/ IsLeft(n)
  BY <1>1, <1>2, EnqueueWrites
<1>4. worker' = worker /\ faults' = faults
  BY DEF Enqueue
<1>5. /\ \A w \in Workers : Orderly(w)'
      /\ \A m \in MailId : Senders(m)' = Senders(m) /\ (Held(m)' <=> Held(m))
  BY <1>3, <1>4, HandsStay
<1>6. /\ lastId \in Nat /\ faults \in Nat /\ accepted \in [MailId -> Nat]
      /\ \A m \in MailId : m \in Nat
  BY <1>1, EmailOutboxAssumption DEF TypeOK, MailId
<1>7. ASSUME NEW n \in MailId PROVE Unborn(n)' /\ RightMoves(n)
  <2>1. CASE IsQueued(n, topic)
    <3>1. lastId < n /\ n <= lastId' /\ accepted'[n] \in {0, accepted[n]}
      BY <2>1 DEF IsQueued
    <3>2. Senders(n)' = {} /\ accepted'[n] = 0
      BY <1>2, <1>5, <1>6, <3>1, NewMailIsFree DEF Unborn
    <3>3. Unborn(n)'
      BY <1>3, <1>6, <3>1 DEF Unborn
    <3> QED
      BY <3>2, <3>3 DEF RightMoves, IsNew
  <2>2. CASE IsRewritten(n, topic, recipients)
    <3>1. mail[n].status = "pending" /\ ~(n > lastId) /\ accepted'[n] = 0
      BY <1>2, <2>2 DEF IsRewritten
    <3>2. Unborn(n)'
      BY <1>3, <1>6, <3>1 DEF Unborn
    <3>3. Loose(n) /\ accepted'[n] <= accepted[n] /\ faults' >= faults
      BY <1>4, <1>6, <3>1 DEF Loose
    <3> QED
      BY <1>5, <3>2, <3>3 DEF RightMoves, IsLost
  <2>3. CASE IsLeft(n)
    <3>1. mail'[n] = mail[n] /\ sends'[n] = sends[n] /\ accepted'[n] = accepted[n]
      BY <2>3 DEF IsLeft
    <3>2. n > lastId' => n > lastId
      BY <1>3, <1>6
    <3>3. Unborn(n)'
      BY <1>2, <3>1, <3>2 DEF Unborn
    <3>4. (Loose(n)' => Loose(n)) /\ accepted'[n] <= accepted[n] /\ faults' >= faults
      BY <1>4, <1>5, <1>6, <3>1 DEF Loose
    <3> QED
      BY <1>5, <3>3, <3>4 DEF RightMoves, IsLost
  <2> QED
    BY <1>3, <2>1, <2>2, <2>3
<1> QED
  BY <1>5, <1>7 DEF CountNext

-----------------------------------------------------------------------------
(* The worker's steps.                                                     *)

\* Rows that a worker marks were queued before.
LEMMA MarksAreBorn ==
    ASSUME CountInv, lastId' = lastId, sends' = sends, accepted' = accepted,
           \A n \in MailId : mail'[n] = mail[n] \/ Exists(n)
    PROVE  \A n \in MailId : Unborn(n)'
<1>1. ASSUME NEW n \in MailId, n > lastId PROVE mail'[n] = mail[n] /\ Unborn(n)
  BY <1>1, NoMailIsRow DEF CountInv, Unborn, Exists
<1> QED
  BY <1>1 DEF Unborn

\* A worker that goes on gives up one right, and the others stay.
LEMMA GoesOnCount ==
    ASSUME CountInv, NEW w \in Workers, worker[w].pc # "idle", NextInBatch(w),
           lastId' = lastId
    PROVE  /\ \A v \in Workers : Orderly(v)'
           /\ \A n \in MailId :
                 IF n = Current(w).id
                 THEN Senders(n)' = Senders(n) \ {w}
                 ELSE Senders(n)' = Senders(n) /\ (Held(n)' <=> Held(n))
<1> DEFINE c == Current(w).id
<1>1. /\ c \in InHand(w)
      /\ InHand(w)' = InHand(w) \ {c}
      /\ NoTwice(worker'[w].batch)
      /\ worker'[w].pc \in {"idle", "send"}
      /\ worker'[w].pc = "idle" => worker'[w].batch = <<>>
      /\ \A v \in Workers : v # w => worker'[v] = worker[v]
  BY LetsGo
<1>2. \A v \in Workers : v # w => InHand(v)' = InHand(v) /\ Current(v)' = Current(v)
  BY <1>1 DEF InHand, Current
<1>3. \A v \in Workers : Orderly(v)'
  BY <1>1, <1>2 DEF CountInv, Orderly
<1>4. \A v \in Workers, n \in MailId : v # w => (MaySend(v, n)' <=> MaySend(v, n))
  BY <1>1, <1>2 DEF MaySend
<1>5. \A n \in MailId : MaySend(w, n)' <=> n \in InHand(w) /\ n # c
  BY <1>1 DEF MaySend
<1>6. \A n \in MailId : n # c => (MaySend(w, n) <=> n \in InHand(w))
  BY DEF MaySend
<1>8. ASSUME NEW n \in MailId, n = c PROVE Senders(n)' = Senders(n) \ {w}
  BY <1>4, <1>5, <1>8 DEF Senders
<1>9. ASSUME NEW n \in MailId, n # c PROVE Senders(n)' = Senders(n) /\ (Held(n)' <=> Held(n))
  <2>1. Senders(n)' = Senders(n)
    BY <1>4, <1>5, <1>6, <1>9 DEF Senders
  <2>2. \A v \in Workers : n \in InHand(v)' <=> n \in InHand(v)
    BY <1>1, <1>2, <1>9
  <2>3. Held(n)' <=> \E v \in Workers : n \in InHand(v)'
    BY DEF Held, InHand, IdsOf
  <2> QED
    BY <2>1, <2>2, <2>3, HeldIsInHand
<1> QED
  BY <1>3, <1>8, <1>9

\* Only rows in nobody's charge are claimed.
LEMMA ClaimCount == ASSUME CountInv, NEW w \in Workers, Claim(w) PROVE CountNext
<1>1. TypeOK' /\ TypeOK
  BY ClaimInv DEF CountInv, Inv
<1>2. PICK k \in 1..BatchSize : \E ids \in [1..k -> ClaimableIds] :
        /\ IsNextBatch(ids)
        /\ mail' = [n \in MailId |-> IF \E i \in 1..k : ids[i] = n
                                     THEN Taken(mail[n]) ELSE mail[n]]
        /\ worker' = [worker EXCEPT ![w] = Holding("send",
              [i \in 1..k |-> [id |-> ids[i], payload |-> mail[ids[i]].payload]])]
  BY DEF Claim
<1>3. PICK ids \in [1..k -> ClaimableIds] :
        /\ IsNextBatch(ids)
        /\ mail' = [n \in MailId |-> IF \E i \in 1..k : ids[i] = n
                                     THEN Taken(mail[n]) ELSE mail[n]]
        /\ worker' = [worker EXCEPT ![w] = Holding("send",
              [i \in 1..k |-> [id |-> ids[i], payload |-> mail[ids[i]].payload]])]
  BY <1>2
<1> DEFINE batch == [i \in 1..k |-> [id |-> ids[i], payload |-> mail[ids[i]].payload]]
           taken == {ids[i] : i \in 1..k}
<1>4. /\ worker[w].pc = "idle" /\ worker[w].batch = <<>>
      /\ UNCHANGED <<lastId, accepted, sends, faults>>
  BY DEF Claim, CountInv, Orderly, queueVars, wireVars
<1>5. /\ worker'[w].pc = "send" /\ worker'[w].batch = batch
      /\ \A v \in Workers : v # w => worker'[v] = worker[v]
  BY <1>1, <1>3 DEF Holding, TypeOK
<1>6. IdsOf(batch) = taken /\ NoTwice(batch)
  <2>1. DOMAIN ids = 1..k /\ DOMAIN batch = 1..k /\ \A i \in 1..k : batch[i].id = ids[i]
    OBVIOUS
  <2>2. \A i, j \in 1..k : i < j => ids[i] # ids[j]
    BY <1>3, <2>1 DEF IsNextBatch
  <2>3. \A i, j \in 1..k : i # j => i < j \/ j < i
    OBVIOUS
  <2>4. \A i, j \in 1..k : i # j => ids[i] # ids[j]
    BY <2>2, <2>3
  <2> QED
    BY <2>1, <2>4 DEF IdsOf, NoTwice
<1>7. \A n \in taken : n \in MailId /\ Claimable(n)
  BY DEF ClaimableIds
<1>8. \A n \in MailId : mail'[n] = IF n \in taken THEN Taken(mail[n]) ELSE mail[n]
  BY <1>3
<1> HIDE DEF batch, taken
<1>9. \A v \in Workers : v # w => InHand(v)' = InHand(v) /\ Current(v)' = Current(v)
  BY <1>5 DEF InHand, Current
<1>10. InHand(w) = {} /\ InHand(w)' = taken
  BY <1>4, <1>5, <1>6 DEF InHand, IdsOf
<1>11. \A n \in MailId : Unborn(n)
  BY DEF CountInv
<1>12. \A n \in taken : n \in 1..lastId
  <2>1. ASSUME NEW n \in taken PROVE ~(n > lastId)
    BY <1>7, <1>11, NoMailIsRow DEF Claimable, Unborn
  <2> QED
    BY <1>1, <1>7, <2>1, EmailOutboxAssumption DEF MailId, TypeOK
<1>13. \A v \in Workers : Orderly(v)'
  BY <1>4, <1>5, <1>6, <1>9, <1>10, <1>12 DEF CountInv, Orderly
<1>14. ASSUME NEW n \in MailId PROVE Unborn(n)' /\ RightMoves(n)
  <2>0. \A v \in Workers : v # w => (MaySend(v, n)' <=> MaySend(v, n))
    BY <1>5, <1>9 DEF MaySend
  <2>1. ~MaySend(w, n) /\ (MaySend(w, n)' <=> n \in taken)
    BY <1>5, <1>10 DEF MaySend
  <2>2. Held(n)' <=> Held(n) \/ n \in taken
    <3>1. Held(n)' <=> \E v \in Workers : n \in InHand(v)'
      BY DEF Held, InHand, IdsOf
    <3> QED
      BY <1>9, <1>10, <3>1, HeldIsInHand
  <2>3. mail[n] \in MailRow /\ faults \in Nat /\ accepted[n] \in Nat
    BY <1>1, EmailOutboxAssumption DEF TypeOK
  <2>4. CASE n \in taken
    <3>1. Unborn(n)'
      BY <1>1, <1>4, <1>12, <2>4, EmailOutboxAssumption DEF Unborn, TypeOK
    <3>2. mail'[n].status = "sending" /\ mail'[n].leased
      BY <1>8, <2>3, <2>4 DEF Taken, MailRow
    <3>3. Loose(n) /\ ~Loose(n)'
      BY <1>7, <2>2, <2>4, <3>2 DEF Loose, Claimable
    <3>4. Senders(n)' = Senders(n) \cup {w}
      BY <2>0, <2>1, <2>4 DEF Senders
    <3>5. accepted'[n] = accepted[n] /\ faults' = faults
      BY <1>4
    <3> QED
      BY <3>1, <3>3, <3>4, <3>5 DEF RightMoves, IsTakenUp
  <2>5. CASE n \notin taken
    <3>1. Unborn(n)'
      BY <1>4, <1>8, <1>11, <2>5 DEF Unborn
    <3>2. Loose(n)' => Loose(n)
      BY <1>8, <2>2, <2>5 DEF Loose
    <3>3. Senders(n)' = Senders(n)
      BY <2>0, <2>1, <2>5 DEF Senders
    <3>4. accepted'[n] <= accepted[n] /\ faults' >= faults
      BY <1>4, <2>3
    <3> QED
      BY <3>1, <3>2, <3>3, <3>4 DEF RightMoves, IsLost
  <2> QED
    BY <2>4, <2>5
<1> QED
  BY <1>13, <1>14 DEF CountNext

\* What the server accepts, nobody may send any more without a fault.
LEMMA SendCount == ASSUME CountInv, NEW w \in Workers, Send(w) PROVE CountNext
<1> DEFINE c == Current(w).id
<1>1. TypeOK' /\ TypeOK
  BY SendInv DEF CountInv, Inv
<1>0. PICK arrived \in BOOLEAN : \E ok \in {FALSE, arrived} :
        /\ accepted' = IF ok THEN [accepted EXCEPT ![c] = @ + 1] ELSE accepted
        /\ worker' = [worker EXCEPT ![w].pc = AfterSend(ok)]
  BY Zenon DEF Send
<1>2. PICK ok \in {FALSE, arrived} :
        /\ accepted' = IF ok THEN [accepted EXCEPT ![c] = @ + 1] ELSE accepted
        /\ worker' = [worker EXCEPT ![w].pc = AfterSend(ok)]
  BY <1>0, Zenon
<1>3. /\ worker[w].pc = "send" /\ UNCHANGED <<mail, lastId, faults>>
      /\ sends' = [sends EXCEPT ![c] = @ + 1]
  BY DEF Send, queueVars
<1>4. c \in MailId /\ worker[w].batch \in Seq(Copy) /\ worker[w].batch # <<>>
  BY <1>1, <1>3, CurrentIsCopy DEF CountInv, Inv, Busy, TypeOK, WorkerState
<1>5. c \in InHand(w)
  BY <1>4, RestOfBatch DEF CountInv, Orderly, InHand, Current
<1>6. /\ worker'[w].pc = AfterSend(ok) /\ worker'[w].batch = worker[w].batch
      /\ \A v \in Workers : v # w => worker'[v] = worker[v]
  BY <1>1, <1>2 DEF TypeOK, WorkerState
<1>7. \A v \in Workers : InHand(v)' = InHand(v) /\ Current(v)' = Current(v)
  BY <1>6 DEF InHand, Current
<1>8. \A v \in Workers : Orderly(v)'
  BY <1>3, <1>6, <1>7 DEF CountInv, Orderly, AfterSend
<1>9. \A n \in MailId : Held(n)' <=> Held(n)
  BY <1>6 DEF Held
<1>10. \A n \in MailId : Loose(n)' <=> Loose(n)
  BY <1>3, <1>9 DEF Loose
<1>11. \A n \in MailId, v \in Workers : v # w => (MaySend(v, n)' <=> MaySend(v, n))
  BY <1>6, <1>7 DEF MaySend
<1>12. \A n \in MailId : MaySend(w, n)' <=> MaySend(w, n) /\ ~(ok /\ n = c)
  BY <1>3, <1>6, <1>7 DEF MaySend, AfterSend
<1>13. MaySend(w, c)
  BY <1>3, <1>5 DEF MaySend
<1>14. faults \in Nat /\ accepted \in [MailId -> Nat] /\ \A n \in MailId : n \in Nat
  BY <1>1, EmailOutboxAssumption DEF TypeOK, MailId
<1>15. ASSUME NEW n \in MailId PROVE Unborn(n)' /\ RightMoves(n)
  <2>1. Unborn(n)'
    <3>1. CASE n = c
      <4>1. c \in 1..lastId
        BY <1>5 DEF CountInv, Orderly
      <4> QED
        BY <1>1, <1>3, <3>1, <4>1, EmailOutboxAssumption DEF Unborn, TypeOK
    <3>2. CASE n # c
      <4>1. accepted'[n] = accepted[n] /\ sends'[n] = sends[n]
        BY <1>1, <1>2, <1>3, <3>2 DEF TypeOK
      <4> QED
        BY <1>3, <4>1 DEF CountInv, Unborn
    <3> QED
      BY <3>1, <3>2
  <2>2. CASE ok /\ n = c
    <3>1. w \in Senders(n) /\ Senders(n)' = Senders(n) \ {w}
      BY <1>11, <1>12, <1>13, <2>2 DEF Senders
    <3>2. accepted'[n] = accepted[n] + 1 /\ faults' = faults
      BY <1>2, <1>3, <1>14, <2>2
    <3> QED
      BY <1>10, <2>1, <3>1, <3>2 DEF RightMoves, IsUsed
  <2>3. CASE ~(ok /\ n = c)
    <3>1. Senders(n)' = Senders(n)
      BY <1>11, <1>12, <2>3 DEF Senders
    <3>2. accepted'[n] <= accepted[n] /\ faults' >= faults
      BY <1>2, <1>3, <1>14, <2>3
    <3> QED
      BY <1>10, <2>1, <3>1, <3>2 DEF RightMoves, IsLost
  <2> QED
    BY <2>2, <2>3
<1> QED
  BY <1>8, <1>15 DEF CountNext

\* Nothing is sent once the row says so, even after the lease was lost.
LEMMA MarkSentCount == ASSUME CountInv, NEW w \in Workers, MarkSent(w) PROVE CountNext
<1> DEFINE c == Current(w).id
<1>1. TypeOK' /\ TypeOK
  BY MarkSentInv DEF CountInv, Inv
<1>2. /\ worker[w].pc = "sent" /\ NextInBatch(w)
      /\ UNCHANGED <<lastId, sends, accepted, faults>>
  BY DEF MarkSent, queueVars, wireVars
<1>3. /\ \A v \in Workers : Orderly(v)'
      /\ \A n \in MailId :
            IF n = c THEN Senders(n)' = Senders(n) \ {w}
            ELSE Senders(n)' = Senders(n) /\ (Held(n)' <=> Held(n))
  BY <1>2, GoesOnCount
<1>4. c \in MailId /\ mail[c] \in MailRow /\ faults \in Nat /\ accepted \in [MailId -> Nat]
  BY <1>1, <1>2, CurrentIsCopy, EmailOutboxAssumption DEF CountInv, Inv, TypeOK
<1>5. \A n \in MailId : n # c => mail'[n] = mail[n]
  BY <1>1 DEF MarkSent, TypeOK
<1>6. Exists(c) => mail'[c].status = "sent"
  BY <1>1, <1>4 DEF MarkSent, TypeOK, MailRow
<1>7. ~Exists(c) => mail'[c] = mail[c]
  BY <1>4 DEF MarkSent
<1>8. \A n \in MailId : Unborn(n)'
  BY <1>2, <1>5, <1>7, MarksAreBorn
<1>9. ASSUME NEW n \in MailId PROVE IsLost(n)
  <2>1. accepted'[n] <= accepted[n] /\ faults' >= faults
    BY <1>2, <1>4
  <2>2. CASE n = c
    BY <1>3, <1>6, <1>7, <2>1, <2>2 DEF IsLost, Loose, Exists
  <2>3. CASE n # c
    BY <1>3, <1>5, <2>1, <2>3 DEF IsLost, Loose
  <2> QED
    BY <2>2, <2>3
<1> QED
  BY <1>3, <1>8, <1>9 DEF CountNext, RightMoves

\* A mail whose row has gone is given up.
LEMMA ReadAttemptsCount == ASSUME CountInv, NEW w \in Workers, ReadAttempts(w) PROVE CountNext
<1> DEFINE c == Current(w).id
<1>1. TypeOK' /\ TypeOK
  BY ReadAttemptsInv DEF CountInv, Inv
<1>2. worker[w].pc = "read" /\ UNCHANGED <<mail, lastId, sends, accepted, faults>>
  BY DEF ReadAttempts, queueVars, wireVars
<1>3. \A n \in MailId : Unborn(n)'
  BY <1>2, MarksAreBorn
<1>4. faults \in Nat /\ accepted \in [MailId -> Nat]
  BY <1>1, EmailOutboxAssumption DEF TypeOK
<1>5. CASE Exists(c)
  <2>1. worker' = [worker EXCEPT ![w] = [worker[w] EXCEPT !.pc = "write",
                                                 !.seen = mail[c].attempts]]
    BY <1>1, <1>5 DEF ReadAttempts, TypeOK
  <2>2. /\ worker'[w].pc = "write" /\ worker'[w].batch = worker[w].batch
        /\ \A v \in Workers : v # w => worker'[v] = worker[v]
    BY <1>1, <2>1 DEF TypeOK, WorkerState
  <2>3. \A v \in Workers : InHand(v)' = InHand(v) /\ Current(v)' = Current(v)
    BY <2>2 DEF InHand, Current
  <2>4. \A v \in Workers : Orderly(v)'
    BY <1>2, <2>2, <2>3 DEF CountInv, Orderly
  <2>5. \A n \in MailId : Held(n)' <=> Held(n)
    BY <2>2 DEF Held
  <2>6. \A n \in MailId, v \in Workers : MaySend(v, n)' <=> MaySend(v, n)
    BY <1>2, <2>2, <2>3 DEF MaySend
  <2>7. \A n \in MailId : Senders(n)' = Senders(n)
    BY <2>6 DEF Senders
  <2>8. \A n \in MailId : Loose(n)' <=> Loose(n)
    BY <1>2, <2>5 DEF Loose
  <2> QED
    BY <1>2, <1>3, <1>4, <2>4, <2>7, <2>8 DEF CountNext, RightMoves, IsLost
<1>6. CASE ~Exists(c)
  <2>1. NextInBatch(w)
    BY <1>6 DEF ReadAttempts
  <2>2. /\ \A v \in Workers : Orderly(v)'
        /\ \A n \in MailId :
              IF n = c THEN Senders(n)' = Senders(n) \ {w}
              ELSE Senders(n)' = Senders(n) /\ (Held(n)' <=> Held(n))
    BY <1>2, <2>1, GoesOnCount
  <2>3. ASSUME NEW n \in MailId PROVE IsLost(n)
    <3>1. Loose(n)' => Loose(n)
      BY <1>2, <1>6, <2>2 DEF Loose, Exists
    <3> QED
      BY <1>2, <1>4, <2>2, <3>1 DEF IsLost
  <2> QED
    BY <1>3, <2>2, <2>3 DEF CountNext, RightMoves
<1> QED
  BY <1>5, <1>6

\* A mail that was not accepted is given back.
LEMMA MarkFailedCount == ASSUME CountInv, NEW w \in Workers, MarkFailed(w) PROVE CountNext
<1> DEFINE c == Current(w).id
<1>1. TypeOK' /\ TypeOK
  BY MarkFailedInv DEF CountInv, Inv
<1>2. /\ worker[w].pc = "write" /\ NextInBatch(w)
      /\ UNCHANGED <<lastId, sends, accepted, faults>>
  BY DEF MarkFailed, queueVars, wireVars
<1>3. /\ \A v \in Workers : Orderly(v)'
      /\ \A n \in MailId :
            IF n = c THEN Senders(n)' = Senders(n) \ {w}
            ELSE Senders(n)' = Senders(n) /\ (Held(n)' <=> Held(n))
  BY <1>2, GoesOnCount
<1>4. /\ c \in MailId /\ faults \in Nat /\ accepted \in [MailId -> Nat]
      /\ worker[w].batch \in Seq(Copy) /\ worker[w].batch # <<>>
  BY <1>1, <1>2, CurrentIsCopy, EmailOutboxAssumption
     DEF CountInv, Inv, Busy, TypeOK, WorkerState
<1>5. \A n \in MailId : n # c => mail'[n] = mail[n]
  BY <1>1 DEF MarkFailed, TypeOK
<1>6. ~Exists(c) => mail'[c] = mail[c]
  BY <1>4 DEF MarkFailed
<1>7. \A n \in MailId : Unborn(n)'
  BY <1>2, <1>5, <1>6, MarksAreBorn
<1>8. c \in InHand(w)
  BY <1>4, RestOfBatch DEF CountInv, Orderly, InHand, Current
<1>9. ASSUME NEW n \in MailId PROVE RightMoves(n)
  <2>1. CASE n = c
    <3>1. w \in Senders(n)
      BY <1>2, <1>8, <2>1 DEF Senders, MaySend
    <3> QED
      BY <1>2, <1>3, <2>1, <3>1 DEF RightMoves, IsGivenBack
  <2>2. CASE n # c
    <3>1. Loose(n)' => Loose(n)
      BY <1>3, <1>5, <2>2 DEF Loose
    <3> QED
      BY <1>2, <1>3, <1>4, <2>2, <3>1 DEF RightMoves, IsLost
  <2> QED
    BY <2>1, <2>2
<1> QED
  BY <1>3, <1>7, <1>9 DEF CountNext

\* Whatever is not marked is paid for by the fault.
LEMMA MarkFailsCount == ASSUME CountInv, NEW w \in Workers, MarkFails(w) PROVE CountNext
<1>1. TypeOK' /\ TypeOK
  BY MarkFailsInv DEF CountInv, Inv
<1>2. /\ worker[w].pc # "idle" /\ NextInBatch(w)
      /\ UNCHANGED <<mail, lastId, sends, accepted>> /\ faults' = faults + 1
  BY DEF MarkFails, Fault, queueVars, wireVars
<1>3. /\ \A v \in Workers : Orderly(v)'
      /\ \A n \in MailId : Senders(n)' \subseteq Senders(n)
  BY <1>2, GoesOnCount
<1>4. \A n \in MailId : Unborn(n)'
  BY <1>2, MarksAreBorn
<1>5. accepted \in [MailId -> Nat]
  BY <1>1 DEF TypeOK
<1>6. \A n \in MailId : IsPaid(n)
  BY <1>2, <1>3, <1>5 DEF IsPaid
<1> QED
  BY <1>3, <1>4, <1>6 DEF CountNext, RightMoves

LEMMA AbandonCount == ASSUME CountInv, NEW w \in Workers, Abandon(w) PROVE CountNext
<1>1. TypeOK' /\ TypeOK
  BY AbandonInv DEF CountInv, Inv
<1>2. /\ worker' = [worker EXCEPT ![w] = Idle]
      /\ UNCHANGED <<mail, lastId, sends, accepted>> /\ faults' = faults + 1
  BY DEF Abandon, Fault, queueVars, wireVars
<1>3. /\ worker'[w].pc = "idle" /\ worker'[w].batch = <<>>
      /\ \A v \in Workers : v # w => worker'[v] = worker[v]
  BY <1>1, <1>2 DEF TypeOK, Idle, Holding
<1>4. InHand(w)' = {} /\ NoTwice(<<>>)
  BY <1>3 DEF InHand, IdsOf, NoTwice
<1>5. \A v \in Workers : v # w => InHand(v)' = InHand(v) /\ Current(v)' = Current(v)
  BY <1>3 DEF InHand, Current
<1>6. \A v \in Workers : Orderly(v)'
  BY <1>2, <1>3, <1>4, <1>5 DEF CountInv, Orderly
<1>7. \A n \in MailId, v \in Workers : MaySend(v, n)' => MaySend(v, n)
  BY <1>3, <1>4, <1>5 DEF MaySend
<1>8. \A n \in MailId : Senders(n)' \subseteq Senders(n)
  BY <1>7 DEF Senders
<1>9. \A n \in MailId : Unborn(n)'
  BY <1>2, MarksAreBorn
<1>10. accepted \in [MailId -> Nat]
  BY <1>1 DEF TypeOK
<1>11. \A n \in MailId : IsPaid(n)
  BY <1>2, <1>8, <1>10 DEF IsPaid
<1> QED
  BY <1>6, <1>9, <1>11 DEF CountNext, RightMoves

\* A lease that nobody has in hand any more makes nothing new possible; another
\* one is a fault.
LEMMA LeaseExpiresCount == ASSUME CountInv, NEW n \in MailId, LeaseExpires(n) PROVE CountNext
<1>1. TypeOK' /\ TypeOK
  BY LeaseExpiresInv DEF CountInv, Inv
<1>2. /\ UNCHANGED <<worker, lastId, sends, accepted>>
      /\ mail[n].status = "sending" /\ mail[n].leased
      /\ IF Held(n) THEN faults' = faults + 1 ELSE faults' = faults
      /\ \A m \in MailId : m # n => mail'[m] = mail[m]
  BY <1>1 DEF LeaseExpires, Fault, queueVars, wireVars, TypeOK
<1>3. lastId \in Nat /\ faults \in Nat /\ accepted \in [MailId -> Nat]
  BY <1>1, EmailOutboxAssumption DEF TypeOK
<1>4. /\ \A w \in Workers : Orderly(w)'
      /\ \A m \in MailId : Senders(m)' = Senders(m) /\ (Held(m)' <=> Held(m))
  BY <1>2, <1>3, HandsStay
<1>5. Exists(n)
  BY <1>2 DEF Exists
<1>6. \A m \in MailId : Unborn(m)'
  BY <1>2, <1>5, MarksAreBorn
<1>7. ASSUME NEW m \in MailId PROVE RightMoves(m)
  <2>1. CASE m = n /\ Held(n)
    BY <1>2, <1>3, <1>4, <2>1 DEF RightMoves, IsPaid
  <2>2. CASE m = n /\ ~Held(n)
    <3>1. Loose(m)
      BY <1>2, <2>2 DEF Loose
    <3> QED
      BY <1>2, <1>3, <1>4, <2>2, <3>1 DEF RightMoves, IsLost
  <2>3. CASE m # n
    <3>1. Loose(m)' => Loose(m)
      BY <1>2, <1>4, <2>3 DEF Loose
    <3> QED
      BY <1>2, <1>3, <1>4, <3>1 DEF RightMoves, IsLost
  <2> QED
    BY <2>1, <2>2, <2>3
<1> QED
  BY <1>4, <1>6, <1>7 DEF CountNext

-----------------------------------------------------------------------------
LEMMA InitCount == Init => CountInv
<1> SUFFICES ASSUME Init PROVE CountInv
  OBVIOUS
<1>1. Inv
  BY InitInv
<1>2. \A w \in Workers : worker[w].pc = "idle" /\ worker[w].batch = <<>>
  BY DEF Init, Idle, Holding
<1>3. IdsOf(<<>>) = {} /\ NoTwice(<<>>)
  BY DEF IdsOf, NoTwice
<1>4. \A w \in Workers : Orderly(w)
  BY <1>2, <1>3 DEF Orderly, InHand
<1>5. ASSUME NEW n \in MailId PROVE Unborn(n) /\ Counted(n)
  <2>1. mail[n] = NoMail /\ accepted[n] = 0 /\ sends[n] = 0 /\ faults = 0
    BY DEF Init
  <2>2. Senders(n) = {}
    BY <1>2, <1>3 DEF Senders, MaySend, InHand
  <2>3. IsFiniteSet(Senders(n)) /\ Cardinality(Senders(n)) = 0
    BY <2>2, FS_EmptySet
  <2> QED
    BY <2>1, <2>3 DEF Unborn, Counted
<1> QED
  BY <1>1, <1>4, <1>5 DEF CountInv

LEMMA NextCount == CountInv /\ [Next]_vars => CountInv'
<1> SUFFICES ASSUME CountInv, [Next]_vars PROVE CountInv'
  OBVIOUS
<1>1. Inv' /\ TypeOK' /\ TypeOK
  BY NextInv DEF CountInv, Inv
<1>2. SUFFICES CountNext
  BY <1>1, <1>2, RightsAreCounted DEF CountInv, CountNext
<1>3. CASE Handler
  BY <1>3, DisableUserCount, EnableUserCount, DeleteUserCount, DeleteTicketCount, EnqueueCount,
     EnqueueTestCount, RetryCount DEF Handler
<1>4. ASSUME NEW w \in Workers, Deliver(w) \/ MarkFails(w) \/ Abandon(w) PROVE CountNext
  BY <1>4, ClaimCount, SendCount, MarkSentCount, ReadAttemptsCount, MarkFailedCount,
     MarkFailsCount, AbandonCount DEF Deliver
<1>5. ASSUME NEW n \in MailId, LeaseExpires(n) \/ BecomesDue(n) PROVE CountNext
  BY <1>5, LeaseExpiresCount, BecomesDueCount
<1>6. CASE UNCHANGED vars
  BY <1>1, <1>6, RowsAreMarked DEF vars, queueVars, wireVars
<1> QED
  BY <1>3, <1>4, <1>5, <1>6 DEF Next

LEMMA CountInvariance == Spec => []CountInv
  BY InitCount, NextCount, PTL DEF Spec

\* A mail that the server accepted is sent again only because of a fault, however
\* many workers there are: whoever may still have it accepted, and whoever may
\* take it up, are no more than one and the faults.
THEOREM MailIsAcceptedOnce == Spec => []AcceptedOnce
<1>1. CountInv => AcceptedOnce
  <2> SUFFICES ASSUME CountInv, NEW n \in MailId PROVE accepted[n] <= 1 + faults
    BY DEF AcceptedOnce
  <2>1. IsFiniteSet(Senders(n)) /\ Cardinality(Senders(n)) \in Nat
    BY FS_CardinalityType DEF CountInv, Counted
  <2>2. accepted[n] + Cardinality(Senders(n)) + (IF Loose(n) THEN 1 ELSE 0) <= 1 + faults
    BY DEF CountInv, Counted
  <2>3. accepted[n] \in Nat /\ faults \in Nat
    BY EmailOutboxAssumption DEF CountInv, Inv, TypeOK
  <2> QED
    BY <2>1, <2>2, <2>3
<1> QED
  BY <1>1, CountInvariance, PTL

-----------------------------------------------------------------------------
(* What one worker keeps.                                                  *)

\* The database lock admits one process, and it runs one mail worker.
OneWorker == \A v, w \in Workers : v = w

\* A worker that has sent its mail and has not marked it.
UnderWay(n) ==
    \E w \in Workers : worker[w].pc \in {"sent", "read", "write"} /\ Current(w).id = n
Pass(n) == IF UnderWay(n) THEN 1 ELSE 0

\* A copy in hand is what the row says, unless the row has gone.
CopyIsTrue(w) ==
    \A i \in DOMAIN worker[w].batch :
        LET n == worker[w].batch[i].id IN
        /\ mail[n].status \in {"sending", "gone"}
        /\ Exists(n) => worker[w].batch[i].payload = mail[n].payload

StepIsTrue(w) ==
    /\ worker[w].pc = "sent" => Current(w).payload \in received[Current(w).id]
    /\ worker[w].pc = "write" /\ Exists(Current(w).id)
           => worker[w].seen = mail[Current(w).id].attempts

\* A row counts its attempts, but for the one under way and those lost to faults.
Attempted(n) ==
    /\ mail[n].status \in {"pending", "sending"} \/ Held(n)
           => /\ mail[n].attempts < MaxAttempts
              /\ sends[n] <= mail[n].attempts + Pass(n) + faults
    /\ mail[n].status \in {"pending", "sending"} => sends[n] >= mail[n].attempts + Pass(n)
    /\ mail[n].status = "sent" => mail[n].payload \in received[n]
    /\ mail[n].status = "failed" => sends[n] >= MaxAttempts
    /\ sends[n] <= MaxAttempts + faults

\* What an account that is not active was sent is not asked for.
Quiet(u) == user[u] # "active" => \A t \in Topics : newest[u][t] = 0

\* The row that holds the last payload queued for an account.
Bears(n, u, t, p) ==
    /\ mail[n].user = u /\ mail[n].topic = t /\ mail[n].payload = p
    /\ mail[n].status \in {"pending", "sending", "failed"} \/ p \in received[n]
Answered(u, t) ==
    user[u] = "active" /\ newest[u][t] > 0 => \E n \in MailId : Bears(n, u, t, newest[u][t])

WorkInv ==
    /\ \A w \in Workers : CopyIsTrue(w) /\ StepIsTrue(w)
    /\ \A n \in MailId : Attempted(n)
NewestInv ==
    \A u \in Users : Quiet(u) /\ \A t \in live \cup Events : Answered(u, t)

KeptInv == OneWorker /\ CountInv /\ WorkInv /\ NewestInv

-----------------------------------------------------------------------------
\* The topics of live tickets and events are topics.
LEMMA TopicsAsked == ASSUME TypeOK PROVE live \cup Events \subseteq Topics
  BY DEF TypeOK, Topics

\* The last payload stays with its row, when rows of the account and the topic
\* keep what they say.
LEMMA AnswersStay ==
    ASSUME TypeOK, NewestInv, live' \subseteq live,
           \A u \in Users : IF user'[u] = "active" THEN newest'[u] = newest[u]
                            ELSE \A t \in Topics : newest'[u][t] = 0,
           \A n \in MailId : received[n] \subseteq received'[n],
           \A n \in MailId :
              mail[n].user \in Users /\ user'[mail[n].user] = "active"
                             /\ mail[n].topic \in live' \cup Events =>
                 /\ mail'[n].user = mail[n].user /\ mail'[n].topic = mail[n].topic
                 /\ mail'[n].payload = mail[n].payload
                 /\ mail[n].status \in {"pending", "sending", "failed"} =>
                       \/ mail'[n].status \in {"pending", "sending", "failed"}
                       \/ mail[n].payload \in received'[n]
    PROVE  NewestInv'
<1>1. ASSUME NEW u \in Users PROVE Quiet(u)'
  BY DEF Quiet
<1>2. ASSUME NEW u \in Users, NEW t \in live' \cup Events PROVE Answered(u, t)'
  <2> SUFFICES ASSUME user'[u] = "active", newest'[u][t] = newest[u][t], newest[u][t] > 0
               PROVE  \E n \in MailId : Bears(n, u, t, newest[u][t])'
    BY Zenon DEF Answered
  <2>1. t \in live \cup Events /\ t \in Topics
    BY TopicsAsked
  <2>2. user[u] = "active"
    <3>1. Quiet(u) /\ newest[u][t] # 0
      BY DEF NewestInv, TypeOK, Version
    <3> QED
      BY <2>1, <3>1 DEF Quiet
  <2>3. PICK n \in MailId : Bears(n, u, t, newest[u][t])
    BY <2>1, <2>2 DEF NewestInv, Answered
  <2>4. Bears(n, u, t, newest[u][t])'
    BY <2>3, <1>2 DEF Bears
  <2> QED
    BY <2>4
<1> QED
  BY <1>1, <1>2 DEF NewestInv

\* What a worker has in hand are copies of rows.
LEMMA CopiesAreOfMail ==
    ASSUME TypeOK, NEW w \in Workers, NEW i \in DOMAIN worker[w].batch
    PROVE  worker[w].batch[i].id \in MailId /\ worker[w].batch[i].payload \in Version
<1>1. worker[w].batch \in Seq(Copy)
  BY DEF TypeOK, WorkerState
<1>2. worker[w].batch[i] \in Copy
  BY <1>1
<1> QED
  BY <1>2 DEF Copy

\* While no worker moves and nothing is sent, rows that are marked, or that go,
\* leave the work as it is.
LEMMA WorkStays ==
    ASSUME CountInv, WorkInv, TypeOK', UNCHANGED <<worker, sends, received>>, faults' >= faults,
           \A n \in MailId :
              /\ mail'[n].attempts = mail[n].attempts /\ mail'[n].payload = mail[n].payload
              /\ \/ mail'[n].status = mail[n].status
                 \/ mail'[n].status = "gone"
    PROVE  WorkInv'
<1>1. /\ \A n \in MailId : mail[n].attempts \in Nat /\ sends[n] \in Nat /\ Pass(n) \in {0, 1}
      /\ faults \in Nat /\ faults' \in Nat /\ MaxAttempts \in Nat
  BY EmailOutboxAssumption DEF CountInv, Inv, TypeOK, MailRow, Pass
<1>2. \A n \in MailId : (Held(n)' <=> Held(n)) /\ Pass(n)' = Pass(n)
  BY DEF Held, Pass, UnderWay, Current
<1>3. ASSUME NEW w \in Workers PROVE CopyIsTrue(w)' /\ StepIsTrue(w)'
  <2>1. \A i \in DOMAIN worker[w].batch : worker[w].batch[i].id \in MailId
    BY CopiesAreOfMail DEF CountInv, Inv
  <2>2. CopyIsTrue(w) /\ StepIsTrue(w)
    BY DEF WorkInv
  <2>3. worker[w].pc # "idle" => Current(w).id \in MailId
    BY CurrentIsCopy DEF CountInv, Inv
  <2>4. CopyIsTrue(w)'
    BY <2>1, <2>2 DEF CopyIsTrue, Exists
  <2>5. StepIsTrue(w)'
    BY <2>2, <2>3 DEF StepIsTrue, Exists, Current
  <2> QED
    BY <2>4, <2>5
<1>4. ASSUME NEW n \in MailId PROVE Attempted(n)'
  <2>1. Attempted(n)
    BY DEF WorkInv
  <2> QED
    BY <1>1, <1>2, <2>1 DEF Attempted
<1> QED
  BY <1>3, <1>4 DEF WorkInv

KeptNext == WorkInv' /\ NewestInv'

LEMMA DisableUserKept == ASSUME KeptInv, NEW u \in Users, DisableUser(u) PROVE KeptNext
<1>1. TypeOK' /\ TypeOK
  BY DisableUserInv DEF KeptInv, CountInv, Inv
<1>2. /\ UNCHANGED <<worker, sends, received, faults, live>>
      /\ user' = [user EXCEPT ![u] = "disabled"]
      /\ newest' = [newest EXCEPT ![u] = [t \in Topics |-> 0]]
  BY DEF DisableUser, wireVars, Forget
<1>3. \A n \in MailId : IF n \in PendingOf(u) THEN mail'[n] = Withdrawn(mail[n])
                        ELSE mail'[n] = mail[n]
  BY DEF DisableUser, CancelPending
<1>4. \A n \in MailId : /\ Withdrawn(mail[n]).status = "gone"
                        /\ Withdrawn(mail[n]).attempts = mail[n].attempts
                        /\ Withdrawn(mail[n]).payload = mail[n].payload
  BY <1>1 DEF Withdrawn, TypeOK, MailRow
<1>5. faults' >= faults
  BY <1>1, <1>2, EmailOutboxAssumption DEF TypeOK
<1>6. WorkInv'
  BY <1>1, <1>2, <1>3, <1>4, <1>5, WorkStays DEF KeptInv
<1>7. \A v \in Users : IF user'[v] = "active" THEN newest'[v] = newest[v]
                       ELSE \A t \in Topics : newest'[v][t] = 0
  BY <1>1, <1>2 DEF TypeOK, KeptInv, NewestInv, Quiet
<1>8. \A n \in MailId : mail[n].user \in Users /\ user'[mail[n].user] = "active"
                           => mail'[n] = mail[n]
  BY <1>1, <1>2, <1>3 DEF PendingOf, TypeOK
<1>9. NewestInv'
  BY <1>1, <1>2, <1>7, <1>8, AnswersStay DEF KeptInv
<1> QED
  BY <1>6, <1>9 DEF KeptNext

LEMMA EnableUserKept == ASSUME KeptInv, NEW u \in Users, EnableUser(u) PROVE KeptNext
<1>1. TypeOK' /\ TypeOK
  BY EnableUserInv DEF KeptInv, CountInv, Inv
<1>2. /\ UNCHANGED <<worker, sends, received, faults, live, mail, newest>>
      /\ user' = [user EXCEPT ![u] = "active"]
  BY DEF EnableUser, wireVars, queueVars
<1>3. faults' >= faults
  BY <1>1, <1>2, EmailOutboxAssumption DEF TypeOK
<1>4. WorkInv'
  BY <1>1, <1>2, <1>3, WorkStays DEF KeptInv
<1>5. \A v \in Users : IF user'[v] = "active" THEN newest'[v] = newest[v]
                       ELSE \A t \in Topics : newest'[v][t] = 0
  BY <1>1, <1>2 DEF TypeOK, KeptInv, NewestInv, Quiet
<1>6. NewestInv'
  BY <1>1, <1>2, <1>5, AnswersStay DEF KeptInv
<1> QED
  BY <1>4, <1>6 DEF KeptNext

LEMMA DeleteUserKept == ASSUME KeptInv, NEW u \in Users, DeleteUser(u) PROVE KeptNext
<1>1. TypeOK' /\ TypeOK
  BY DeleteUserInv DEF KeptInv, CountInv, Inv
<1>2. /\ UNCHANGED <<worker, sends, received, faults, live>>
      /\ user' = [user EXCEPT ![u] = "deleted"]
      /\ newest' = [newest EXCEPT ![u] = [t \in Topics |-> 0]]
  BY DEF DeleteUser, wireVars, Forget
<1>3. \A n \in MailId : mail'[n] = IF n \in PendingOf(u) THEN Withdrawn(mail[n])
                                   ELSE IF Exists(n) /\ mail[n].user = u
                                        THEN [mail[n] EXCEPT !.user = NoUser]
                                        ELSE mail[n]
  BY DEF DeleteUser
<1>4. \A n \in MailId : /\ Withdrawn(mail[n]).status = "gone"
                        /\ Withdrawn(mail[n]).attempts = mail[n].attempts
                        /\ Withdrawn(mail[n]).payload = mail[n].payload
  BY <1>1 DEF Withdrawn, TypeOK, MailRow
<1>5. \A n \in MailId : LET r == [mail[n] EXCEPT !.user = NoUser] IN
        r.status = mail[n].status /\ r.attempts = mail[n].attempts /\ r.payload = mail[n].payload
  BY <1>1 DEF TypeOK, MailRow
<1>6. faults' >= faults
  BY <1>1, <1>2, EmailOutboxAssumption DEF TypeOK
<1>7. \A n \in MailId : /\ mail'[n].attempts = mail[n].attempts
                        /\ mail'[n].payload = mail[n].payload
                        /\ mail'[n].status = mail[n].status \/ mail'[n].status = "gone"
  BY <1>3, <1>4, <1>5
<1>8. WorkInv'
  BY <1>1, <1>2, <1>6, <1>7, WorkStays DEF KeptInv
<1>9. \A v \in Users : IF user'[v] = "active" THEN newest'[v] = newest[v]
                       ELSE \A t \in Topics : newest'[v][t] = 0
  BY <1>1, <1>2 DEF TypeOK, KeptInv, NewestInv, Quiet
<1>10. \A n \in MailId : mail[n].user \in Users /\ user'[mail[n].user] = "active"
                           => mail'[n] = mail[n]
  BY <1>1, <1>2, <1>3 DEF PendingOf, TypeOK
<1>11. NewestInv'
  BY <1>1, <1>2, <1>9, <1>10, AnswersStay DEF KeptInv
<1> QED
  BY <1>8, <1>11 DEF KeptNext

LEMMA DeleteTicketKept == ASSUME KeptInv, NEW t \in Tickets, DeleteTicket(t) PROVE KeptNext
<1>1. TypeOK' /\ TypeOK
  BY DeleteTicketInv DEF KeptInv, CountInv, Inv
<1>2. UNCHANGED <<worker, sends, received, faults, user, newest>> /\ live' = live \ {t}
  BY DEF DeleteTicket, wireVars, queueVars
<1>3. \A n \in MailId : IF Exists(n) /\ mail[n].topic = t THEN mail'[n] = Withdrawn(mail[n])
                        ELSE mail'[n] = mail[n]
  BY DEF DeleteTicket
<1>4. \A n \in MailId : /\ Withdrawn(mail[n]).status = "gone"
                        /\ Withdrawn(mail[n]).attempts = mail[n].attempts
                        /\ Withdrawn(mail[n]).payload = mail[n].payload
  BY <1>1 DEF Withdrawn, TypeOK, MailRow
<1>5. faults' >= faults
  BY <1>1, <1>2, EmailOutboxAssumption DEF TypeOK
<1>6. WorkInv'
  BY <1>1, <1>2, <1>3, <1>4, <1>5, WorkStays DEF KeptInv
<1>7. \A v \in Users : IF user'[v] = "active" THEN newest'[v] = newest[v]
                       ELSE \A s \in Topics : newest'[v][s] = 0
  BY <1>2 DEF KeptInv, NewestInv, Quiet
<1>8. t \notin live' \cup Events
  BY <1>2, EmailOutboxAssumption
<1>9. NewestInv'
  BY <1>1, <1>2, <1>3, <1>7, <1>8, AnswersStay DEF KeptInv
<1> QED
  BY <1>6, <1>9 DEF KeptNext

LEMMA BecomesDueKept == ASSUME KeptInv, NEW n \in MailId, BecomesDue(n) PROVE KeptNext
<1>1. TypeOK' /\ TypeOK
  BY BecomesDueInv DEF KeptInv, CountInv, Inv
<1>2. UNCHANGED <<worker, sends, received, faults, user, newest, live>>
  BY DEF BecomesDue, wireVars, queueVars, tableVars
<1>3. mail[n] \in MailRow /\ mail' = [mail EXCEPT ![n] = [mail[n] EXCEPT !.due = TRUE]]
  BY <1>1 DEF BecomesDue, TypeOK
<1>4. \A m \in MailId : /\ mail'[m].status = mail[m].status /\ mail'[m].user = mail[m].user
                        /\ mail'[m].topic = mail[m].topic /\ mail'[m].payload = mail[m].payload
                        /\ mail'[m].attempts = mail[m].attempts
  BY <1>1, <1>3 DEF TypeOK, MailRow
<1>5. faults' >= faults
  BY <1>1, <1>2, EmailOutboxAssumption DEF TypeOK
<1>6. WorkInv'
  BY <1>1, <1>2, <1>4, <1>5, WorkStays DEF KeptInv
<1>7. \A v \in Users : IF user'[v] = "active" THEN newest'[v] = newest[v]
                       ELSE \A t \in Topics : newest'[v][t] = 0
  BY <1>2 DEF KeptInv, NewestInv, Quiet
<1>8. NewestInv'
  BY <1>1, <1>2, <1>4, <1>7, AnswersStay DEF KeptInv
<1> QED
  BY <1>6, <1>8 DEF KeptNext

LEMMA LeaseExpiresKept == ASSUME KeptInv, NEW n \in MailId, LeaseExpires(n) PROVE KeptNext
<1>1. TypeOK' /\ TypeOK
  BY LeaseExpiresInv DEF KeptInv, CountInv, Inv
<1>2. UNCHANGED <<worker, sends, received, user, newest, live>>
  BY DEF LeaseExpires, wireVars, queueVars, tableVars
<1>3. mail[n] \in MailRow /\ mail' = [mail EXCEPT ![n] = [mail[n] EXCEPT !.leased = FALSE]]
  BY <1>1 DEF LeaseExpires, TypeOK
<1>4. \A m \in MailId : /\ mail'[m].status = mail[m].status /\ mail'[m].user = mail[m].user
                        /\ mail'[m].topic = mail[m].topic /\ mail'[m].payload = mail[m].payload
                        /\ mail'[m].attempts = mail[m].attempts
  BY <1>1, <1>3 DEF TypeOK, MailRow
<1>5. faults' >= faults
  BY <1>1, EmailOutboxAssumption DEF TypeOK, LeaseExpires, Fault
<1>6. WorkInv'
  BY <1>1, <1>2, <1>4, <1>5, WorkStays DEF KeptInv
<1>7. \A v \in Users : IF user'[v] = "active" THEN newest'[v] = newest[v]
                       ELSE \A t \in Topics : newest'[v][t] = 0
  BY <1>2 DEF KeptInv, NewestInv, Quiet
<1>8. NewestInv'
  BY <1>1, <1>2, <1>4, <1>7, AnswersStay DEF KeptInv
<1> QED
  BY <1>6, <1>8 DEF KeptNext

-----------------------------------------------------------------------------
\* A mail that is not being sent is in nobody's hands.
LEMMA OnlySendingIsHeld ==
    ASSUME KeptInv, NEW n \in MailId, mail[n].status \notin {"sending", "gone"}
    PROVE  ~Held(n) /\ ~UnderWay(n)
<1>1. ~Held(n)
  BY DEF Held, KeptInv, WorkInv, CopyIsTrue
<1>2. ASSUME NEW w \in Workers, worker[w].pc # "idle" PROVE Current(w).id # n
  <2>1. worker[w].batch \in Seq(Copy) /\ worker[w].batch # <<>>
    BY <1>2 DEF KeptInv, CountInv, Inv, Busy, TypeOK, WorkerState
  <2>2. Current(w).id \in InHand(w)
    BY <2>1, RestOfBatch DEF KeptInv, CountInv, Orderly, InHand, Current
  <2> QED
    BY <1>1, <2>2, HeldIsInHand
<1> QED
  BY <1>1, <1>2 DEF UnderWay

\* Rows that nobody has in hand may start over.
LEMMA WorkStartsOver ==
    ASSUME KeptInv, TypeOK', UNCHANGED <<worker, received, faults>>,
           \A n \in MailId :
              \/ mail'[n] = mail[n] /\ sends'[n] = sends[n]
              \/ /\ mail[n].status \notin {"sending", "gone"}
                 /\ mail'[n].status = "pending" /\ mail'[n].attempts = 0 /\ sends'[n] = 0
    PROVE  WorkInv'
<1>1. TypeOK /\ CountInv /\ WorkInv
  BY DEF KeptInv, CountInv, Inv
<1>2. \A n \in MailId : (Held(n)' <=> Held(n)) /\ (UnderWay(n)' <=> UnderWay(n))
                        /\ Pass(n)' = Pass(n)
  BY DEF Held, Pass, UnderWay, Current
<1>3. \A n \in MailId : Held(n) \/ UnderWay(n) => mail'[n] = mail[n] /\ sends'[n] = sends[n]
  BY OnlySendingIsHeld
<1>4. ASSUME NEW w \in Workers PROVE CopyIsTrue(w)' /\ StepIsTrue(w)'
  <2>1. \A i \in DOMAIN worker[w].batch :
           worker[w].batch[i].id \in MailId /\ Held(worker[w].batch[i].id)
    BY <1>1, CopiesAreOfMail DEF Held
  <2>2. CopyIsTrue(w) /\ StepIsTrue(w)
    BY <1>1 DEF WorkInv
  <2>3. worker[w].pc \in {"sent", "write"} =>
           Current(w).id \in MailId /\ UnderWay(Current(w).id)
    BY CurrentIsCopy DEF KeptInv, CountInv, Inv, UnderWay
  <2>4. CopyIsTrue(w)'
    BY <1>3, <2>1, <2>2 DEF CopyIsTrue, Exists
  <2>5. StepIsTrue(w)'
    BY <1>3, <2>2, <2>3 DEF StepIsTrue, Exists, Current
  <2> QED
    BY <2>4, <2>5
<1>5. ASSUME NEW n \in MailId PROVE Attempted(n)'
  <2>1. Attempted(n) /\ faults \in Nat /\ MaxAttempts \in Nat \ {0}
    BY <1>1, EmailOutboxAssumption DEF WorkInv, TypeOK
  <2>2. CASE mail'[n] = mail[n] /\ sends'[n] = sends[n]
    BY <1>2, <2>1, <2>2 DEF Attempted
  <2>3. CASE /\ mail[n].status \notin {"sending", "gone"}
             /\ mail'[n].status = "pending" /\ mail'[n].attempts = 0 /\ sends'[n] = 0
    <3>1. ~Held(n) /\ ~UnderWay(n)
      BY <2>3, OnlySendingIsHeld
    <3>2. Pass(n)' = 0
      BY <1>2, <3>1 DEF Pass
    <3> QED
      BY <2>1, <2>3, <3>2 DEF Attempted
  <2> QED
    BY <2>2, <2>3
<1> QED
  BY <1>4, <1>5 DEF WorkInv

LEMMA RetryKept == ASSUME KeptInv, NEW n \in MailId, Retry(n) PROVE KeptNext
<1>1. TypeOK' /\ TypeOK
  BY RetryInv DEF KeptInv, CountInv, Inv
<1>2. /\ UNCHANGED <<worker, received, faults, user, newest, live>>
      /\ mail[n].status = "failed" /\ mail' = [mail EXCEPT ![n] = Retried(mail[n])]
      /\ sends' = [m \in MailId |-> IF m = n THEN 0 ELSE sends[m]]
  BY <1>1 DEF Retry, queueVars, Reset, TypeOK
<1>3. /\ mail'[n].status = "pending" /\ mail'[n].attempts = 0
      /\ mail'[n].user = mail[n].user /\ mail'[n].topic = mail[n].topic
      /\ mail'[n].payload = mail[n].payload
      /\ \A m \in MailId : m # n => mail'[m] = mail[m]
  BY <1>1, <1>2 DEF TypeOK, MailRow, Retried
<1>4. WorkInv'
  BY <1>1, <1>2, <1>3, WorkStartsOver
<1>5. \A v \in Users : IF user'[v] = "active" THEN newest'[v] = newest[v]
                       ELSE \A t \in Topics : newest'[v][t] = 0
  BY <1>2 DEF KeptInv, NewestInv, Quiet
<1>6. NewestInv'
  BY <1>1, <1>2, <1>3, <1>5, AnswersStay DEF KeptInv
<1> QED
  BY <1>4, <1>6 DEF KeptNext

LEMMA EnqueueTestKept ==
    ASSUME KeptInv, NEW event \in Events, EnqueueTest(event) PROVE KeptNext
<1> DEFINE n == lastId + 1
<1>1. TypeOK' /\ TypeOK
  BY EnqueueTestInv DEF KeptInv, CountInv, Inv
<1>2. /\ UNCHANGED <<worker, received, faults, user, newest, live, sends>>
      /\ n \in MailId /\ mail' = [mail EXCEPT ![n] = NewMail(NoUser, event, TRUE)]
  BY DEF EnqueueTest, tableVars, wireVars
<1>3. n > lastId
  BY <1>1, EmailOutboxAssumption DEF TypeOK
<1>4. mail[n] = NoMail /\ mail[n].status = "none" /\ sends[n] = 0 /\ mail[n].user = NoUser
  BY <1>2, <1>3, NoMailIsRow DEF KeptInv, CountInv, Unborn, NoMail
<1> HIDE DEF n
<1>5. /\ mail'[n].status = "pending" /\ mail'[n].attempts = 0
      /\ \A m \in MailId : m # n => mail'[m] = mail[m]
  BY <1>1, <1>2 DEF TypeOK, NewMail
<1>6. WorkInv'
  BY <1>1, <1>2, <1>4, <1>5, WorkStartsOver
<1>7. \A v \in Users : IF user'[v] = "active" THEN newest'[v] = newest[v]
                       ELSE \A t \in Topics : newest'[v][t] = 0
  BY <1>2 DEF KeptInv, NewestInv, Quiet
<1>8. NewestInv'
  BY <1>1, <1>2, <1>4, <1>5, <1>7, AnswersStay, EmailOutboxAssumption DEF KeptInv
<1> QED
  BY <1>6, <1>8 DEF KeptNext

\* A recipient has the row that was written for it; the rows of others are left.
LEMMA EnqueueKept ==
    ASSUME KeptInv, NEW topic \in Topics, NEW recipients \in SUBSET Users,
           Enqueue(topic, recipients)
    PROVE  KeptNext
<1>1. TypeOK' /\ TypeOK
  BY EnqueueInv DEF KeptInv, CountInv, Inv
<1>2. \A n \in MailId : n > lastId => /\ mail[n].status = "none" /\ mail[n].user = NoUser
                                      /\ sends[n] = 0
  BY NoMailIsRow DEF KeptInv, CountInv, Unborn, NoMail
<1>3. /\ lastId' \in Nat /\ lastId' >= lastId
      /\ \A n \in MailId :
            IsQueued(n, topic) \/ IsRewritten(n, topic, recipients) \/ IsLeft(n)
      /\ \A u \in recipients : user[u] = "active" =>
            \E n \in MailId : \E due \in BOOLEAN :
               \/ n > lastId /\ mail'[n] = NewMail(u, topic, due)
               \/ /\ mail[n].user = u /\ mail[n].topic = topic
                  /\ mail'[n] = Rewritten(mail[n], due)
  BY <1>1, <1>2, EnqueueWrites
<1>4. /\ UNCHANGED <<worker, received, faults, user, live>>
      /\ version' = version + 1
      /\ newest' = [u \in Users |-> IF u \in recipients /\ user[u] = "active"
                                    THEN [newest[u] EXCEPT ![topic] = version + 1]
                                    ELSE newest[u]]
  BY DEF Enqueue, tableVars
<1>5. lastId \in Nat /\ version \in Nat /\ \A n \in MailId : n \in Nat /\ mail[n] \in MailRow
  BY <1>1, EmailOutboxAssumption DEF TypeOK, MailId, Version
<1>6. \A due \in BOOLEAN, u \in Users :
         /\ NewMail(u, topic, due).status = "pending" /\ NewMail(u, topic, due).attempts = 0
         /\ NewMail(u, topic, due).user = u /\ NewMail(u, topic, due).topic = topic
         /\ NewMail(u, topic, due).payload = version + 1
  BY DEF NewMail
<1>7. \A due \in BOOLEAN, r \in MailRow :
         /\ Rewritten(r, due).status = "pending" /\ Rewritten(r, due).attempts = 0
         /\ Rewritten(r, due).user = r.user /\ Rewritten(r, due).topic = r.topic
         /\ Rewritten(r, due).payload = version + 1
  BY DEF Rewritten, MailRow
<1>8. WorkInv'
  <2>1. ASSUME NEW n \in MailId
        PROVE  \/ mail'[n] = mail[n] /\ sends'[n] = sends[n]
               \/ /\ mail[n].status \notin {"sending", "gone"}
                  /\ mail'[n].status = "pending" /\ mail'[n].attempts = 0 /\ sends'[n] = 0
    <3>1. CASE IsQueued(n, topic)
      BY <1>2, <1>5, <1>6, <3>1 DEF IsQueued
    <3>2. CASE IsRewritten(n, topic, recipients)
      BY <1>5, <1>7, <3>2 DEF IsRewritten
    <3>3. CASE IsLeft(n)
      BY <3>3 DEF IsLeft
    <3> QED
      BY <1>3, <3>1, <3>2, <3>3
  <2> QED
    BY <1>1, <1>4, <2>1, WorkStartsOver
<1>9. ASSUME NEW u \in Users PROVE Quiet(u)'
  <2>1. Quiet(u)
    BY DEF KeptInv, NewestInv
  <2> QED
    BY <1>4, <2>1 DEF Quiet
<1>10. ASSUME NEW u \in Users, NEW t \in live' \cup Events PROVE Answered(u, t)'
  <2>1. t \in live \cup Events /\ t \in Topics /\ newest[u] \in [Topics -> Version]
    BY <1>1, <1>4, TopicsAsked DEF TypeOK
  <2>2. CASE u \in recipients /\ user[u] = "active" /\ t = topic
    <3>1. newest'[u][t] = version + 1
      BY <1>4, <2>1, <2>2
    <3>2. PICK n \in MailId, due \in BOOLEAN :
               \/ n > lastId /\ mail'[n] = NewMail(u, topic, due)
               \/ /\ mail[n].user = u /\ mail[n].topic = topic
                  /\ mail'[n] = Rewritten(mail[n], due)
      BY <1>3, <2>2
    <3>3. /\ mail'[n].user = u /\ mail'[n].topic = t /\ mail'[n].payload = version + 1
          /\ mail'[n].status = "pending"
      BY <1>5, <1>6, <1>7, <2>2, <3>2
    <3>4. \E m \in MailId : Bears(m, u, t, newest[u][t])'
      BY <3>1, <3>3 DEF Bears
    <3> QED
      BY <3>4 DEF Answered
  <2>3. CASE ~(u \in recipients /\ user[u] = "active" /\ t = topic)
    <3> SUFFICES ASSUME user'[u] = "active", newest'[u][t] > 0
                 PROVE  \E n \in MailId : Bears(n, u, t, newest[u][t])'
      BY DEF Answered
    <3>1. newest'[u][t] = newest[u][t]
      BY <1>4, <2>1, <2>3
    <3>2. PICK n \in MailId : Bears(n, u, t, newest[u][t])
      BY <1>4, <2>1, <3>1 DEF KeptInv, NewestInv, Answered
    <3>3. mail[n].user = u /\ mail[n].topic = t /\ user[u] = "active"
      BY <1>4, <3>2 DEF Bears
    <3>4. ~IsQueued(n, topic)
      BY <1>2, <1>5, <3>3, EmailOutboxAssumption DEF IsQueued
    <3>5. ~IsRewritten(n, topic, recipients)
      BY <2>3, <3>3 DEF IsRewritten
    <3>6. mail'[n] = mail[n]
      BY <1>3, <3>4, <3>5 DEF IsLeft
    <3>7. Bears(n, u, t, newest[u][t])'
      BY <1>4, <3>1, <3>2, <3>6 DEF Bears
    <3> QED
      BY <3>7
  <2> QED
    BY <2>2, <2>3
<1> QED
  BY <1>8, <1>9, <1>10 DEF KeptNext, NewestInv

-----------------------------------------------------------------------------
(* The one worker's steps.                                                 *)

\* When the worker goes on, it has the rest of its copies in hand, and nothing
\* is under way.
LEMMA RestStays ==
    ASSUME KeptInv, NEW w \in Workers, worker[w].pc # "idle", NextInBatch(w)
    PROVE  /\ worker'[w].pc \in {"idle", "send"}
           /\ \A i \in DOMAIN worker'[w].batch : \E j \in DOMAIN worker[w].batch :
                 /\ worker'[w].batch[i] = worker[w].batch[j]
                 /\ worker[w].batch[j].id # Current(w).id
           /\ \A n \in MailId : ~UnderWay(n)'
           /\ \A n \in MailId : Held(n)' <=> Held(n) /\ n # Current(w).id
           /\ \A n \in MailId : n # Current(w).id => ~UnderWay(n)
<1> DEFINE b == worker[w].batch
           c == Current(w).id
<1>1. b \in Seq(Copy) /\ b # <<>> /\ NoTwice(b)
  BY DEF KeptInv, CountInv, Inv, TypeOK, Busy, WorkerState, Orderly
<1>2. \A v \in Workers : v = w
  BY DEF KeptInv, OneWorker
<1>3. worker'[w] = IF Len(b) = 1 THEN Idle ELSE Holding("send", Tail(b))
  BY DEF NextInBatch, KeptInv, CountInv, Inv, TypeOK
<1>4. worker'[w].pc \in {"idle", "send"} /\ worker'[w].batch \in {<<>>, Tail(b)}
  BY <1>3 DEF Idle, Holding
<1>5. /\ Len(b) \in Nat /\ Len(b) > 0 /\ DOMAIN b = 1..Len(b) /\ Head(b) = b[1]
      /\ DOMAIN Tail(b) = 1..Len(b) - 1
      /\ \A i \in 1..Len(b) - 1 : Tail(b)[i] = b[i + 1]
  BY <1>1, EmptySeq
<1>6. ASSUME NEW i \in DOMAIN worker'[w].batch
      PROVE  \E j \in DOMAIN b : worker'[w].batch[i] = b[j] /\ b[j].id # c
  <2>0. DOMAIN <<>> = {}
    OBVIOUS
  <2>1. worker'[w].batch = Tail(b) /\ i \in 1..Len(b) - 1
    BY <1>4, <1>5, <1>6, <2>0
  <2>2. i + 1 \in DOMAIN b /\ 1 \in DOMAIN b /\ i + 1 # 1
    BY <1>5, <2>1
  <2>3. b[i + 1].id # b[1].id
    BY <1>1, <2>2 DEF NoTwice
  <2> QED
    BY <1>5, <2>1, <2>2, <2>3 DEF Current
<1>7. \A n \in MailId : ~UnderWay(n)'
  BY <1>2, <1>4 DEF UnderWay
<1>8. InHand(w)' = InHand(w) \ {c}
  BY LetsGo DEF KeptInv
<1>9. ASSUME NEW n \in MailId PROVE Held(n)' <=> Held(n) /\ n # c
  <2>1. Held(n)' <=> n \in InHand(w)'
    BY <1>2 DEF Held, InHand, IdsOf
  <2>2. Held(n) <=> n \in InHand(w)
    BY <1>2 DEF Held, InHand, IdsOf
  <2> QED
    BY <1>8, <2>1, <2>2
<1>10. \A n \in MailId : n # c => ~UnderWay(n)
  BY <1>2 DEF UnderWay
<1> QED
  BY <1>4, <1>6, <1>7, <1>9, <1>10

\* So the work is as it should be when the mail it leaves is.
LEMMA WorkGoesOn ==
    ASSUME KeptInv, TypeOK', NEW w \in Workers, worker[w].pc # "idle", NextInBatch(w),
           UNCHANGED <<sends, received>>, faults' >= faults,
           \A n \in MailId : n # Current(w).id => mail'[n] = mail[n],
           \A n \in MailId : n = Current(w).id /\ ~Held(n)' /\ ~UnderWay(n)' => Attempted(n)'
    PROVE  WorkInv'
<1>1. TypeOK /\ CountInv /\ WorkInv
  BY DEF KeptInv, CountInv, Inv
<1>2. /\ worker'[w].pc \in {"idle", "send"}
      /\ \A i \in DOMAIN worker'[w].batch : \E j \in DOMAIN worker[w].batch :
            /\ worker'[w].batch[i] = worker[w].batch[j]
            /\ worker[w].batch[j].id # Current(w).id
      /\ \A n \in MailId : ~UnderWay(n)'
      /\ \A n \in MailId : Held(n)' <=> Held(n) /\ n # Current(w).id
      /\ \A n \in MailId : n # Current(w).id => ~UnderWay(n)
  BY RestStays
<1>3. \A v \in Workers : v = w
  BY DEF KeptInv, OneWorker
<1>4. CopyIsTrue(w)'
  <2> SUFFICES ASSUME NEW i \in DOMAIN worker'[w].batch
               PROVE  LET n == worker'[w].batch[i].id IN
                      /\ mail'[n].status \in {"sending", "gone"}
                      /\ mail'[n].status \notin {"none", "gone"}
                            => worker'[w].batch[i].payload = mail'[n].payload
    BY Zenon DEF CopyIsTrue, Exists
  <2>1. PICK j \in DOMAIN worker[w].batch :
            /\ worker'[w].batch[i] = worker[w].batch[j]
            /\ worker[w].batch[j].id # Current(w).id
    BY <1>2
  <2>2. worker[w].batch[j].id \in MailId
    BY <1>1, CopiesAreOfMail
  <2> QED
    BY <1>1, <2>1, <2>2 DEF WorkInv, CopyIsTrue, Exists
<1>5. StepIsTrue(w)'
  BY <1>2 DEF StepIsTrue
<1>6. ASSUME NEW n \in MailId PROVE Attempted(n)'
  <2>1. CASE n = Current(w).id
    BY <1>2, <2>1
  <2>2. CASE n # Current(w).id
    <3>1. Attempted(n) /\ mail'[n] = mail[n] /\ Pass(n) = 0 /\ Pass(n)' = 0
      BY <1>1, <1>2, <2>2 DEF WorkInv, Pass
    <3>2. /\ mail[n].attempts \in Nat /\ sends[n] \in Nat
          /\ faults \in Nat /\ faults' \in Nat /\ MaxAttempts \in Nat
      BY <1>1, EmailOutboxAssumption DEF TypeOK, MailRow
    <3>3. Held(n)' <=> Held(n)
      BY <1>2, <2>2
    <3> QED
      BY <3>1, <3>2, <3>3 DEF Attempted
  <2> QED
    BY <2>1, <2>2
<1> QED
  BY <1>3, <1>4, <1>5, <1>6 DEF WorkInv

\* The accounts' side, when no account, ticket or projection changes.
LEMMA AccountsStay ==
    ASSUME KeptInv, UNCHANGED <<user, newest, live>>,
           \A n \in MailId : received[n] \subseteq received'[n],
           \A n \in MailId :
              mail[n].user \in Users =>
                 /\ mail'[n].user = mail[n].user /\ mail'[n].topic = mail[n].topic
                 /\ mail'[n].payload = mail[n].payload
                 /\ mail[n].status \in {"pending", "sending", "failed"} =>
                       \/ mail'[n].status \in {"pending", "sending", "failed"}
                       \/ mail[n].payload \in received'[n]
    PROVE  NewestInv'
<1>1. \A v \in Users : IF user'[v] = "active" THEN newest'[v] = newest[v]
                       ELSE \A t \in Topics : newest'[v][t] = 0
  BY DEF KeptInv, NewestInv, Quiet
<1> QED
  BY <1>1, AnswersStay DEF KeptInv, CountInv, Inv

\* A row under way is held, and has attempts left.
LEMMA CurrentIsHeld ==
    ASSUME KeptInv, NEW w \in Workers, worker[w].pc # "idle"
    PROVE  LET c == Current(w).id IN
           /\ c \in MailId /\ Held(c) /\ Attempted(c)
           /\ mail[c] \in MailRow /\ mail[c].status \in {"sending", "gone"}
           /\ Exists(c) => Current(w).payload = mail[c].payload
           /\ Pass(c) = IF worker[w].pc \in {"sent", "read", "write"} THEN 1 ELSE 0
<1> DEFINE c == Current(w).id
           b == worker[w].batch
<1>1. b \in Seq(Copy) /\ b # <<>>
  BY DEF KeptInv, CountInv, Inv, TypeOK, Busy, WorkerState
<1>2. 1 \in DOMAIN b /\ Current(w) = b[1]
  BY <1>1, EmptySeq DEF Current
<1>3. c \in MailId
  BY CurrentIsCopy DEF KeptInv, CountInv, Inv
<1>4. Held(c)
  BY <1>2 DEF Held
<1>5. Attempted(c) /\ mail[c] \in MailRow
  BY <1>3 DEF KeptInv, WorkInv, CountInv, Inv, TypeOK
<1>6. mail[c].status \in {"sending", "gone"} /\ (Exists(c) => Current(w).payload = mail[c].payload)
  BY <1>2 DEF KeptInv, WorkInv, CopyIsTrue
<1>7. Pass(c) = IF worker[w].pc \in {"sent", "read", "write"} THEN 1 ELSE 0
  BY DEF Pass, UnderWay, KeptInv, OneWorker
<1> QED
  BY <1>3, <1>4, <1>5, <1>6, <1>7

LEMMA ClaimKept == ASSUME KeptInv, NEW w \in Workers, Claim(w) PROVE KeptNext
<1>1. TypeOK' /\ TypeOK /\ CountInv /\ WorkInv
  BY ClaimInv DEF KeptInv, CountInv, Inv
<1>2. PICK k \in 1..BatchSize : \E ids \in [1..k -> ClaimableIds] :
        /\ mail' = [n \in MailId |-> IF \E i \in 1..k : ids[i] = n
                                     THEN Taken(mail[n]) ELSE mail[n]]
        /\ worker' = [worker EXCEPT ![w] = Holding("send",
              [i \in 1..k |-> [id |-> ids[i], payload |-> mail[ids[i]].payload]])]
  BY DEF Claim
<1>3. PICK ids \in [1..k -> ClaimableIds] :
        /\ mail' = [n \in MailId |-> IF \E i \in 1..k : ids[i] = n
                                     THEN Taken(mail[n]) ELSE mail[n]]
        /\ worker' = [worker EXCEPT ![w] = Holding("send",
              [i \in 1..k |-> [id |-> ids[i], payload |-> mail[ids[i]].payload]])]
  BY <1>2
<1> DEFINE batch == [i \in 1..k |-> [id |-> ids[i], payload |-> mail[ids[i]].payload]]
           taken == {ids[i] : i \in 1..k}
<1>4. worker[w].pc = "idle" /\ worker[w].batch = <<>> /\ \A v \in Workers : v = w
  BY <1>1 DEF Claim, CountInv, Orderly, KeptInv, OneWorker
<1>5. UNCHANGED <<user, live, newest, received, sends, faults>>
  BY DEF Claim, tableVars, queueVars, wireVars
<1>6. worker'[w].pc = "send" /\ worker'[w].batch = batch
  BY <1>1, <1>3 DEF Holding, TypeOK
<1>7. \A n \in MailId : mail'[n] = IF n \in taken THEN Taken(mail[n]) ELSE mail[n]
  BY <1>3
<1>8. \A i \in 1..k : ids[i] \in MailId /\ Claimable(ids[i]) /\ ids[i] \in taken
  BY DEF ClaimableIds
<1>9. \A n \in MailId : LET r == Taken(mail[n]) IN
         /\ r.status = "sending" /\ r.attempts = mail[n].attempts /\ r.user = mail[n].user
         /\ r.topic = mail[n].topic /\ r.payload = mail[n].payload
  BY <1>1 DEF Taken, TypeOK, MailRow
<1>10. \A n \in taken : mail[n].status \in {"pending", "sending"}
  BY <1>8 DEF Claimable
<1>11. CopyIsTrue(w)'
  <2>1. DOMAIN batch = 1..k /\ \A i \in 1..k : /\ batch[i].id = ids[i]
                                               /\ batch[i].payload = mail[ids[i]].payload
    OBVIOUS
  <2> QED
    BY <1>6, <1>7, <1>8, <1>9, <2>1 DEF CopyIsTrue
<1>12. StepIsTrue(w)'
  BY <1>6 DEF StepIsTrue
<1>13. ASSUME NEW n \in MailId PROVE Attempted(n)'
  <2>1. Pass(n) = 0 /\ Pass(n)' = 0
    BY <1>4, <1>6 DEF Pass, UnderWay
  <2>2. Held(n)' => n \in taken
    BY <1>4, <1>6 DEF Held
  <2>3. Attempted(n)
    BY <1>1 DEF WorkInv
  <2> HIDE DEF taken
  <2>4. CASE n \in taken
    BY <1>5, <1>7, <1>9, <1>10, <2>1, <2>3, <2>4 DEF Attempted
  <2>5. CASE n \notin taken
    BY <1>5, <1>7, <2>1, <2>2, <2>3, <2>5 DEF Attempted
  <2> QED
    BY <2>4, <2>5
<1>14. WorkInv'
  BY <1>4, <1>11, <1>12, <1>13 DEF WorkInv
<1>15. NewestInv'
  BY <1>5, <1>7, <1>9, AccountsStay
<1> QED
  BY <1>14, <1>15 DEF KeptNext

LEMMA SendKept == ASSUME KeptInv, NEW w \in Workers, Send(w) PROVE KeptNext
<1> DEFINE c == Current(w).id
<1>1. TypeOK' /\ TypeOK /\ WorkInv
  BY SendInv DEF KeptInv, CountInv, Inv
<1>2. PICK arrived \in BOOLEAN : \E ok \in {FALSE, arrived} :
           /\ received' = IF arrived
                          THEN [received EXCEPT ![c] = @ \cup {Current(w).payload}]
                          ELSE received
           /\ worker' = [worker EXCEPT ![w].pc = AfterSend(ok)]
  BY Zenon DEF Send
<1>3. PICK ok \in {FALSE, arrived} : worker' = [worker EXCEPT ![w].pc = AfterSend(ok)]
  BY <1>2
<1>4. received' = IF arrived THEN [received EXCEPT ![c] = @ \cup {Current(w).payload}]
                  ELSE received
  BY <1>2
<1>5. /\ worker[w].pc = "send" /\ UNCHANGED <<mail, user, live, newest, faults>>
      /\ sends' = [sends EXCEPT ![c] = @ + 1]
  BY DEF Send, tableVars, queueVars
<1>6. /\ c \in MailId /\ Held(c) /\ Attempted(c) /\ Pass(c) = 0
      /\ mail[c].status \in {"sending", "gone"}
  BY <1>5, CurrentIsHeld
<1>7. \A v \in Workers : v = w
  BY DEF KeptInv, OneWorker
<1>8. /\ worker'[w].pc = AfterSend(ok) /\ worker'[w].batch = worker[w].batch
      /\ Current(w)' = Current(w)
  BY <1>1, <1>3 DEF TypeOK, WorkerState, Current
<1>9. \A n \in MailId : received[n] \subseteq received'[n]
  BY <1>1, <1>4 DEF TypeOK
<1>10. ok => Current(w).payload \in received'[c]
  BY <1>1, <1>4, <1>6 DEF TypeOK
<1>11. CopyIsTrue(w)'
  BY <1>1, <1>5, <1>8 DEF WorkInv, CopyIsTrue, Exists
<1>12. StepIsTrue(w)'
  BY <1>8, <1>10 DEF StepIsTrue, AfterSend
<1>13. ASSUME NEW n \in MailId PROVE Attempted(n)'
  <2>1. Held(n)' <=> Held(n)
    BY <1>7, <1>8 DEF Held
  <2>2. Pass(n) = 0 /\ Pass(n)' = IF n = c THEN 1 ELSE 0
    BY <1>5, <1>7, <1>8 DEF Pass, UnderWay, AfterSend
  <2>3. sends[n] \in Nat /\ mail[n].attempts \in Nat /\ faults \in Nat /\ MaxAttempts \in Nat
    BY <1>1, EmailOutboxAssumption DEF TypeOK, MailRow
  <2>4. sends'[n] = IF n = c THEN sends[n] + 1 ELSE sends[n]
    BY <1>1, <1>5 DEF TypeOK
  <2>5. Attempted(n)
    BY <1>1 DEF WorkInv
  <2>6. mail[n].status = "sent" => mail[n].payload \in received'[n]
    BY <1>9, <2>5 DEF Attempted
  <2>7. CASE n = c
    BY <1>5, <1>6, <2>1, <2>2, <2>3, <2>4, <2>5, <2>7 DEF Attempted
  <2>8. CASE n # c
    BY <1>5, <2>1, <2>2, <2>3, <2>4, <2>5, <2>6, <2>8 DEF Attempted
  <2> QED
    BY <2>7, <2>8
<1>14. WorkInv'
  BY <1>7, <1>11, <1>12, <1>13 DEF WorkInv
<1>15. NewestInv'
  BY <1>5, <1>9, AccountsStay
<1> QED
  BY <1>14, <1>15 DEF KeptNext

LEMMA MarkSentKept == ASSUME KeptInv, NEW w \in Workers, MarkSent(w) PROVE KeptNext
<1> DEFINE c == Current(w).id
<1>1. TypeOK' /\ TypeOK
  BY MarkSentInv DEF KeptInv, CountInv, Inv
<1>2. /\ worker[w].pc = "sent" /\ NextInBatch(w)
      /\ UNCHANGED <<user, live, newest, received, sends, faults>>
  BY DEF MarkSent, queueVars, tableVars, wireVars
<1>3. /\ c \in MailId /\ Attempted(c) /\ mail[c] \in MailRow
      /\ mail[c].status \in {"sending", "gone"}
      /\ Exists(c) => Current(w).payload = mail[c].payload
  BY <1>2, CurrentIsHeld
<1>4. Current(w).payload \in received[c]
  BY <1>2 DEF KeptInv, WorkInv, StepIsTrue
<1>5. \A n \in MailId : n # c => mail'[n] = mail[n]
  BY <1>1 DEF MarkSent, TypeOK
<1>6. IF Exists(c) THEN /\ mail'[c].status = "sent" /\ mail'[c].payload = mail[c].payload
                        /\ mail'[c].user = mail[c].user /\ mail'[c].topic = mail[c].topic
                   ELSE mail'[c] = mail[c]
  BY <1>1, <1>3 DEF MarkSent, TypeOK, MailRow
<1>7. ASSUME NEW n \in MailId, n = c, ~Held(n)', ~UnderWay(n)' PROVE Attempted(n)'
  <2>1. CASE Exists(c)
    BY <1>2, <1>3, <1>4, <1>6, <1>7, <2>1 DEF Attempted, Exists
  <2>2. CASE ~Exists(c)
    BY <1>2, <1>3, <1>6, <1>7, <2>2 DEF Attempted, Exists
  <2> QED
    BY <2>1, <2>2
<1>8. faults' >= faults
  BY <1>1, <1>2, EmailOutboxAssumption DEF TypeOK
<1>9. WorkInv'
  BY <1>1, <1>2, <1>5, <1>7, <1>8, WorkGoesOn
<1>10. NewestInv'
  BY <1>2, <1>3, <1>4, <1>5, <1>6, AccountsStay DEF Exists
<1> QED
  BY <1>9, <1>10 DEF KeptNext

LEMMA ReadAttemptsKept == ASSUME KeptInv, NEW w \in Workers, ReadAttempts(w) PROVE KeptNext
<1> DEFINE c == Current(w).id
<1>1. TypeOK' /\ TypeOK /\ WorkInv
  BY ReadAttemptsInv DEF KeptInv, CountInv, Inv
<1>2. worker[w].pc = "read" /\ UNCHANGED <<mail, user, live, newest, received, sends, faults>>
  BY DEF ReadAttempts, queueVars, tableVars, wireVars
<1>3. /\ c \in MailId /\ Attempted(c) /\ mail[c] \in MailRow
      /\ mail[c].status \in {"sending", "gone"}
  BY <1>2, CurrentIsHeld
<1>4. NewestInv'
  BY <1>2, AccountsStay
<1>5. CASE Exists(c)
  <2>1. worker' = [worker EXCEPT ![w] = [worker[w] EXCEPT !.pc = "write",
                                                 !.seen = mail[c].attempts]]
    BY <1>1, <1>5 DEF ReadAttempts, TypeOK
  <2>2. /\ worker'[w].pc = "write" /\ worker'[w].seen = mail[c].attempts
        /\ worker'[w].batch = worker[w].batch /\ Current(w)' = Current(w)
    BY <1>1, <2>1 DEF TypeOK, WorkerState, Current
  <2>3. \A v \in Workers : v = w
    BY DEF KeptInv, OneWorker
  <2>4. CopyIsTrue(w)' /\ StepIsTrue(w)'
    BY <1>1, <1>2, <2>2 DEF WorkInv, CopyIsTrue, StepIsTrue, Exists
  <2>5. ASSUME NEW n \in MailId PROVE Attempted(n)'
    <3>1. Held(n)' <=> Held(n)
      BY <2>2, <2>3 DEF Held
    <3>2. Pass(n)' = Pass(n)
      BY <1>2, <2>2, <2>3 DEF Pass, UnderWay
    <3>3. Attempted(n)
      BY <1>1 DEF WorkInv
    <3> QED
      BY <1>2, <3>1, <3>2, <3>3 DEF Attempted
  <2> QED
    BY <1>4, <2>3, <2>4, <2>5 DEF KeptNext, WorkInv
<1>6. CASE ~Exists(c)
  <2>1. NextInBatch(w)
    BY <1>6 DEF ReadAttempts
  <2>2. ASSUME NEW n \in MailId, n = c, ~Held(n)' PROVE Attempted(n)'
    BY <1>2, <1>3, <1>6, <2>2 DEF Attempted, Exists
  <2>3. faults' >= faults
    BY <1>1, <1>2, EmailOutboxAssumption DEF TypeOK
  <2>4. WorkInv'
    BY <1>1, <1>2, <2>1, <2>2, <2>3, WorkGoesOn
  <2> QED
    BY <1>4, <2>4 DEF KeptNext
<1> QED
  BY <1>5, <1>6

LEMMA MarkFailedKept == ASSUME KeptInv, NEW w \in Workers, MarkFailed(w) PROVE KeptNext
<1> DEFINE c == Current(w).id
           seen == worker[w].seen
<1>1. TypeOK' /\ TypeOK
  BY MarkFailedInv DEF KeptInv, CountInv, Inv
<1>2. /\ worker[w].pc = "write" /\ NextInBatch(w)
      /\ UNCHANGED <<user, live, newest, received, sends, faults>>
  BY DEF MarkFailed, queueVars, tableVars, wireVars
<1>3. /\ c \in MailId /\ Held(c) /\ Attempted(c) /\ mail[c] \in MailRow
      /\ mail[c].status \in {"sending", "gone"} /\ Pass(c) = 1
  BY <1>2, CurrentIsHeld
<1>4. Exists(c) => seen = mail[c].attempts
  BY <1>2 DEF KeptInv, WorkInv, StepIsTrue
<1>5. \A n \in MailId : n # c => mail'[n] = mail[n]
  BY <1>1 DEF MarkFailed, TypeOK
<1>6. IF Exists(c) THEN mail'[c] = Failed(mail[c], seen) ELSE mail'[c] = mail[c]
  BY <1>1, <1>3 DEF MarkFailed, TypeOK
<1>7. LET r == Failed(mail[c], seen) IN
      /\ r.status = IF seen + 1 >= MaxAttempts THEN "failed" ELSE "pending"
      /\ r.attempts = seen + 1 /\ r.payload = mail[c].payload
      /\ r.user = mail[c].user /\ r.topic = mail[c].topic
  BY <1>3 DEF Failed, MailRow
<1>8. /\ mail[c].attempts \in Nat /\ sends[c] \in Nat /\ faults \in Nat
      /\ MaxAttempts \in Nat \ {0}
  BY <1>1, <1>3, EmailOutboxAssumption DEF TypeOK, MailRow
<1>9. ASSUME NEW n \in MailId, n = c, ~Held(n)', ~UnderWay(n)' PROVE Attempted(n)'
  <2>1. Pass(n)' = 0
    BY <1>9 DEF Pass
  <2>2. CASE Exists(c)
    <3>1. mail[c].status = "sending"
      BY <1>3, <2>2 DEF Exists
    <3>2. /\ mail[c].attempts < MaxAttempts
          /\ sends[c] <= mail[c].attempts + 1 + faults
          /\ sends[c] >= mail[c].attempts + 1
          /\ sends[c] <= MaxAttempts + faults
      BY <1>3, <3>1 DEF Attempted
    <3>3. mail'[n].attempts = mail[c].attempts + 1 /\ sends'[n] = sends[c] /\ faults' = faults
      BY <1>2, <1>4, <1>6, <1>7, <1>9, <2>2
    <3>4. mail'[n].status = IF mail[c].attempts + 1 >= MaxAttempts THEN "failed" ELSE "pending"
      BY <1>4, <1>6, <1>7, <1>9, <2>2
    <3> QED
      BY <1>8, <1>9, <2>1, <3>2, <3>3, <3>4 DEF Attempted
  <2>3. CASE ~Exists(c)
    BY <1>2, <1>3, <1>6, <1>9, <2>3 DEF Attempted, Exists
  <2> QED
    BY <2>2, <2>3
<1>10. faults' >= faults
  BY <1>2, <1>8
<1>11. WorkInv'
  BY <1>1, <1>2, <1>5, <1>9, <1>10, WorkGoesOn
<1>12. NewestInv'
  BY <1>2, <1>3, <1>5, <1>6, <1>7, AccountsStay DEF Exists
<1> QED
  BY <1>11, <1>12 DEF KeptNext

LEMMA MarkFailsKept == ASSUME KeptInv, NEW w \in Workers, MarkFails(w) PROVE KeptNext
<1> DEFINE c == Current(w).id
<1>1. TypeOK' /\ TypeOK
  BY MarkFailsInv DEF KeptInv, CountInv, Inv
<1>2. /\ worker[w].pc \in {"sent", "read", "write"} /\ NextInBatch(w) /\ faults' = faults + 1
      /\ UNCHANGED <<mail, user, live, newest, received, sends>>
  BY DEF MarkFails, Fault, queueVars, tableVars, wireVars
<1>3. /\ c \in MailId /\ Held(c) /\ Attempted(c) /\ mail[c] \in MailRow
      /\ mail[c].status \in {"sending", "gone"} /\ Pass(c) = 1
  BY <1>2, CurrentIsHeld
<1>4. /\ mail[c].attempts \in Nat /\ sends[c] \in Nat /\ faults \in Nat
      /\ MaxAttempts \in Nat \ {0}
  BY <1>1, <1>3, EmailOutboxAssumption DEF TypeOK, MailRow
<1>5. ASSUME NEW n \in MailId, n = c, ~Held(n)', ~UnderWay(n)' PROVE Attempted(n)'
  <2>1. Pass(n)' = 0
    BY <1>5 DEF Pass
  <2> QED
    BY <1>2, <1>3, <1>4, <1>5, <2>1 DEF Attempted
<1>6. faults' >= faults
  BY <1>2, <1>4
<1>7. WorkInv'
  BY <1>1, <1>2, <1>5, <1>6, WorkGoesOn
<1>8. NewestInv'
  BY <1>2, AccountsStay
<1> QED
  BY <1>7, <1>8 DEF KeptNext

LEMMA AbandonKept == ASSUME KeptInv, NEW w \in Workers, Abandon(w) PROVE KeptNext
<1>1. TypeOK' /\ TypeOK /\ WorkInv
  BY AbandonInv DEF KeptInv, CountInv, Inv
<1>2. /\ worker' = [worker EXCEPT ![w] = Idle] /\ faults' = faults + 1
      /\ UNCHANGED <<mail, user, live, newest, received, sends>>
  BY DEF Abandon, Fault, queueVars, tableVars, wireVars
<1>3. worker'[w].pc = "idle" /\ worker'[w].batch = <<>> /\ \A v \in Workers : v = w
  BY <1>1, <1>2 DEF TypeOK, Idle, Holding, KeptInv, OneWorker
<1>4. \A n \in MailId : ~Held(n)' /\ Pass(n)' = 0
  BY <1>3 DEF Held, Pass, UnderWay
<1>5. CopyIsTrue(w)' /\ StepIsTrue(w)'
  BY <1>3 DEF CopyIsTrue, StepIsTrue
<1>6. ASSUME NEW n \in MailId PROVE Attempted(n)'
  <2>1. /\ mail[n].attempts \in Nat /\ sends[n] \in Nat /\ faults \in Nat
        /\ MaxAttempts \in Nat \ {0} /\ Pass(n) \in {0, 1}
    BY <1>1, EmailOutboxAssumption DEF TypeOK, MailRow, Pass
  <2>2. Attempted(n)
    BY <1>1 DEF WorkInv
  <2> QED
    BY <1>2, <1>4, <2>1, <2>2 DEF Attempted
<1>7. WorkInv'
  BY <1>3, <1>5, <1>6 DEF WorkInv
<1>8. NewestInv'
  BY <1>2, AccountsStay
<1> QED
  BY <1>7, <1>8 DEF KeptNext

-----------------------------------------------------------------------------
LEMMA InitKept == OneWorker /\ Init => KeptInv
<1> SUFFICES ASSUME OneWorker, Init PROVE KeptInv
  OBVIOUS
<1>1. CountInv /\ MaxAttempts \in Nat \ {0}
  BY InitCount, EmailOutboxAssumption
<1>2. \A w \in Workers : worker[w].pc = "idle" /\ worker[w].batch = <<>>
  BY DEF Init, Idle, Holding
<1>3. \A w \in Workers : CopyIsTrue(w) /\ StepIsTrue(w)
  BY <1>2 DEF CopyIsTrue, StepIsTrue
<1>4. ASSUME NEW n \in MailId PROVE Attempted(n)
  <2>1. mail[n].status = "none" /\ sends[n] = 0 /\ faults = 0
    BY NoMailIsRow DEF Init
  <2>2. ~Held(n)
    BY <1>2 DEF Held
  <2> QED
    BY <1>1, <2>1, <2>2 DEF Attempted
<1>5. ASSUME NEW u \in Users, NEW t \in live \cup Events PROVE Quiet(u) /\ Answered(u, t)
  BY DEF Init, Quiet, Answered, Topics
<1>6. \A u \in Users : Quiet(u)
  BY DEF Init, Quiet
<1> QED
  BY <1>1, <1>3, <1>4, <1>5, <1>6 DEF KeptInv, WorkInv, NewestInv

LEMMA NextKept == KeptInv /\ [Next]_vars => KeptInv'
<1> SUFFICES ASSUME KeptInv, [Next]_vars PROVE KeptInv'
  OBVIOUS
<1>1. CountInv' /\ OneWorker'
  BY NextCount DEF KeptInv, OneWorker
<1>2. SUFFICES KeptNext
  BY <1>1, <1>2 DEF KeptInv, KeptNext
<1>3. CASE Handler
  BY <1>3, DisableUserKept, EnableUserKept, DeleteUserKept, DeleteTicketKept, EnqueueKept,
     EnqueueTestKept, RetryKept DEF Handler
<1>4. ASSUME NEW w \in Workers, Deliver(w) \/ MarkFails(w) \/ Abandon(w) PROVE KeptNext
  BY <1>4, ClaimKept, SendKept, MarkSentKept, ReadAttemptsKept, MarkFailedKept,
     MarkFailsKept, AbandonKept DEF Deliver
<1>5. ASSUME NEW n \in MailId, LeaseExpires(n) \/ BecomesDue(n) PROVE KeptNext
  BY <1>5, LeaseExpiresKept, BecomesDueKept
<1>6. CASE UNCHANGED vars
  <2>1. UNCHANGED <<mail, worker, user, live, newest, received, sends, faults>>
    BY <1>6 DEF vars, queueVars, tableVars, wireVars
  <2>2. faults' >= faults
    BY <2>1, EmailOutboxAssumption DEF KeptInv, CountInv, Inv, TypeOK
  <2>3. WorkInv'
    BY <1>1, <2>1, <2>2, WorkStays DEF KeptInv, CountInv, Inv
  <2>4. NewestInv'
    BY <2>1, AccountsStay
  <2> QED
    BY <2>3, <2>4 DEF KeptNext
<1> QED
  BY <1>3, <1>4, <1>5, <1>6 DEF Next

\* With one worker, the last payload queued for an active account has arrived, is
\* on its way or was given up; a row that says sent arrived as it stands, although
\* rewriting changes mail that was attempted before and the mark looks at the id
\* alone; and a mail is given up after as many attempts as there are, which are
\* exceeded by no more than there were faults.
THEOREM NewestMailIsKept == ASSUME OneWorker PROVE Spec => []NewestIsKept
<1>1. Init => KeptInv
  BY InitKept
<1>2. KeptInv => NewestIsKept
  <2> SUFFICES ASSUME KeptInv PROVE NewestIsKept
    OBVIOUS
  <2>1. \A n \in MailId :
          /\ mail[n].status = "sent" => mail[n].payload \in received[n]
          /\ mail[n].status = "failed" => sends[n] >= MaxAttempts
          /\ sends[n] <= MaxAttempts + faults
    BY DEF KeptInv, WorkInv, Attempted
  <2>2. \A u \in Users, t \in live \cup Events : Answered(u, t)
    BY DEF KeptInv, NewestInv
  <2> QED
    BY <2>1, <2>2 DEF NewestIsKept, Answered, Bears
<1> QED
  BY <1>1, <1>2, NextKept, PTL DEF Spec
=============================================================================
