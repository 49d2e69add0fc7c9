------------------------- MODULE DomainEventsProofs -------------------------
(***************************************************************************)
(* Proofs about DomainEvents for every number of accounts, events and      *)
(* dispatchers, every batch size and every attempt budget.                 *)
(*                                                                         *)
(* The invariant joins three parts: what is true of a row (RowInv), what a *)
(* dispatcher's locals still say about the row they were read from         *)
(* (WorkerInv), and the types.  A step changes few rows and one            *)
(* dispatcher; Monotone says what no step takes back, and is enough to     *)
(* carry WorkerInv across the steps of everyone else.                      *)
(*                                                                         *)
(* The second half is about a lone dispatcher (OneWorker): the rows it     *)
(* holds are its own (Sole), what an attempt it loses costs (CostInv), and *)
(* the order in which it works off the log (LogInv, BatchOrder).           *)
(***************************************************************************)
EXTENDS DomainEvents, FiniteSetTheorems, SequenceTheorems, TLAPS

RowInv(e) ==
    /\ row[e].status = "none" <=> e > lastId
    /\ (row[e].status # "none" /\ row[e].kind = "ticket") =>
           row[e].about \in Tickets /\ tickets[row[e].about] # "absent"
    /\ row[e].status \in {"pending", "processing"} => row[e].attempts < MaxAttempts
    /\ row[e].status = "failed" => row[e].attempts = MaxAttempts
    /\ outbox[e] <= 1
    /\ IF Applied(e)
       THEN /\ outbox[e] > 0
            /\ \/ e \in audit
               \/ row[e].kind = "ticket" /\ tickets[row[e].about] = "deleted"
       ELSE outbox[e] = 0 /\ e \notin audit

WorkerInv(w) ==
    /\ worker[w].pc # "idle" => worker[w].batch # <<>>
    /\ \A i \in 1..Len(worker[w].batch) : row[worker[w].batch[i]].status # "none"
    /\ worker[w].pc = "compose" => worker[w].audited
    /\ (worker[w].pc = "apply" /\ ~worker[w].audited) =>
           /\ row[Current(w)].kind = "ticket"
           /\ tickets[row[Current(w)].about] = "deleted"
    /\ (worker[w].pc = "write" /\ worker[w].seen >= MaxAttempts) =>
           row[Current(w)].status \in Settled

Inv ==
    /\ TypeOK
    /\ \A e \in EventId : RowInv(e)
    /\ \A w \in Workers : WorkerInv(w)

\* What no step takes back.
Monotone ==
    /\ \A e \in EventId : row[e].status # "none" =>
           /\ row'[e].status # "none"
           /\ row'[e].kind = row[e].kind
           /\ row'[e].about = row[e].about
           /\ row[e].status \in Settled => row'[e].status \in Settled
           /\ row[e].status \in {"processed", "pruned"} =>
                  row'[e].status \in {"processed", "pruned"}
    /\ \A t \in Tickets :
           /\ tickets[t] # "absent" => tickets'[t] # "absent"
           /\ tickets[t] = "deleted" => tickets'[t] = "deleted"

-----------------------------------------------------------------------------
(* Facts about batches.                                                    *)

LEMMA BatchIsSeq ==
    ASSUME NEW S, NEW n \in Nat, NEW f \in [1..n -> S]
    PROVE  f \in Seq(S) /\ Len(f) = n /\ DOMAIN f = 1..n
  OBVIOUS

LEMMA TailOfBatch ==
    ASSUME NEW S, NEW s \in Seq(S), s # <<>>
    PROVE  /\ Head(s) \in S
           /\ Head(s) = s[1]
           /\ Len(s) \in Nat \ {0}
           /\ Tail(s) \in Seq(S)
           /\ Len(s) # 1 => Tail(s) # <<>>
           /\ \A i \in 1..Len(Tail(s)) : i + 1 \in 1..Len(s) /\ Tail(s)[i] = s[i + 1]
  <1>1. Len(s) \in Nat \ {0}
    BY EmptySeq
  <1>2. Head(s) = s[1] /\ Head(s) \in S
    BY HeadTailProperties, ElementOfSeq, <1>1
  <1>3. Tail(s) \in Seq(S) /\ Len(Tail(s)) = Len(s) - 1
    BY HeadTailProperties
  <1>4. \A i \in 1..Len(Tail(s)) : Tail(s)[i] = s[i + 1]
    BY HeadTailProperties
  <1>5. Len(<<>>) = 0
    BY EmptySeq
  <1>6. ASSUME Tail(s) = <<>>
        PROVE  Len(s) = 1
    <2>1. Len(Tail(s)) = 0
      BY <1>5, <1>6, Zenon
    <2>2. Len(s) - 1 = 0
      BY <1>3, <2>1, Zenon
    <2> QED
      BY <1>1, <2>2
  <1> QED
    BY <1>1, <1>2, <1>3, <1>4, <1>6

LEMMA HoldingTyped ==
    ASSUME NEW pc \in {"idle", "project"}, NEW batch \in Seq(EventId)
    PROVE  Holding(pc, batch) \in WorkerState
  BY DomainEventsAssumption DEF Holding, WorkerState

LEMMA IdleTyped == Idle \in WorkerState
  <1>1. <<>> \in Seq(EventId)
    OBVIOUS
  <1> QED
    BY <1>1, HoldingTyped DEF Idle

\* Going on with the batch keeps a dispatcher's locals well typed.
LEMMA NextInBatchTyped ==
    ASSUME TypeOK, NEW w \in Workers, worker[w].batch # <<>>, NextInBatch(w)
    PROVE  worker' \in [Workers -> WorkerState]
  <1> DEFINE s == worker[w].batch
  <1>1. s \in Seq(EventId)
    BY DEF TypeOK, WorkerState
  <1>2. Tail(s) \in Seq(EventId)
    BY <1>1, TailOfBatch
  <1>3. Holding("project", Tail(s)) \in WorkerState
    BY <1>2, HoldingTyped
  <1> QED
    BY <1>3, IdleTyped DEF NextInBatch, TypeOK

-----------------------------------------------------------------------------
(* What carries the invariant over a step.                                 *)

\* A row that a step leaves alone keeps its invariant.
LEMMA RowKept ==
    ASSUME Inv, Monotone, NEW e \in EventId,
           row'[e] = row[e], outbox'[e] = outbox[e],
           e \in audit' <=> e \in audit, lastId' = lastId
    PROVE  RowInv(e)'
  BY DEF Inv, Monotone, RowInv, Applied

\* A dispatcher that a step leaves alone keeps its invariant.
LEMMA WorkerKept ==
    ASSUME Inv, Monotone, NEW w \in Workers, worker'[w] = worker[w]
    PROVE  WorkerInv(w)'
  <1> USE DEF Current
  <1>1. worker[w] \in WorkerState /\ WorkerInv(w)
    BY DEF Inv, TypeOK
  <1>2. worker[w].batch \in Seq(EventId)
    BY <1>1 DEF WorkerState
  <1>3. ASSUME NEW i \in 1..Len(worker[w].batch)
        PROVE  row'[worker[w].batch[i]].status # "none"
    BY <1>1, <1>2, <1>3, ElementOfSeq DEF WorkerInv, Monotone
  <1>4. ASSUME worker[w].pc # "idle"
        PROVE  /\ Current(w) \in EventId
               /\ row[Current(w)].status # "none"
               /\ RowInv(Current(w))
    <2>1. Head(worker[w].batch) = worker[w].batch[1] /\ 1 \in 1..Len(worker[w].batch)
      BY <1>1, <1>2, <1>4, TailOfBatch DEF WorkerInv
    <2> QED
      BY <1>1, <1>2, <2>1, ElementOfSeq DEF WorkerInv, Inv
  <1>5. (worker[w].pc = "apply" /\ ~worker[w].audited) =>
            /\ row'[Current(w)].kind = "ticket"
            /\ tickets'[row'[Current(w)].about] = "deleted"
    BY <1>1, <1>4 DEF WorkerInv, RowInv, Monotone
  <1>6. (worker[w].pc = "write" /\ worker[w].seen >= MaxAttempts) =>
            row'[Current(w)].status \in Settled
    BY <1>1, <1>4 DEF WorkerInv, Monotone
  <1> QED
    BY <1>1, <1>3, <1>5, <1>6 DEF WorkerInv

\* The event a busy dispatcher is at.
LEMMA CurrentEvent ==
    ASSUME Inv, NEW w \in Workers, worker[w].pc # "idle"
    PROVE  /\ worker[w].batch \in Seq(EventId)
           /\ worker[w].batch # <<>>
           /\ Current(w) \in EventId
           /\ row[Current(w)] \in EventRow
           /\ row[Current(w)].status # "none"
           /\ RowInv(Current(w))
  <1>1. worker[w].batch \in Seq(EventId) /\ worker[w].batch # <<>> /\ WorkerInv(w)
    BY DEF Inv, TypeOK, WorkerState, WorkerInv
  <1>2. Current(w) = worker[w].batch[1] /\ 1 \in 1..Len(worker[w].batch)
    BY <1>1, TailOfBatch DEF Current
  <1>3. Current(w) \in EventId
    BY <1>1, <1>2, ElementOfSeq
  <1> QED
    BY <1>1, <1>2, <1>3 DEF Inv, TypeOK, WorkerInv

\* Every dispatcher's invariant survives one of them going on with its batch.
LEMMA NextInBatchKeeps ==
    ASSUME Inv, Monotone, NEW w \in Workers, worker[w].pc # "idle", NextInBatch(w)
    PROVE  /\ worker' \in [Workers -> WorkerState]
           /\ \A v \in Workers : WorkerInv(v)'
  <1> DEFINE s == worker[w].batch
  <1>1. s \in Seq(EventId) /\ s # <<>> /\ WorkerInv(w) /\ TypeOK
    BY CurrentEvent DEF Inv
  <1>2. worker' \in [Workers -> WorkerState]
    BY <1>1, NextInBatchTyped
  <1>3. ASSUME NEW v \in Workers, v # w
        PROVE  WorkerInv(v)'
    <2>1. worker'[v] = worker[v]
      BY <1>1, <1>3 DEF NextInBatch, TypeOK
    <2> QED
      BY <2>1, WorkerKept
  <1>4. CASE Len(s) = 1
    <2>1. worker'[w] = Idle
      BY <1>1, <1>4 DEF NextInBatch, TypeOK
    <2>2. Idle.pc = "idle" /\ Idle.batch = <<>>
      BY DEF Idle, Holding
    <2>3. Len(<<>>) = 0
      BY EmptySeq
    <2>4. WorkerInv(w)'
      BY <2>1, <2>2, <2>3 DEF WorkerInv
    <2> QED
      BY <1>2, <1>3, <2>4
  <1>5. CASE Len(s) # 1
    <2>1. worker'[w] = Holding("project", Tail(s))
      BY <1>1, <1>5 DEF NextInBatch, TypeOK
    <2>2. worker'[w].pc = "project" /\ worker'[w].batch = Tail(s)
      BY <2>1 DEF Holding
    <2>3. Tail(s) # <<>>
      BY <1>1, <1>5, TailOfBatch
    <2>4. ASSUME NEW i \in 1..Len(Tail(s))
          PROVE  row'[Tail(s)[i]].status # "none"
      <3>1. Tail(s)[i] = s[i + 1] /\ i + 1 \in 1..Len(s)
        BY <1>1, TailOfBatch
      <3> QED
        BY <1>1, <3>1, ElementOfSeq DEF WorkerInv, Monotone
    <2>5. WorkerInv(w)'
      BY <2>2, <2>3, <2>4 DEF WorkerInv
    <2> QED
      BY <1>2, <1>3, <2>5
  <1> QED
    BY <1>4, <1>5

\* A step that changes nothing but one dispatcher.
LEMMA OnlyWorker ==
    ASSUME Inv, NEW w \in Workers,
           UNCHANGED <<tableVars, logVars, outVars>>,
           faults' \in 0..MaxFaults,
           worker' \in [Workers -> WorkerState],
           \A v \in Workers : WorkerInv(v)'
    PROVE  Inv' /\ Monotone
  <1>1. Monotone
    BY DEF Monotone, tableVars, logVars
  <1>2. TypeOK'
    BY DEF Inv, TypeOK, tableVars, logVars, outVars
  <1>3. \A e \in EventId : RowInv(e)'
    BY <1>1, RowKept DEF logVars, outVars
  <1> QED
    BY <1>1, <1>2, <1>3 DEF Inv

-----------------------------------------------------------------------------
(* The initial state and the steps, one lemma per action.                  *)

LEMMA InitInv == Init => Inv
  <1> SUFFICES ASSUME Init PROVE Inv
    OBVIOUS
  <1>1. NoRow \in EventRow /\ NoRow.status = "none" /\ NoRow.kind = "app"
    BY DomainEventsAssumption DEF NoRow, NewRow, EventRow, Status
  <1>2. TypeOK
    BY <1>1, IdleTyped, DomainEventsAssumption DEF Init, TypeOK
  <1>3. ASSUME NEW e \in EventId
        PROVE  RowInv(e)
    BY <1>1, DomainEventsAssumption DEF Init, RowInv, Applied, EventId
  <1>4. ASSUME NEW w \in Workers
        PROVE  WorkerInv(w)
    <2>1. worker[w].pc = "idle" /\ worker[w].batch = <<>>
      BY DEF Init, Idle, Holding
    <2>2. Len(<<>>) = 0
      BY EmptySeq
    <2> QED
      BY <2>1, <2>2 DEF WorkerInv
  <1> QED
    BY <1>2, <1>3, <1>4 DEF Inv

\* What the insertion of events does to the log, whichever handler it ends.
LEMMA InsertEventsInv ==
    ASSUME Inv,
           NEW n \in 1..2, NEW new \in EventRow, InsertEvents(n, new),
           new.status = "pending", new.attempts = 0,
           users' \in SUBSET Users, hooks' \in SUBSET Hooks,
           tickets' \in [Tickets -> {"absent", "live", "deleted"}],
           authors' \in [Tickets -> SUBSET Users],
           \A t \in Tickets :
               /\ tickets[t] # "absent" => tickets'[t] # "absent"
               /\ tickets[t] = "deleted" => tickets'[t] = "deleted",
           new.kind = "ticket" =>
               new.about \in Tickets /\ tickets'[new.about] # "absent"
    PROVE  Inv' /\ Monotone
  <1> DEFINE ids == {NewId(i) : i \in 1..n}
  <1>0. TypeOK
    BY DEF Inv
  <1>1. lastId \in 0..MaxEvents /\ MaxEvents \in Nat /\ n \in Nat
    BY <1>0, DomainEventsAssumption DEF TypeOK
  <1>2. \A e \in EventId : e \in ids <=> (e > lastId /\ ~(e > lastId + n))
    <2>1. ASSUME NEW e \in EventId, e > lastId, ~(e > lastId + n)
          PROVE  e \in ids
      <3>1. e - lastId \in 1..n /\ e = NewId(e - lastId)
        BY <1>1, <2>1 DEF NewId, EventId
      <3> QED
        BY <3>1
    <2> QED
      BY <1>1, <2>1 DEF NewId, EventId
  <1>3. /\ ids \subseteq EventId
        /\ row' = [e \in EventId |-> IF e \in ids THEN new ELSE row[e]]
        /\ lastId' = lastId + n
        /\ ahead' \in SUBSET (EventId \X EventId)
        /\ UNCHANGED <<outVars, worker, faults>>
    BY <1>0 DEF InsertEvents, TypeOK
  <1>4. lastId' \in 0..MaxEvents
    <2>1. NewId(n) \in ids
      BY <1>1
    <2> QED
      BY <1>1, <1>3, <2>1 DEF NewId, EventId
  <1>5. TypeOK'
    BY <1>0, <1>3, <1>4 DEF TypeOK, outVars
  <1>6. ASSUME NEW e \in ids
        PROVE  row[e].status = "none" /\ outbox[e] = 0 /\ e \notin audit
    BY <1>2, <1>3 DEF Inv, RowInv, Applied
  <1>7. Monotone
    BY <1>3, <1>6 DEF Monotone
  <1>8. ASSUME NEW e \in EventId
        PROVE  RowInv(e)'
    <2>1. CASE e \in ids
      <3>1. row'[e] = new /\ e > lastId /\ ~(e > lastId')
        BY <1>2, <1>3, <2>1
      <3>2. outbox'[e] = 0 /\ e \notin audit'
        BY <1>3, <1>6, <2>1 DEF outVars
      <3> QED
        BY <3>1, <3>2, DomainEventsAssumption DEF RowInv, Applied, Settled
    <2>2. CASE e \notin ids
      <3>1. row'[e] = row[e] /\ (e > lastId <=> e > lastId')
        BY <1>1, <1>2, <1>3, <2>2 DEF EventId
      <3>2. outbox' = outbox /\ audit' = audit
        BY <1>3 DEF outVars
      <3> QED
        BY <1>7, <3>1, <3>2 DEF Inv, RowInv, Applied, Monotone
    <2> QED
      BY <2>1, <2>2
  <1>9. ASSUME NEW w \in Workers
        PROVE  WorkerInv(w)'
    BY <1>3, <1>7, WorkerKept
  <1> QED
    BY <1>5, <1>7, <1>8, <1>9 DEF Inv

\* The row every handler inserts.
LEMMA NewRowTyped ==
    ASSUME NEW kind \in {"ticket", "app", "link"},
           NEW actor \in Users, NEW about \in Users \cup Tickets \cup {NoOne}
    PROVE  /\ NewRow(kind, actor, about) \in EventRow
           /\ NewRow(kind, actor, about).status = "pending"
           /\ NewRow(kind, actor, about).attempts = 0
           /\ NewRow(kind, actor, about).kind = kind
           /\ NewRow(kind, actor, about).about = about
  BY DomainEventsAssumption DEF NewRow, EventRow, Status

LEMMA HandlerInv ==
    ASSUME Inv, Handler
    PROVE  Inv' /\ Monotone
  <1>0. TypeOK
    BY DEF Inv
  <1>1. ASSUME NEW u \in Users, NEW t \in Tickets, CreateTicket(u, t)
        PROVE  Inv' /\ Monotone
    <2>1. NewRow("ticket", u, t).about = t /\ tickets' = [tickets EXCEPT ![t] = "live"]
      BY <1>1, NewRowTyped DEF CreateTicket
    <2> QED
      BY <1>0, <1>1, <2>1, NewRowTyped, InsertEventsInv DEF CreateTicket, TypeOK
  <1>2. ASSUME NEW u \in Users, NEW t \in Tickets, SaveTicket(u, t)
        PROVE  Inv' /\ Monotone
    <2>1. PICK n \in 1..2 : InsertEvents(n, NewRow("ticket", u, t))
      BY <1>2 DEF SaveTicket
    <2>2. authors' \in [Tickets -> SUBSET Users]
      BY <1>0, <1>2 DEF SaveTicket, TypeOK
    <2> QED
      BY <1>0, <1>2, <2>1, <2>2, NewRowTyped, InsertEventsInv DEF SaveTicket, TypeOK
  <1>3. ASSUME NEW u \in Users, NEW t \in Tickets, DeleteTicket(u, t)
        PROVE  Inv' /\ Monotone
    BY <1>0, <1>3, NewRowTyped, InsertEventsInv DEF DeleteTicket, TypeOK
  <1>4. ASSUME NEW u \in Users, NEW h \in Hooks, DeleteWebhook(u, h)
        PROVE  Inv' /\ Monotone
    BY <1>0, <1>4, NewRowTyped, InsertEventsInv DEF DeleteWebhook, TypeOK
  <1>5. ASSUME NEW u \in Users, NEW v \in Users, CreatePasswordResetLink(u, v)
        PROVE  Inv' /\ Monotone
    BY <1>0, <1>5, NewRowTyped, InsertEventsInv
       DEF CreatePasswordResetLink, TypeOK, tableVars
  <1>6. ASSUME NEW u \in Users, NEW v \in Users, DeleteUser(u, v)
        PROVE  Inv' /\ Monotone
    BY <1>0, <1>6, NewRowTyped, InsertEventsInv, SMTT(30) DEF DeleteUser, TypeOK
  <1> QED
    BY <1>1, <1>2, <1>3, <1>4, <1>5, <1>6 DEF Handler

LEMMA TakenRow ==
    ASSUME NEW r \in EventRow
    PROVE  /\ Taken(r) \in EventRow
           /\ Taken(r).status = "processing"
           /\ Taken(r).kind = r.kind
           /\ Taken(r).about = r.about
           /\ Taken(r).attempts = r.attempts
  BY DEF Taken, EventRow, Status

LEMMA ProcessedRow ==
    ASSUME NEW r \in EventRow
    PROVE  /\ Processed(r) \in EventRow
           /\ Processed(r).status = "processed"
           /\ Processed(r).kind = r.kind
           /\ Processed(r).about = r.about
           /\ Processed(r).attempts = r.attempts
  BY DEF Processed, EventRow, Status, Settled

LEMMA AttemptedRow ==
    ASSUME NEW r \in EventRow, NEW n \in 0..MaxAttempts
    PROVE  /\ Attempted(r, n) \in EventRow
           /\ Attempted(r, n).status = IF GivenUp(n) THEN "failed" ELSE "pending"
           /\ Attempted(r, n).kind = r.kind
           /\ Attempted(r, n).about = r.about
           /\ Attempted(r, n).attempts = n
  <1> DEFINE status == IF GivenUp(n) THEN "failed" ELSE "pending"
             due    == GivenUp(n)
  <1>1. status \in Status /\ due \in BOOLEAN
    BY DEF GivenUp, Status, Settled
  <1>2. Attempted(r, n) = [r EXCEPT !.status = status, !.attempts = n,
                                    !.due = due, !.leased = FALSE]
    BY DEF Attempted
  <1> HIDE DEF status, due
  <1>3. /\ Attempted(r, n) \in EventRow
        /\ Attempted(r, n).status = status
        /\ Attempted(r, n).kind = r.kind
        /\ Attempted(r, n).about = r.about
        /\ Attempted(r, n).attempts = n
    BY <1>1, <1>2 DEF EventRow
  <1> QED
    BY <1>3 DEF status

\* Claiming changes rows to "processing" and one idle dispatcher.
LEMMA ClaimInv ==
    ASSUME Inv, NEW w \in Workers, Claim(w)
    PROVE  Inv' /\ Monotone
  <1>0. TypeOK
    BY DEF Inv
  <1>n. PICK n \in 1..BatchSize : \E batch \in [1..n -> ClaimableIds] :
            /\ row' = [e \in EventId |->
                          IF \E i \in 1..n : batch[i] = e
                          THEN Taken(row[e]) ELSE row[e]]
            /\ worker' = [worker EXCEPT ![w] = Holding("project", batch)]
    BY DEF Claim
  <1>1. PICK batch \in [1..n -> ClaimableIds] :
            /\ row' = [e \in EventId |->
                          IF \E i \in 1..n : batch[i] = e
                          THEN Taken(row[e]) ELSE row[e]]
            /\ worker' = [worker EXCEPT ![w] = Holding("project", batch)]
    BY <1>n
  <1>2. /\ UNCHANGED <<users, tickets, authors, hooks, lastId, ahead, audit, outbox, faults>>
        /\ worker[w].pc = "idle"
    BY DEF Claim, tableVars, outVars
  <1>3. batch \in Seq(EventId) /\ Len(batch) = n /\ batch # <<>>
    <2>1. n \in Nat /\ n # 0
      BY DomainEventsAssumption
    <2>0. batch \in [1..n -> EventId]
      <3>1. ClaimableIds \subseteq EventId
        BY DEF ClaimableIds
      <3> QED
        BY <3>1
    <2>2. batch \in Seq(EventId) /\ Len(batch) = n
      BY <2>0, <2>1, BatchIsSeq
    <2>3. Len(<<>>) = 0
      BY EmptySeq
    <2> QED
      BY <2>1, <2>2, <2>3
  <1>4. ASSUME NEW e \in EventId, \E i \in 1..n : batch[i] = e
        PROVE  /\ row[e].status \in {"pending", "processing"}
               /\ row'[e] = Taken(row[e])
    BY <1>1, <1>4 DEF ClaimableIds, Claimable
  <1>5. ASSUME NEW e \in EventId, ~\E i \in 1..n : batch[i] = e
        PROVE  row'[e] = row[e]
    BY <1>1, <1>5
  <1>6. \A e \in EventId : row[e] \in EventRow
    BY <1>0 DEF TypeOK
  <1>7. ASSUME NEW e \in EventId, \E i \in 1..n : batch[i] = e
        PROVE  /\ row'[e] \in EventRow
               /\ row'[e].status = "processing"
               /\ row'[e].kind = row[e].kind
               /\ row'[e].about = row[e].about
               /\ row'[e].attempts = row[e].attempts
    BY <1>4, <1>6, <1>7, TakenRow
  <1>8. TypeOK'
    <2>1. row' \in [EventId -> EventRow]
      <3>1. \A e \in EventId : row'[e] \in EventRow
        BY <1>5, <1>6, <1>7
      <3> QED
        BY <1>1, <3>1
    <2>2. worker' \in [Workers -> WorkerState]
      BY <1>0, <1>1, <1>3, HoldingTyped DEF TypeOK
    <2> QED
      BY <1>0, <1>2, <2>1, <2>2 DEF TypeOK
  <1>9. Monotone
    BY <1>2, <1>4, <1>5, <1>7 DEF Monotone, Settled
  <1>10. ASSUME NEW e \in EventId
         PROVE  RowInv(e)'
    <2>1. CASE \E i \in 1..n : batch[i] = e
      BY <1>2, <1>4, <1>7, <2>1 DEF Inv, RowInv, Applied, Settled
    <2>2. CASE ~\E i \in 1..n : batch[i] = e
      BY <1>2, <1>5, <1>9, <2>2, RowKept
    <2> QED
      BY <2>1, <2>2
  <1>11. ASSUME NEW v \in Workers
         PROVE  WorkerInv(v)'
    <2>1. CASE v # w
      BY <1>0, <1>1, <1>9, <2>1, WorkerKept DEF TypeOK
    <2>2. CASE v = w
      <3>1. worker'[w].pc = "project" /\ worker'[w].batch = batch
        BY <1>0, <1>1 DEF TypeOK, Holding
      <3>2. \A i \in 1..Len(batch) : row'[batch[i]].status # "none"
        <4>1. \A i \in 1..Len(batch) : batch[i] \in EventId
          BY <1>3, ElementOfSeq
        <4> QED
          BY <1>3, <1>7, <4>1
      <3> QED
        BY <1>3, <2>2, <3>1, <3>2 DEF WorkerInv
    <2> QED
      BY <2>1, <2>2
  <1> QED
    BY <1>8, <1>9, <1>10, <1>11 DEF Inv

\* A dispatcher that moves on within one event, holding the same batch.
LEMMA SameEvent ==
    ASSUME Inv, NEW w \in Workers, worker[w].pc # "idle",
           UNCHANGED <<tableVars, logVars, outVars>>, faults' \in 0..MaxFaults,
           NEW local \in WorkerState, worker' = [worker EXCEPT ![w] = local],
           local.pc # "idle", local.batch = worker[w].batch,
           local.pc = "compose" => local.audited,
           (local.pc = "apply" /\ ~local.audited) =>
               /\ row[Current(w)].kind = "ticket"
               /\ tickets[row[Current(w)].about] = "deleted",
           (local.pc = "write" /\ local.seen >= MaxAttempts) =>
               row[Current(w)].status \in Settled
    PROVE  Inv' /\ Monotone
  <1>1. TypeOK
    BY DEF Inv
  <1>2. worker' \in [Workers -> WorkerState]
    BY <1>1 DEF TypeOK
  <1>3. row' = row /\ tickets' = tickets
    BY DEF logVars, tableVars
  <1>4. Monotone
    BY <1>3 DEF Monotone
  <1>5. ASSUME NEW v \in Workers, v # w
        PROVE  WorkerInv(v)'
    BY <1>1, <1>4, <1>5, WorkerKept DEF TypeOK
  <1>6. worker'[w] = local
    BY <1>1 DEF TypeOK
  <1>7. WorkerInv(w) /\ worker[w].batch # <<>>
    BY CurrentEvent DEF Inv
  <1>8. WorkerInv(w)'
    BY <1>3, <1>6, <1>7 DEF WorkerInv, Current
  <1> QED
    BY <1>2, <1>5, <1>8, OnlyWorker

LEMMA ProjectInv ==
    ASSUME Inv, NEW w \in Workers, Project(w)
    PROVE  Inv' /\ Monotone
  <1>1. worker[w] \in WorkerState /\ faults \in 0..MaxFaults
        /\ tickets \in [Tickets -> {"absent", "live", "deleted"}]
    BY DEF Inv, TypeOK
  <1>2. worker[w].pc = "project" /\ UNCHANGED <<tableVars, logVars, outVars, faults>>
    BY DEF Project
  <1>3. /\ row[Current(w)] \in EventRow
        /\ row[Current(w)].status # "none"
        /\ RowInv(Current(w))
    BY <1>2, CurrentEvent
  <1> DEFINE event == row[Current(w)]
             ready == [worker[w] EXCEPT !.pc = "compose", !.audited = TRUE]
             empty == [worker[w] EXCEPT !.pc = "apply"]
             link  == [worker[w] EXCEPT !.pc = "apply", !.audited = TRUE,
                                        !.emails = {event.about} \cap users]
             app   == [worker[w] EXCEPT !.pc = "apply", !.audited = TRUE]
  <1>4. CASE event.kind = "ticket" /\ tickets[event.about] = "live"
    <2>1. worker' = [worker EXCEPT ![w] = ready]
      BY <1>4 DEF Project
    <2>2. /\ ready \in WorkerState /\ ready.pc = "compose" /\ ready.audited
          /\ ready.batch = worker[w].batch
      BY <1>1 DEF WorkerState
    <2> QED
      BY <1>1, <1>2, <2>1, <2>2, SameEvent
  <1>5. CASE event.kind = "ticket" /\ tickets[event.about] # "live"
    <2>1. worker' = [worker EXCEPT ![w] = empty]
      BY <1>5 DEF Project
    <2>2. empty \in WorkerState /\ empty.pc = "apply" /\ empty.batch = worker[w].batch
      BY <1>1 DEF WorkerState
    <2>3. tickets[event.about] = "deleted"
      BY <1>1, <1>3, <1>5 DEF RowInv
    <2> QED
      BY <1>1, <1>2, <1>5, <2>1, <2>2, <2>3, SameEvent
  <1>6. CASE event.kind = "link"
    <2>1. worker' = [worker EXCEPT ![w] = link]
      BY <1>6 DEF Project
    <2>2. users \subseteq Users
      BY DEF Inv, TypeOK
    <2>3. /\ link \in WorkerState /\ link.pc = "apply" /\ link.audited
          /\ link.batch = worker[w].batch
      <3>1. {event.about} \cap users \in SUBSET Users
        BY <2>2
      <3> HIDE DEF event
      <3> QED
        BY <1>1, <3>1 DEF WorkerState
    <2> HIDE DEF link
    <2> QED
      BY <1>1, <1>2, <2>1, <2>3, SameEvent
  <1>7. CASE event.kind \notin {"ticket", "link"}
    <2>1. worker' = [worker EXCEPT ![w] = app]
      BY <1>7 DEF Project
    <2>2. /\ app \in WorkerState /\ app.pc = "apply" /\ app.audited
          /\ app.batch = worker[w].batch
      BY <1>1 DEF WorkerState
    <2> HIDE DEF app
    <2> QED
      BY <1>1, <1>2, <2>1, <2>2, SameEvent
  <1> QED
    BY <1>4, <1>5, <1>6, <1>7

LEMMA ComposeInv ==
    ASSUME Inv, NEW w \in Workers, Compose(w)
    PROVE  Inv' /\ Monotone
  <1>1. /\ worker[w] \in WorkerState /\ faults \in 0..MaxFaults
        /\ users \subseteq Users /\ hooks \subseteq Hooks
    BY DEF Inv, TypeOK
  <1>2. worker[w].pc = "compose" /\ UNCHANGED <<tableVars, logVars, outVars, faults>>
    BY DEF Compose
  <1>3. PICK emails \in SUBSET users :
            worker' = [worker EXCEPT
                          ![w] = [@ EXCEPT !.pc = "apply",
                                           !.emails = emails, !.hooks = hooks]]
    BY DEF Compose
  <1> DEFINE local == [worker[w] EXCEPT !.pc = "apply", !.emails = emails,
                                        !.hooks = hooks]
  <1>4. emails \in SUBSET Users /\ hooks \in SUBSET Hooks
    BY <1>1
  <1>5. /\ local \in WorkerState /\ local.pc = "apply"
        /\ local.batch = worker[w].batch /\ local.audited = worker[w].audited
    BY <1>1, <1>4 DEF WorkerState
  <1>6. worker' = [worker EXCEPT ![w] = local]
    BY <1>3
  <1>7. worker[w].audited
    BY <1>2 DEF Inv, WorkerInv
  <1> HIDE DEF local
  <1> QED
    BY <1>1, <1>2, <1>5, <1>6, <1>7, SameEvent

\* The transaction failed, one way or the other: attempts are read next.
LEMMA ToRead ==
    ASSUME Inv, NEW w \in Workers, worker[w].pc # "idle",
           UNCHANGED <<tableVars, logVars, outVars>>, faults' \in 0..MaxFaults,
           worker' = [worker EXCEPT ![w] = [@ EXCEPT !.pc = "read"]]
    PROVE  Inv' /\ Monotone
  <1> DEFINE local == [worker[w] EXCEPT !.pc = "read"]
  <1>1. worker[w] \in WorkerState
    BY DEF Inv, TypeOK
  <1>2. local \in WorkerState /\ local.pc = "read" /\ local.batch = worker[w].batch
    BY <1>1 DEF WorkerState
  <1>3. worker' = [worker EXCEPT ![w] = local]
    OBVIOUS
  <1> HIDE DEF local
  <1> QED
    BY <1>2, <1>3, SameEvent

LEMMA FaultTyped ==
    ASSUME TypeOK, Fault
    PROVE  faults' \in 0..MaxFaults
  BY DomainEventsAssumption DEF TypeOK, Fault

\* The other steps that change nothing but the dispatcher.
LEMMA MoveOn ==
    ASSUME Inv, NEW w \in Workers, worker[w].pc # "idle", NextInBatch(w),
           UNCHANGED <<tableVars, logVars, outVars>>, faults' \in 0..MaxFaults
    PROVE  Inv' /\ Monotone
  <1>1. Monotone
    BY DEF Monotone, logVars, tableVars
  <1> QED
    BY <1>1, NextInBatchKeeps, OnlyWorker

LEMMA ReadAttemptsInv ==
    ASSUME Inv, NEW w \in Workers, ReadAttempts(w)
    PROVE  Inv' /\ Monotone
  <1>1. worker[w] \in WorkerState /\ faults \in 0..MaxFaults
    BY DEF Inv, TypeOK
  <1>2. worker[w].pc = "read" /\ UNCHANGED <<tableVars, logVars, outVars, faults>>
    BY DEF ReadAttempts
  <1> DEFINE e == Current(w)
             local == [worker[w] EXCEPT !.pc = "write", !.seen = row[e].attempts]
  <1>3. row[e] \in EventRow /\ row[e].status # "none" /\ RowInv(e)
    BY <1>2, CurrentEvent
  <1>4. CASE row[e].status = "pruned"
    BY <1>1, <1>2, <1>4, MoveOn DEF ReadAttempts
  <1>5. CASE row[e].status # "pruned"
    <2>1. worker' = [worker EXCEPT ![w] = local]
      BY <1>5 DEF ReadAttempts
    <2>2. row[e].attempts \in 0..MaxAttempts /\ row[e].status \in Status
      BY <1>3 DEF EventRow
    <2>3. /\ local \in WorkerState /\ local.pc = "write"
          /\ local.batch = worker[w].batch /\ local.seen = row[e].attempts
      <3> HIDE DEF e
      <3> QED
        BY <1>1, <2>2 DEF WorkerState
    <2>4. row[e].attempts >= MaxAttempts => row[e].status \in Settled
      BY <1>3, <2>2, DomainEventsAssumption DEF RowInv, Status
    <2> HIDE DEF local
    <2> QED
      BY <1>1, <1>2, <2>1, <2>3, <2>4, SameEvent
  <1> QED
    BY <1>4, <1>5

LEMMA ApplyInv ==
    ASSUME Inv, NEW w \in Workers, Apply(w)
    PROVE  Inv' /\ Monotone
  <1> DEFINE e == Current(w)
  <1>0. TypeOK /\ WorkerInv(w)
    BY DEF Inv
  <1>1. /\ worker[w].pc = "apply" /\ Unapplied(e)
        /\ audit' = IF worker[w].audited THEN audit \cup {e} ELSE audit
        /\ outbox' = [outbox EXCEPT ![e] = @ + 1]
        /\ row' = [row EXCEPT ![e] = Processed(@)]
        /\ NextInBatch(w)
        /\ UNCHANGED <<users, tickets, authors, hooks, lastId, ahead, faults>>
    BY DEF Apply, tableVars
  <1>2. /\ e \in EventId /\ row[e] \in EventRow
        /\ row[e].status # "none" /\ RowInv(e)
    BY <1>1, CurrentEvent
  <1>3. /\ row'[e] \in EventRow
        /\ row'[e].status = "processed"
        /\ row'[e].kind = row[e].kind
        /\ row'[e].about = row[e].about
    BY <1>0, <1>1, <1>2, ProcessedRow DEF TypeOK
  <1>4. \A d \in EventId \ {e} : row'[d] = row[d] /\ outbox'[d] = outbox[d]
                                 /\ (d \in audit' <=> d \in audit)
    BY <1>0, <1>1 DEF TypeOK
  <1> HIDE DEF e
  <1>5. Monotone
    BY <1>1, <1>3, <1>4 DEF Monotone, Settled
  <1>6. outbox[e] = 0 /\ outbox'[e] = 1
    <2>1. outbox[e] = 0
      BY <1>1, <1>2 DEF RowInv, Applied, Unapplied
    <2> QED
      BY <1>0, <1>1, <1>2, <2>1 DEF TypeOK
  <1>7. e \in audit' \/ (row'[e].kind = "ticket" /\ tickets'[row'[e].about] = "deleted")
    BY <1>0, <1>1, <1>3 DEF WorkerInv, e
  <1>8. ASSUME NEW d \in EventId
        PROVE  RowInv(d)'
    <2>1. CASE d = e
      BY <1>1, <1>2, <1>3, <1>6, <1>7, <2>1 DEF RowInv, Applied
    <2>2. CASE d # e
      BY <1>1, <1>4, <1>5, <2>2, RowKept
    <2> QED
      BY <2>1, <2>2
  <1>9. worker' \in [Workers -> WorkerState] /\ \A v \in Workers : WorkerInv(v)'
    BY <1>1, <1>5, NextInBatchKeeps
  <1>10. TypeOK'
    <2>1. row' \in [EventId -> EventRow]
      BY <1>0, <1>1, <1>3, <1>4 DEF TypeOK
    <2>2. outbox' \in [EventId -> Nat] /\ audit' \subseteq EventId
      BY <1>0, <1>1, <1>2 DEF TypeOK
    <2> QED
      BY <1>0, <1>1, <1>9, <2>1, <2>2 DEF TypeOK
  <1> QED
    BY <1>5, <1>8, <1>9, <1>10 DEF Inv

LEMMA MarkFailedInv ==
    ASSUME Inv, NEW w \in Workers, MarkFailed(w)
    PROVE  Inv' /\ Monotone
  <1> DEFINE e == Current(w)
             n == worker[w].seen + 1
  <1>0. TypeOK /\ WorkerInv(w) /\ worker[w] \in WorkerState
    BY DEF Inv, TypeOK
  <1>1. /\ worker[w].pc = "write" /\ NextInBatch(w)
        /\ UNCHANGED <<users, tickets, authors, hooks, lastId, ahead,
                       audit, outbox, faults>>
    BY DEF MarkFailed, tableVars, outVars
  <1>2. /\ e \in EventId /\ row[e] \in EventRow
        /\ row[e].status # "none" /\ RowInv(e)
    BY <1>1, CurrentEvent
  <1>3. CASE StillProcessing(e)
    <2>1. row' = [row EXCEPT ![e] = Attempted(@, n)]
      BY <1>3 DEF MarkFailed
    <2>2. n \in 0..MaxAttempts
      <3>1. ~(worker[w].seen >= MaxAttempts)
        BY <1>0, <1>1, <1>3 DEF WorkerInv, StillProcessing, Settled
      <3>2. worker[w].seen \in 0..MaxAttempts
        BY <1>0 DEF WorkerState
      <3> QED
        BY <3>1, <3>2, DomainEventsAssumption
    <2>3. /\ row'[e] \in EventRow
          /\ row'[e].status = IF GivenUp(n) THEN "failed" ELSE "pending"
          /\ row'[e].kind = row[e].kind
          /\ row'[e].about = row[e].about
          /\ row'[e].attempts = n
      BY <1>0, <1>2, <2>1, <2>2, AttemptedRow DEF TypeOK
    <2>4. \A d \in EventId \ {e} : row'[d] = row[d]
      BY <1>0, <2>1 DEF TypeOK
    <2>5. row' \in [EventId -> EventRow]
      BY <1>0, <2>1, <2>3, <2>4 DEF TypeOK
    <2>6. row[e].status = "processing"
      BY <1>3 DEF StillProcessing
    <2>7. GivenUp(n) => n = MaxAttempts
      BY <2>2, DomainEventsAssumption DEF GivenUp
    <2>8. ~GivenUp(n) => n < MaxAttempts
      BY <2>2, DomainEventsAssumption DEF GivenUp
    <2> HIDE DEF e, n
    <2>9. Monotone
      BY <1>1, <2>3, <2>4, <2>6 DEF Monotone, Settled
    <2>10. ASSUME NEW d \in EventId
           PROVE  RowInv(d)'
      <3>1. CASE d = e
        BY <1>1, <1>2, <2>3, <2>6, <2>7, <2>8, <3>1 DEF RowInv, Applied
      <3>2. CASE d # e
        BY <1>1, <2>4, <2>9, <3>2, RowKept
      <3> QED
        BY <3>1, <3>2
    <2>11. worker' \in [Workers -> WorkerState] /\ \A v \in Workers : WorkerInv(v)'
      BY <1>1, <2>9, NextInBatchKeeps
    <2>12. TypeOK'
      BY <1>0, <1>1, <2>5, <2>11 DEF TypeOK
    <2> QED
      BY <2>9, <2>10, <2>11, <2>12 DEF Inv
  <1>4. CASE ~StillProcessing(e)
    <2>1. row' = row
      BY <1>4 DEF MarkFailed
    <2>2. UNCHANGED <<tableVars, logVars, outVars>> /\ faults' \in 0..MaxFaults
      BY <1>0, <1>1, <2>1 DEF tableVars, logVars, outVars, TypeOK
    <2> QED
      BY <1>1, <2>2, MoveOn
  <1> QED
    BY <1>3, <1>4

\* A step that changes nothing but rows of the log and their order.
LEMMA OnlyRows ==
    ASSUME Inv, Monotone,
           row' \in [EventId -> EventRow], ahead' \in SUBSET (EventId \X EventId),
           UNCHANGED <<tableVars, lastId, outVars, worker, faults>>,
           \A e \in EventId : RowInv(e)'
    PROVE  Inv'
  <1>1. TypeOK'
    BY DEF Inv, TypeOK, tableVars, outVars
  <1>2. \A w \in Workers : WorkerInv(w)'
    BY WorkerKept
  <1> QED
    BY <1>1, <1>2 DEF Inv

LEMMA PruneInv ==
    ASSUME Inv, NEW w \in Workers, Prune(w)
    PROVE  Inv' /\ Monotone
  <1>0. TypeOK
    BY DEF Inv
  <1>1. PICK old \in SUBSET {e \in EventId : Prunable(e)} :
            row' = [e \in EventId |->
                       IF e \in old THEN [row[e] EXCEPT !.status = "pruned"]
                                    ELSE row[e]]
    BY DEF Prune
  <1>2. UNCHANGED <<tableVars, lastId, ahead, outVars, worker, faults>>
    BY DEF Prune
  <1>3. \A e \in EventId \ old : row'[e] = row[e]
    BY <1>1
  <1>4. ASSUME NEW e \in old
        PROVE  /\ e \in EventId
               /\ row[e].status = "processed"
               /\ row'[e] \in EventRow
               /\ row'[e].status = "pruned"
               /\ row'[e].kind = row[e].kind
               /\ row'[e].about = row[e].about
    <2>1. e \in EventId /\ row[e].status = "processed"
      BY DEF Prunable
    <2>2. row[e] \in EventRow
      BY <1>0, <2>1 DEF TypeOK
    <2>3. row'[e] = [row[e] EXCEPT !.status = "pruned"]
      BY <1>1, <2>1
    <2> QED
      BY <2>1, <2>2, <2>3 DEF EventRow, Status, Settled
  <1>5. Monotone
    BY <1>2, <1>3, <1>4 DEF Monotone, Settled, tableVars
  <1>6. row' \in [EventId -> EventRow]
    <2>1. \A e \in EventId : row'[e] \in EventRow
      BY <1>0, <1>3, <1>4 DEF TypeOK
    <2> QED
      BY <1>1, <2>1
  <1>7. ASSUME NEW e \in EventId
        PROVE  RowInv(e)'
    <2>1. CASE e \in old
      BY <1>2, <1>4, <2>1 DEF Inv, RowInv, Applied, tableVars, outVars
    <2>2. CASE e \notin old
      BY <1>2, <1>3, <1>5, <2>2, RowKept DEF outVars
    <2> QED
      BY <2>1, <2>2
  <1> QED
    BY <1>0, <1>2, <1>5, <1>6, <1>7, OnlyRows DEF TypeOK

\* Time touches the flags due and leased of one row.
LEMMA TimeInv ==
    ASSUME Inv, NEW e \in EventId, LeaseExpires(e) \/ BackoffElapses(e)
    PROVE  Inv' /\ Monotone
  <1>0. TypeOK
    BY DEF Inv
  <1>1. \/ row' = [row EXCEPT ![e] = [@ EXCEPT !.leased = FALSE]]
        \/ row' = [row EXCEPT ![e] = [@ EXCEPT !.due = TRUE]]
    BY DEF LeaseExpires, BackoffElapses
  <1>2. UNCHANGED <<tableVars, lastId, outVars, worker, faults>>
    BY DEF LeaseExpires, BackoffElapses
  <1>3. row[e] \in EventRow
    BY <1>0 DEF TypeOK
  <1>4. /\ row'[e] \in EventRow
        /\ row'[e].status = row[e].status
        /\ row'[e].kind = row[e].kind
        /\ row'[e].about = row[e].about
        /\ row'[e].attempts = row[e].attempts
    <2>1. CASE row'[e] = [row[e] EXCEPT !.leased = FALSE]
      BY <1>3, <2>1 DEF EventRow
    <2>2. CASE row'[e] = [row[e] EXCEPT !.due = TRUE]
      BY <1>3, <2>2 DEF EventRow
    <2> QED
      BY <1>0, <1>1, <2>1, <2>2 DEF TypeOK
  <1>5. \A d \in EventId \ {e} : row'[d] = row[d]
    BY <1>0, <1>1 DEF TypeOK
  <1>6. row' \in [EventId -> EventRow]
    BY <1>0, <1>1, <1>4, <1>5 DEF TypeOK
  <1>7. Monotone
    BY <1>2, <1>4, <1>5 DEF Monotone, tableVars
  <1>8. ASSUME NEW d \in EventId
        PROVE  RowInv(d)'
    <2>1. CASE d = e
      BY <1>2, <1>4, <2>1 DEF Inv, RowInv, Applied, tableVars, outVars
    <2>2. CASE d # e
      BY <1>2, <1>5, <1>7, <2>2, RowKept DEF outVars
    <2> QED
      BY <2>1, <2>2
  <1>9. ahead' \in SUBSET (EventId \X EventId)
    BY <1>0 DEF LeaseExpires, BackoffElapses, TypeOK
  <1> QED
    BY <1>2, <1>6, <1>7, <1>8, <1>9, OnlyRows

\* One step, whoever takes it.
LEMMA StepInv ==
    ASSUME Inv, [Next]_vars
    PROVE  Inv' /\ Monotone
  <1>0. TypeOK
    BY DEF Inv
  <1>1. ASSUME NEW w \in Workers, Dispatch(w)
        PROVE  Inv' /\ Monotone
    <2>1. CASE Claim(w)
      BY <2>1, ClaimInv
    <2>2. CASE Project(w)
      BY <2>2, ProjectInv
    <2>3. CASE Compose(w)
      BY <2>3, ComposeInv
    <2>4. CASE Apply(w)
      BY <2>4, ApplyInv
    <2>5. CASE ApplyAgain(w)
      BY <1>0, <2>5, MoveOn DEF ApplyAgain, TypeOK
    <2>6. CASE ApplyFails(w)
      BY <1>0, <2>6, ToRead DEF ApplyFails, TypeOK
    <2>7. CASE ReadAttempts(w)
      BY <2>7, ReadAttemptsInv
    <2>8. CASE MarkFailed(w)
      BY <2>8, MarkFailedInv
    <2> QED
      BY <1>1, <2>1, <2>2, <2>3, <2>4, <2>5, <2>6, <2>7, <2>8 DEF Dispatch
  <1>2. ASSUME NEW w \in Workers, DatabaseError(w)
        PROVE  Inv' /\ Monotone
    BY <1>0, <1>2, ToRead, FaultTyped DEF DatabaseError
  <1>3. ASSUME NEW w \in Workers, MarkError(w)
        PROVE  Inv' /\ Monotone
    BY <1>0, <1>3, MoveOn, FaultTyped DEF MarkError
  <1>4. ASSUME NEW w \in Workers, Crash(w)
        PROVE  Inv' /\ Monotone
    <2>1. /\ worker' = [worker EXCEPT ![w] = Idle]
          /\ UNCHANGED <<tableVars, logVars, outVars>>
          /\ faults' \in 0..MaxFaults
      BY <1>0, <1>4, FaultTyped DEF Crash
    <2>2. Monotone
      BY <2>1 DEF Monotone, logVars, tableVars
    <2>3. ASSUME NEW v \in Workers
          PROVE  WorkerInv(v)'
      <3>1. CASE v # w
        BY <1>0, <2>1, <2>2, <3>1, WorkerKept DEF TypeOK
      <3>2. CASE v = w
        <4>1. worker'[w].pc = "idle" /\ worker'[w].batch = <<>>
          BY <1>0, <2>1 DEF TypeOK, Idle, Holding
        <4>2. Len(<<>>) = 0
          BY EmptySeq
        <4> QED
          BY <3>2, <4>1, <4>2 DEF WorkerInv
      <3> QED
        BY <3>1, <3>2
    <2>4. worker' \in [Workers -> WorkerState]
      BY <1>0, <2>1, IdleTyped DEF TypeOK
    <2> QED
      BY <2>1, <2>3, <2>4, OnlyWorker
  <1>5. CASE UNCHANGED vars
    <2>1. /\ UNCHANGED <<tableVars, logVars, outVars>> /\ UNCHANGED <<worker, faults>>
          /\ UNCHANGED tickets
      BY <1>5 DEF vars, tableVars
    <2>2. Monotone
      BY <2>1 DEF Monotone, logVars
    <2>3. \A w \in Workers : WorkerInv(w)'
      BY <2>1, <2>2, WorkerKept
    <2> QED
      BY <1>0, <2>1, <2>2, <2>3 DEF TypeOK, Inv, RowInv, Applied,
                                    tableVars, logVars, outVars
  <1> QED
    BY <1>1, <1>2, <1>3, <1>4, <1>5, HandlerInv, PruneInv, TimeInv DEF Next

-----------------------------------------------------------------------------
(* The theorems.                                                           *)

\* The strengthened invariant of the event log holds in every behaviour.
THEOREM Invariance == Spec => []Inv
  <1>1. Init => Inv
    BY InitInv
  <1>2. Inv /\ [Next]_vars => Inv'
    BY StepInv
  <1> QED
    BY <1>1, <1>2, PTL DEF Spec

\* Every row of domain_events, and every dispatcher's locals, stay in the
\* types the code gives them; in particular attempts never exceeds the limit.
THEOREM TypeCorrect == Spec => []TypeOK
  BY Invariance, PTL DEF Inv

\* However many dispatchers overlap, crash and retry, an event's notifications
\* are queued at most once (ApplyDomainEventProjection).
THEOREM NeverProjectedTwice == Spec => []ProjectedOnce
  <1>1. Inv => ProjectedOnce
    BY DEF Inv, RowInv, ProjectedOnce
  <1> QED
    BY <1>1, Invariance, PTL

\* The audit row, the notifications and the processed status of an event come
\* together or not at all.
THEOREM ProjectionAtomicity == Spec => []ProjectionIsAtomic
  <1>1. Inv => ProjectionIsAtomic
    BY DEF Inv, RowInv, ProjectionIsAtomic
  <1> QED
    BY <1>1, Invariance, PTL

\* An event is open while it has attempts left and failed exactly when it has
\* none, although MarkDomainEventFailed counts outside a transaction.
THEOREM RetryBudgetKept == Spec => []RetryBudget
  <1>1. Inv => RetryBudget
    BY DEF Inv, RowInv, RetryBudget
  <1> QED
    BY <1>1, Invariance, PTL

\* A dispatcher that lost its lease never reopens an event that another one
\* has processed or given up.
THEOREM SettledStays == Spec => NeverReopened
  <1> DEFINE Kept == \A e \in EventId :
                 /\ Applied(e) => Applied(e)'
                 /\ row[e].status = "failed" => row'[e].status \in Settled
  <1>1. Inv /\ [Next]_vars => Kept
    <2> SUFFICES ASSUME Inv, [Next]_vars PROVE Kept
      OBVIOUS
    <2>1. Monotone
      BY StepInv
    <2> QED
      BY <2>1 DEF Monotone, Applied, Settled
  <1>2. Spec => [][Kept]_vars
    BY <1>1, Invariance, PTL DEF Spec
  <1> QED
    BY <1>2 DEF NeverReopened

-----------------------------------------------------------------------------
(* A lone dispatcher.                                                      *)

OneWorker == \A v, w \in Workers : v = w

NoTwice(batch) == \A i, j \in 1..Len(batch) : i # j => batch[i] # batch[j]

\* What it holds: distinct rows, which nobody else marks or reads.
Sole(w) ==
    /\ NoTwice(worker[w].batch)
    /\ \A i \in 1..Len(worker[w].batch) : row[worker[w].batch[i]].status = "processing"
    /\ worker[w].pc = "idle" => worker[w].batch = <<>>
    /\ worker[w].pc = "write" => worker[w].seen = row[Current(w)].attempts

\* The order of the log: rows that nobody has attempted are due, and stand in
\* the order of their ids.
Fresh(e) == row[e].status \in {"pending", "processing"} /\ row[e].attempts = 0

LogInv ==
    /\ \A d, e \in EventId : <<d, e>> \in ahead => d <= lastId /\ e <= lastId /\ d # e
    /\ \A e \in EventId :
           /\ row[e].status = "none" => ~row[e].due
           /\ (row[e].status # "none" /\ row[e].attempts = 0) => row[e].due
    /\ \A d, e \in EventId : (d < e /\ Fresh(d) /\ Fresh(e)) =>
           <<d, e>> \in ahead /\ <<e, d>> \notin ahead

LoneInv == Inv /\ LogInv /\ \A w \in Workers : Sole(w)

LEMMA TailHasNoTwice ==
    ASSUME NEW S, NEW b \in Seq(S), b # <<>>, NoTwice(b)
    PROVE  /\ NoTwice(Tail(b))
           /\ \A i \in 1..Len(Tail(b)) : Tail(b)[i] # Head(b)
<1>1. /\ Len(b) \in Nat /\ Head(b) = b[1] /\ 1 \in 1..Len(b)
      /\ \A i \in 1..Len(Tail(b)) : i + 1 \in 1..Len(b) /\ Tail(b)[i] = b[i + 1]
      /\ Len(Tail(b)) \in Nat
  BY TailOfBatch, EmptySeq, HeadTailProperties
<1>2. ASSUME NEW i \in 1..Len(Tail(b)), NEW j \in 1..Len(Tail(b)), i # j
      PROVE  Tail(b)[i] # Tail(b)[j]
  <2>1. i + 1 \in 1..Len(b) /\ j + 1 \in 1..Len(b) /\ i + 1 # j + 1
    BY <1>1, <1>2
  <2> QED
    BY <1>1, <2>1 DEF NoTwice
<1>3. ASSUME NEW i \in 1..Len(Tail(b)) PROVE Tail(b)[i] # Head(b)
  <2>1. i + 1 \in 1..Len(b) /\ i + 1 # 1
    BY <1>1
  <2> QED
    BY <1>1, <2>1 DEF NoTwice
<1> QED
  BY <1>2, <1>3 DEF NoTwice

\* What a busy lone dispatcher holds.
LEMMA CurrentIsSole ==
    ASSUME LoneInv, NEW w \in Workers, worker[w].pc # "idle"
    PROVE  /\ worker[w] \in WorkerState
           /\ worker[w].batch \in Seq(EventId) /\ worker[w].batch # <<>>
           /\ Current(w) \in EventId /\ row[Current(w)] \in EventRow
           /\ row[Current(w)].status = "processing"
           /\ Current(w) = worker[w].batch[1] /\ 1 \in 1..Len(worker[w].batch)
<1>1. /\ worker[w].batch \in Seq(EventId) /\ worker[w].batch # <<>>
      /\ Current(w) \in EventId /\ row[Current(w)] \in EventRow
  BY CurrentEvent DEF LoneInv
<1>2. Current(w) = worker[w].batch[1] /\ 1 \in 1..Len(worker[w].batch)
  BY <1>1, TailOfBatch DEF Current
<1> QED
  BY <1>1, <1>2 DEF LoneInv, Sole, Inv, TypeOK

\* How the dispatcher goes on.
LEMMA GoesOn ==
    ASSUME LoneInv, NEW w \in Workers, worker[w].pc # "idle", NextInBatch(w)
    PROVE  LET b == worker[w].batch IN
           \/ /\ worker'[w].pc = "idle" /\ worker'[w].batch = <<>> /\ Len(b) = 1
           \/ /\ worker'[w].pc = "project" /\ worker'[w].batch = Tail(b)
<1>1. /\ worker' = [worker EXCEPT ![w] = IF Len(worker[w].batch) = 1 THEN Idle
                                         ELSE Holding("project", Tail(worker[w].batch))]
      /\ worker \in [Workers -> WorkerState]
  BY DEF NextInBatch, LoneInv, Inv, TypeOK
<1>2. worker'[w] = IF Len(worker[w].batch) = 1 THEN Idle
                   ELSE Holding("project", Tail(worker[w].batch))
  BY <1>1
<1> QED
  BY <1>2 DEF Idle, Holding

LEMMA SoleGoesOn ==
    ASSUME LoneInv, Inv', NEW w \in Workers, worker[w].pc # "idle", NextInBatch(w),
           \A e \in EventId : e # Current(w) => row'[e] = row[e]
    PROVE  Sole(w)'
<1> DEFINE b == worker[w].batch
<1>1. b \in Seq(EventId) /\ b # <<>> /\ Current(w) = Head(b) /\ NoTwice(b)
  BY CurrentIsSole DEF Current, LoneInv, Sole
<1>2. CASE worker'[w].pc = "idle" /\ worker'[w].batch = <<>>
  <2>1. Len(<<>>) = 0 /\ NoTwice(<<>>)
    BY DEF NoTwice
  <2> QED
    BY <1>2, <2>1 DEF Sole
<1>3. CASE worker'[w].pc = "project" /\ worker'[w].batch = Tail(b)
  <2>1. NoTwice(Tail(b)) /\ \A i \in 1..Len(Tail(b)) : Tail(b)[i] # Head(b)
    BY <1>1, TailHasNoTwice
  <2>2. ASSUME NEW i \in 1..Len(Tail(b)) PROVE row'[Tail(b)[i]].status = "processing"
    <3>1. i + 1 \in 1..Len(b) /\ Tail(b)[i] = b[i + 1] /\ b[i + 1] \in EventId
      BY <1>1, TailOfBatch, ElementOfSeq
    <3>2. row[b[i + 1]].status = "processing"
      BY <3>1 DEF LoneInv, Sole
    <3> QED
      BY <1>1, <2>1, <3>1, <3>2
  <2> QED
    BY <1>3, <2>1, <2>2 DEF Sole
<1> QED
  BY <1>2, <1>3, GoesOn

\* The dispatcher stays with its batch, and so do its rows.
LEMMA SoleStays ==
    ASSUME LoneInv, NEW w \in Workers, worker'[w].batch = worker[w].batch,
           \A e \in EventId : row[e].status = "processing" =>
               row'[e].status = "processing" /\ row'[e].attempts = row[e].attempts,
           worker'[w].pc = "idle" => worker[w].pc = "idle",
           worker'[w].pc = "write" =>
               /\ worker[w].pc # "idle"
               /\ worker'[w].seen = row[Current(w)].attempts
    PROVE  Sole(w)'
<1> DEFINE b == worker[w].batch
<1>1. b \in Seq(EventId) /\ Current(w)' = Current(w)
  BY DEF LoneInv, Inv, TypeOK, WorkerState, Current
<1>2. ASSUME NEW i \in 1..Len(b) PROVE row'[b[i]].status = "processing"
  <2>1. b[i] \in EventId /\ row[b[i]].status = "processing"
    BY <1>1, ElementOfSeq DEF LoneInv, Sole
  <2> QED
    BY <2>1
<1>3. ASSUME worker'[w].pc = "write" PROVE worker'[w].seen = row'[Current(w)].attempts
  <2>1. worker[w].pc # "idle"
    BY <1>3
  <2>2. Current(w) \in EventId /\ row[Current(w)].status = "processing"
    BY <2>1, CurrentIsSole
  <2> QED
    BY <1>3, <2>2
<1> QED
  BY <1>1, <1>2, <1>3 DEF LoneInv, Sole

\* What a handler writes into the log.
LEMMA InsertedRows ==
    ASSUME TypeOK, NEW n \in 1..2, NEW new, InsertEvents(n, new)
    PROVE  /\ worker' = worker /\ faults' = faults /\ UNCHANGED outVars
           /\ lastId' = lastId + n
           /\ \A e \in EventId :
                 row'[e] = IF lastId < e /\ e <= lastId' THEN new ELSE row[e]
           /\ \A d, e \in EventId :
                 <<d, e>> \in ahead' <=>
                    \/ <<d, e>> \in ahead
                    \/ /\ lastId < e /\ e <= lastId' /\ d < e
                       /\ (lastId < d /\ d <= lastId') \/ row[d].due
           /\ ahead' \subseteq EventId \X EventId
<1> DEFINE ids == {NewId(i) : i \in 1..n}
<1>1. lastId \in Nat /\ n \in Nat /\ \A e \in EventId : e \in Nat
  BY DomainEventsAssumption DEF TypeOK, EventId
<1>2. /\ ids \subseteq EventId
      /\ row' = [e \in EventId |-> IF e \in ids THEN new ELSE row[e]]
      /\ lastId' = lastId + n
      /\ ahead' = ahead \cup
           {p \in EventId \X ids : p[1] < p[2] /\ (p[1] \in ids \/ row[p[1]].due)}
      /\ UNCHANGED <<outVars, worker, faults>>
  BY DEF InsertEvents
<1>3. \A e \in EventId : e \in ids <=> (lastId < e /\ e <= lastId')
  <2>1. ASSUME NEW e \in EventId, lastId < e, e <= lastId + n PROVE e \in ids
    <3>1. e - lastId \in 1..n /\ e = NewId(e - lastId)
      BY <1>1, <2>1 DEF NewId
    <3> QED
      BY <3>1
  <2> QED
    BY <1>1, <1>2, <2>1 DEF NewId
<1> HIDE DEF ids
<1>4. \A d, e \in EventId :
         <<d, e>> \in ahead' <=>
            \/ <<d, e>> \in ahead
            \/ e \in ids /\ d < e /\ (d \in ids \/ row[d].due)
  BY <1>2
<1>5. ahead' \subseteq EventId \X EventId
  BY <1>2 DEF TypeOK
<1> QED
  BY <1>2, <1>3, <1>4, <1>5

\* Every handler inserts one or two new rows, for an actor that exists.
LEMMA HandlerInserts ==
    ASSUME Handler
    PROVE  \E n \in 1..2 : \E new :
              /\ InsertEvents(n, new)
              /\ new.status = "pending" /\ new.attempts = 0 /\ new.due
<1>1. \A kind, actor, about :
         /\ NewRow(kind, actor, about).status = "pending"
         /\ NewRow(kind, actor, about).attempts = 0
         /\ NewRow(kind, actor, about).due = TRUE
  BY DEF NewRow
<1>2. ASSUME NEW u \in Users, NEW t \in Tickets, SaveTicket(u, t)
      PROVE  \E n \in 1..2 : InsertEvents(n, NewRow("ticket", u, t))
  BY <1>2 DEF SaveTicket
<1>3. 1 \in 1..2
  OBVIOUS
<1> QED
  BY <1>1, <1>2, <1>3 DEF Handler, CreateTicket, DeleteTicket, DeleteWebhook,
     CreatePasswordResetLink, DeleteUser

\* Rows that are being processed are left alone by the handlers.
LEMMA HandlerSole == ASSUME LoneInv, Inv', Handler, NEW w \in Workers PROVE Sole(w)'
<1>0. PICK n \in 1..2 : \E new : InsertEvents(n, new)
  BY HandlerInserts
<1>1. PICK new : InsertEvents(n, new)
  BY <1>0
<1>2. /\ worker' = worker
      /\ \A e \in EventId : row'[e] = IF lastId < e /\ e <= lastId' THEN new ELSE row[e]
  BY <1>1, InsertedRows DEF LoneInv, Inv
<1>3. ASSUME NEW e \in EventId, row[e].status = "processing"
      PROVE  row'[e] = row[e]
  <2>1. ~(e > lastId)
    BY <1>3 DEF LoneInv, Inv, RowInv
  <2>2. e \in Nat /\ lastId \in Nat
    BY DomainEventsAssumption DEF LoneInv, Inv, TypeOK, EventId
  <2> QED
    BY <1>2, <2>1, <2>2
<1> QED
  BY <1>2, <1>3, SoleStays, CurrentIsSole DEF LoneInv, Sole

\* What a claim does.
LEMMA ClaimIs ==
    ASSUME TypeOK, NEW w \in Workers, Claim(w)
    PROVE  \E n \in 1..BatchSize : \E batch \in [1..n -> EventId] :
              /\ batch \in Seq(EventId) /\ Len(batch) = n /\ IsNextBatch(batch)
              /\ \A i \in 1..n : Claimable(batch[i])
              /\ worker'[w].pc = "project" /\ worker'[w].batch = batch
              /\ \A e \in EventId :
                    row'[e] = IF \E i \in 1..n : batch[i] = e THEN Taken(row[e]) ELSE row[e]
<1>1. PICK n \in 1..BatchSize : \E batch \in [1..n -> ClaimableIds] :
         /\ IsNextBatch(batch)
         /\ row' = [e \in EventId |-> IF \E i \in 1..n : batch[i] = e
                                      THEN Taken(row[e]) ELSE row[e]]
         /\ worker' = [worker EXCEPT ![w] = Holding("project", batch)]
  BY DEF Claim
<1>2. PICK batch \in [1..n -> ClaimableIds] :
         /\ IsNextBatch(batch)
         /\ row' = [e \in EventId |-> IF \E i \in 1..n : batch[i] = e
                                      THEN Taken(row[e]) ELSE row[e]]
         /\ worker' = [worker EXCEPT ![w] = Holding("project", batch)]
  BY <1>1
<1>3. n \in Nat /\ batch \in [1..n -> EventId] /\ \A i \in 1..n : Claimable(batch[i])
  BY DomainEventsAssumption DEF ClaimableIds
<1>4. batch \in Seq(EventId) /\ Len(batch) = n
  BY <1>3, BatchIsSeq
<1>5. worker'[w] = Holding("project", batch)
  BY <1>2 DEF TypeOK
<1>6. worker'[w].pc = "project" /\ worker'[w].batch = batch
  BY <1>5 DEF Holding
<1>7. \A e \in EventId :
         row'[e] = IF \E i \in 1..n : batch[i] = e THEN Taken(row[e]) ELSE row[e]
  BY <1>2
<1> QED
  BY <1>2, <1>3, <1>4, <1>6, <1>7

\* The rows of a batch differ: no row is ahead of itself.
LEMMA BatchIsDistinct ==
    ASSUME NEW batch \in Seq(EventId), IsNextBatch(batch), \A e \in EventId : <<e, e>> \notin ahead
    PROVE  NoTwice(batch)
<1>1. DOMAIN batch = 1..Len(batch) /\ Len(batch) \in Nat
  OBVIOUS
<1>2. \A i, j \in 1..Len(batch) : i < j => <<batch[i], batch[j]>> \in ahead
  BY <1>1 DEF IsNextBatch
<1>3. \A i \in 1..Len(batch) : batch[i] \in EventId
  BY ElementOfSeq
<1>4. \A i, j \in 1..Len(batch) : i < j => batch[i] # batch[j]
  BY <1>2, <1>3
<1>5. \A i, j \in 1..Len(batch) : i # j => i < j \/ j < i
  BY <1>1
<1> QED
  BY <1>4, <1>5 DEF NoTwice

\* What a step of time or of a dispatcher leaves of a row.
SameFields(e) ==
    /\ row'[e].actor = row[e].actor /\ row'[e].kind = row[e].kind
    /\ row'[e].about = row[e].about
SameAttempts(e) == row'[e].attempts = row[e].attempts /\ row'[e].due = row[e].due

LEMMA AttemptedFields ==
    ASSUME NEW r \in EventRow, NEW n \in 0..MaxAttempts
    PROVE  /\ Attempted(r, n).actor = r.actor /\ Attempted(r, n).kind = r.kind
           /\ Attempted(r, n).about = r.about /\ Attempted(r, n).attempts = n
  BY DEF Attempted, EventRow

\* A dispatcher's marking of a failed attempt: attempts was read before.
LEMMA MarkFailedIs ==
    ASSUME Inv, NEW w \in Workers, MarkFailed(w)
    PROVE  /\ Current(w) \in EventId /\ row[Current(w)] \in EventRow
           /\ \A e \in EventId : e # Current(w) => row'[e] = row[e]
           /\ IF StillProcessing(Current(w))
              THEN /\ worker[w].seen + 1 \in 1..MaxAttempts
                   /\ row'[Current(w)] = Attempted(row[Current(w)], worker[w].seen + 1)
              ELSE row'[Current(w)] = row[Current(w)]
<1> DEFINE e == Current(w)
           n == worker[w].seen + 1
<1>1. TypeOK /\ WorkerInv(w) /\ worker[w] \in WorkerState /\ worker[w].pc = "write"
  BY DEF Inv, TypeOK, MarkFailed
<1>2. e \in EventId /\ row[e] \in EventRow
  BY <1>1, CurrentEvent
<1>3. CASE StillProcessing(e)
  <2>1. row' = [row EXCEPT ![e] = Attempted(row[e], n)]
    BY <1>3 DEF MarkFailed
  <2>2. ~(worker[w].seen >= MaxAttempts)
    BY <1>1, <1>3 DEF WorkerInv, StillProcessing, Settled
  <2>3. worker[w].seen \in 0..MaxAttempts
    BY <1>1 DEF WorkerState
  <2>4. n \in 1..MaxAttempts
    BY <2>2, <2>3, DomainEventsAssumption
  <2>5. row'[e] = Attempted(row[e], n) /\ \A d \in EventId : d # e => row'[d] = row[d]
    BY <1>1, <1>2, <2>1 DEF TypeOK
  <2> QED
    BY <1>2, <1>3, <2>4, <2>5
<1>4. CASE ~StillProcessing(e)
  BY <1>2, <1>4 DEF MarkFailed
<1> QED
  BY <1>3, <1>4

\* The steps of a dispatcher keep the fields of a row, and its attempts too but
\* when one is marked.
LEMMA RowsOfDispatcher ==
    ASSUME Inv, NEW w \in Workers,
           Dispatch(w) \/ Prune(w) \/ DatabaseError(w) \/ MarkError(w) \/ Crash(w)
    PROVE  /\ ahead' = ahead /\ lastId' = lastId
           /\ \A e \in EventId :
                 /\ SameFields(e)
                 /\ \/ SameAttempts(e)
                    \/ /\ MarkFailed(w) /\ e = Current(w) /\ row[e].status = "processing"
                       /\ row'[e].attempts = worker[w].seen + 1
                       /\ worker[w].seen \in Nat
<1>1. ahead' = ahead /\ lastId' = lastId
  BY DEF Dispatch, Claim, Project, Compose, Apply, ApplyAgain, ApplyFails, ReadAttempts,
         MarkFailed, Prune, DatabaseError, MarkError, Crash, logVars
<1>2. TypeOK /\ \A e \in EventId : row[e] \in EventRow
  BY DEF Inv, TypeOK
<1>3. ASSUME NEW e \in EventId,
             \/ row'[e] = row[e]
             \/ row'[e] \in {Taken(row[e]), Processed(row[e]), [row[e] EXCEPT !.status = "pruned"]}
      PROVE  SameFields(e) /\ SameAttempts(e)
  <2>1. CASE row'[e] = row[e]
    BY <2>1 DEF SameFields, SameAttempts
  <2>2. CASE row'[e] # row[e]
    <3>1. row[e] \in EventRow
      BY <1>2
    <3>2. /\ row'[e].actor = row[e].actor /\ row'[e].kind = row[e].kind
          /\ row'[e].about = row[e].about
          /\ row'[e].attempts = row[e].attempts /\ row'[e].due = row[e].due
      <4>1. CASE row'[e] = Taken(row[e])
        BY <3>1, <4>1 DEF Taken, EventRow
      <4>2. CASE row'[e] = Processed(row[e])
        BY <3>1, <4>2 DEF Processed, EventRow
      <4>3. CASE row'[e] = [row[e] EXCEPT !.status = "pruned"]
        BY <3>1, <4>3 DEF EventRow
      <4> QED
        BY <1>3, <2>2, <4>1, <4>2, <4>3
    <3> QED
      BY <3>2 DEF SameFields, SameAttempts
  <2> QED
    BY <2>1, <2>2
<1>4. CASE Claim(w)
  <2>1. \A e \in EventId : row'[e] = row[e] \/ row'[e] = Taken(row[e])
    BY <1>2, <1>4, ClaimIs
  <2> QED
    BY <1>1, <1>3, <2>1
<1>5. CASE Apply(w)
  <2>1. row' = [row EXCEPT ![Current(w)] = Processed(row[Current(w)])]
    BY <1>5 DEF Apply
  <2>2. \A e \in EventId : row'[e] = row[e] \/ row'[e] = Processed(row[e])
    BY <1>2, <2>1 DEF TypeOK
  <2> QED
    BY <1>1, <1>3, <2>2
<1>6. CASE MarkFailed(w)
  <2> DEFINE c == Current(w)
  <2>1. /\ c \in EventId /\ row[c] \in EventRow
        /\ \A e \in EventId : e # c => row'[e] = row[e]
        /\ IF StillProcessing(c)
           THEN /\ worker[w].seen + 1 \in 1..MaxAttempts
                /\ row'[c] = Attempted(row[c], worker[w].seen + 1)
           ELSE row'[c] = row[c]
    BY <1>6, MarkFailedIs
  <2>2. worker[w].seen \in Nat /\ worker[w].pc = "write"
    BY <1>6, DomainEventsAssumption DEF MarkFailed, Inv, TypeOK, WorkerState
  <2> HIDE DEF c
  <2>3. ASSUME StillProcessing(c)
        PROVE  /\ SameFields(c) /\ row'[c].attempts = worker[w].seen + 1
               /\ row[c].status = "processing"
    <3>1. worker[w].seen + 1 \in 0..MaxAttempts
      BY <2>1, <2>3, DomainEventsAssumption
    <3> QED
      BY <2>1, <2>3, <3>1, AttemptedFields DEF SameFields, StillProcessing
  <2> QED
    BY <1>1, <1>3, <1>6, <2>1, <2>2, <2>3 DEF c
<1>7. CASE Prune(w)
  <2>1. \A e \in EventId : row'[e] = row[e] \/ row'[e] = [row[e] EXCEPT !.status = "pruned"]
    BY <1>7 DEF Prune
  <2> QED
    BY <1>1, <1>3, <2>1
<1>8. CASE ~(Claim(w) \/ Apply(w) \/ MarkFailed(w) \/ Prune(w))
  <2>1. row' = row
    BY <1>8 DEF Dispatch, Project, Compose, ApplyAgain, ApplyFails, ReadAttempts,
                DatabaseError, MarkError, Crash, logVars
  <2> QED
    BY <1>1, <1>3, <2>1
<1> QED
  BY <1>4, <1>5, <1>6, <1>7, <1>8

-----------------------------------------------------------------------------
(* The order of the log.                                                   *)

LEMMA LogKept ==
    ASSUME Inv, Inv', Monotone, LogInv, ahead' = ahead, lastId' = lastId,
           \A e \in EventId : row'[e].attempts = 0 =>
               row[e].attempts = 0 /\ row'[e].due = row[e].due,
           \A e \in EventId : row[e].status = "none" => row'[e].due = row[e].due
    PROVE  LogInv'
<1>1. \A e \in EventId : row'[e].status = "none" <=> row[e].status = "none"
  BY DEF Inv, RowInv
<1>2. ASSUME NEW e \in EventId, Fresh(e)' PROVE Fresh(e)
  <2>1. row'[e].status \in {"pending", "processing"} /\ row'[e].attempts = 0
    BY <1>2 DEF Fresh
  <2>2. row[e].status \in Status /\ row[e].status # "none" /\ row[e].status \notin Settled
    BY <1>1, <2>1 DEF Inv, TypeOK, EventRow, Monotone, Settled
  <2> QED
    BY <2>1, <2>2 DEF Fresh, Status
<1>3. \A d, e \in EventId : <<d, e>> \in ahead' => d <= lastId' /\ e <= lastId' /\ d # e
  BY DEF LogInv
<1>4. \A e \in EventId :
         /\ row'[e].status = "none" => ~row'[e].due
         /\ (row'[e].status # "none" /\ row'[e].attempts = 0) => row'[e].due
  BY <1>1 DEF LogInv
<1>5. \A d, e \in EventId : (d < e /\ Fresh(d)' /\ Fresh(e)') =>
         <<d, e>> \in ahead' /\ <<e, d>> \notin ahead'
  BY <1>2 DEF LogInv
<1> QED
  BY <1>3, <1>4, <1>5 DEF LogInv

LEMMA HandlerLog == ASSUME Inv, Inv', LogInv, Handler PROVE LogInv'
<1>0. PICK n \in 1..2 : \E new :
         /\ InsertEvents(n, new)
         /\ new.status = "pending" /\ new.attempts = 0 /\ new.due
  BY HandlerInserts
<1>1. PICK new :
         /\ InsertEvents(n, new)
         /\ new.status = "pending" /\ new.attempts = 0 /\ new.due
  BY <1>0
<1>2. /\ lastId' = lastId + n
      /\ \A e \in EventId : row'[e] = IF lastId < e /\ e <= lastId' THEN new ELSE row[e]
      /\ \A d, e \in EventId :
            <<d, e>> \in ahead' <=>
               \/ <<d, e>> \in ahead
               \/ /\ lastId < e /\ e <= lastId' /\ d < e
                  /\ (lastId < d /\ d <= lastId') \/ row[d].due
  BY <1>1, InsertedRows DEF Inv
<1>3. lastId \in Nat /\ n \in Nat /\ n > 0 /\ \A e \in EventId : e \in Nat
  BY DomainEventsAssumption DEF Inv, TypeOK, EventId
<1> DEFINE New(e) == lastId < e /\ e <= lastId'
<1>4. ASSUME NEW e \in EventId
      PROVE  /\ New(e) => row'[e] = new /\ e > lastId /\ row[e].status = "none" /\ ~row[e].due
             /\ ~New(e) => row'[e] = row[e]
             /\ row[e].due => e <= lastId
             /\ row[e].status = "none" <=> e > lastId
  <2>1. row[e].status = "none" <=> e > lastId
    BY DEF Inv, RowInv
  <2>2. row[e].status = "none" => ~row[e].due
    BY DEF LogInv
  <2>3. New(e) => e > lastId
    BY <1>3
  <2>4. ~(e > lastId) => e <= lastId
    BY <1>3
  <2> QED
    BY <1>2, <2>1, <2>2, <2>3, <2>4
<1>5. ASSUME NEW d \in EventId, NEW e \in EventId, <<d, e>> \in ahead'
      PROVE  d <= lastId' /\ e <= lastId' /\ d # e
  <2>1. CASE <<d, e>> \in ahead
    <3>1. d <= lastId /\ e <= lastId /\ d # e
      BY <2>1 DEF LogInv
    <3> QED
      BY <1>2, <1>3, <3>1
  <2>2. CASE New(e) /\ d < e
    BY <1>2, <1>3, <2>2
  <2> QED
    BY <1>2, <1>5, <2>1, <2>2
<1>6. ASSUME NEW e \in EventId
      PROVE  /\ row'[e].status = "none" => ~row'[e].due
             /\ (row'[e].status # "none" /\ row'[e].attempts = 0) => row'[e].due
  BY <1>1, <1>4 DEF LogInv
<1>7. ASSUME NEW d \in EventId, NEW e \in EventId, d < e, Fresh(d)', Fresh(e)'
      PROVE  <<d, e>> \in ahead' /\ <<e, d>> \notin ahead'
  <2>1. CASE New(e)
    <3>1. New(d) \/ row[d].due
      <4>1. CASE ~New(d)
        <5>1. row'[d] = row[d]
          BY <1>4, <4>1
        <5>2. row[d].status # "none" /\ row[d].attempts = 0
          BY <1>7, <5>1 DEF Fresh
        <5> QED
          BY <5>2 DEF LogInv
      <4> QED
        BY <4>1
    <3>2. <<d, e>> \in ahead'
      BY <1>2, <1>7, <2>1, <3>1
    <3>3. <<e, d>> \notin ahead
      <4>1. ~(e <= lastId)
        BY <1>3, <2>1
      <4> QED
        BY <4>1 DEF LogInv
    <3>4. ~(e < d)
      BY <1>3, <1>7
    <3> QED
      BY <1>2, <3>2, <3>3, <3>4
  <2>2. CASE ~New(e)
    <3>1. row'[e] = row[e]
      BY <1>4, <2>2
    <3>2. e <= lastId
      <4>1. row[e].status # "none"
        BY <1>7, <3>1 DEF Fresh
      <4> QED
        BY <1>3, <1>4, <4>1
    <3>3. ~New(d) /\ row'[d] = row[d]
      <4>1. ~New(d)
        BY <1>3, <1>7, <3>2
      <4> QED
        BY <1>4, <4>1
    <3>4. Fresh(d) /\ Fresh(e)
      BY <1>7, <3>1, <3>3 DEF Fresh
    <3>5. <<d, e>> \in ahead /\ <<e, d>> \notin ahead
      BY <1>7, <3>4 DEF LogInv
    <3> QED
      BY <1>2, <3>3, <3>5
  <2> QED
    BY <2>1, <2>2
<1> QED
  BY <1>5, <1>6, <1>7 DEF LogInv

\* A backoff puts a row behind those that are due; it has been attempted.
LEMMA BackoffLog ==
    ASSUME Inv, Inv', Monotone, LogInv, NEW e \in EventId, BackoffElapses(e)
    PROVE  LogInv'
<1>1. /\ row[e].status = "pending" /\ ~row[e].due /\ lastId' = lastId
      /\ row' = [row EXCEPT ![e] = [row[e] EXCEPT !.due = TRUE]]
      /\ ahead' = {p \in ahead : e # p[1] /\ e # p[2]}
                     \cup {<<d, e>> : d \in {f \in EventId : row[f].due}}
  BY DEF BackoffElapses
<1>2. TypeOK /\ row[e] \in EventRow
  BY DEF Inv, TypeOK
<1>3. /\ \A d \in EventId : d # e => row'[d] = row[d]
      /\ row'[e].status = "pending" /\ row'[e].attempts = row[e].attempts /\ row'[e].due
  <2>1. row'[e] = [row[e] EXCEPT !.due = TRUE] /\ \A d \in EventId : d # e => row'[d] = row[d]
    BY <1>1, <1>2 DEF TypeOK
  <2> QED
    BY <1>1, <1>2, <2>1 DEF EventRow
<1>4. row[e].attempts # 0
  BY <1>1 DEF LogInv
<1>5. \A d \in EventId : row[d].due => d <= lastId
  <2>1. \A d \in EventId : row[d].due => ~(d > lastId)
    BY DEF LogInv, Inv, RowInv
  <2>2. lastId \in Nat /\ \A d \in EventId : d \in Nat
    BY DomainEventsAssumption DEF Inv, TypeOK, EventId
  <2> QED
    BY <2>1, <2>2
<1>6. e <= lastId
  <2>1. ~(e > lastId) /\ lastId \in Nat /\ e \in Nat
    BY <1>1, DomainEventsAssumption DEF Inv, TypeOK, RowInv, EventId
  <2> QED
    BY <2>1
<1>7. ASSUME NEW d \in EventId, NEW f \in EventId
      PROVE  <<d, f>> \in ahead' <=> \/ <<d, f>> \in ahead /\ d # e /\ f # e
                                     \/ f = e /\ row[d].due
  BY <1>1
<1>8. \A d, f \in EventId : <<d, f>> \in ahead' => d <= lastId' /\ f <= lastId' /\ d # f
  BY <1>1, <1>5, <1>6, <1>7 DEF LogInv
<1>9. \A d \in EventId :
         /\ row'[d].status = "none" => ~row'[d].due
         /\ (row'[d].status # "none" /\ row'[d].attempts = 0) => row'[d].due
  BY <1>3 DEF LogInv
<1>10. \A d, f \in EventId : (d < f /\ Fresh(d)' /\ Fresh(f)') =>
          <<d, f>> \in ahead' /\ <<f, d>> \notin ahead'
  <2> SUFFICES ASSUME NEW d \in EventId, NEW f \in EventId, d < f, Fresh(d)', Fresh(f)'
               PROVE  <<d, f>> \in ahead' /\ <<f, d>> \notin ahead'
    OBVIOUS
  <2>1. d # e /\ f # e
    BY <1>3, <1>4 DEF Fresh
  <2>2. Fresh(d) /\ Fresh(f)
    BY <1>3, <2>1 DEF Fresh
  <2> QED
    BY <1>7, <2>1, <2>2 DEF LogInv
<1> QED
  BY <1>8, <1>9, <1>10 DEF LogInv

LEMMA LeaseLog ==
    ASSUME Inv, Inv', Monotone, LogInv, NEW e \in EventId, LeaseExpires(e)
    PROVE  LogInv'
<1>1. row[e] \in EventRow /\ row \in [EventId -> EventRow]
  BY DEF Inv, TypeOK
<1>2. /\ row' = [row EXCEPT ![e] = [row[e] EXCEPT !.leased = FALSE]]
      /\ ahead' = ahead /\ lastId' = lastId
  BY DEF LeaseExpires
<1>3. row'[e] = [row[e] EXCEPT !.leased = FALSE] /\ \A d \in EventId : d # e => row'[d] = row[d]
  BY <1>1, <1>2
<1>4. row'[e].attempts = row[e].attempts /\ row'[e].due = row[e].due
  BY <1>1, <1>3 DEF EventRow
<1> QED
  BY <1>2, <1>3, <1>4, LogKept

\* The order of the log survives every step.
LEMMA LogStep == ASSUME Inv, LogInv, [Next]_vars PROVE LogInv'
<1>1. Inv' /\ Monotone
  BY StepInv
<1>2. CASE Handler
  BY <1>1, <1>2, HandlerLog
<1>3. ASSUME NEW w \in Workers,
             Dispatch(w) \/ Prune(w) \/ DatabaseError(w) \/ MarkError(w) \/ Crash(w)
      PROVE  LogInv'
  <2>1. /\ ahead' = ahead /\ lastId' = lastId
        /\ \A e \in EventId :
              \/ SameAttempts(e)
              \/ /\ row[e].status = "processing"
                 /\ row'[e].attempts = worker[w].seen + 1 /\ worker[w].seen \in Nat
    BY <1>3, RowsOfDispatcher
  <2>2. \A n \in Nat : n + 1 # 0
    OBVIOUS
  <2> QED
    BY <1>1, <2>1, <2>2, LogKept DEF SameAttempts
<1>4. ASSUME NEW e \in EventId, LeaseExpires(e) \/ BackoffElapses(e) PROVE LogInv'
  BY <1>1, <1>4, LeaseLog, BackoffLog
<1>5. CASE UNCHANGED vars
  BY <1>5 DEF vars, logVars, LogInv, Fresh
<1> QED
  BY <1>2, <1>3, <1>4, <1>5 DEF Next

-----------------------------------------------------------------------------
(* A lone dispatcher and its batch, step by step.                          *)

LEMMA ClaimSole == ASSUME LoneInv, NEW w \in Workers, Claim(w) PROVE Sole(w)'
<1>0a. TypeOK
  BY DEF LoneInv, Inv
<1>0. PICK n \in 1..BatchSize : \E batch \in [1..n -> EventId] :
         /\ batch \in Seq(EventId) /\ Len(batch) = n /\ IsNextBatch(batch)
         /\ worker'[w].pc = "project" /\ worker'[w].batch = batch
         /\ \A e \in EventId :
               row'[e] = IF \E i \in 1..n : batch[i] = e THEN Taken(row[e]) ELSE row[e]
  BY <1>0a, ClaimIs
<1>1. PICK batch \in [1..n -> EventId] :
         /\ batch \in Seq(EventId) /\ Len(batch) = n /\ IsNextBatch(batch)
         /\ worker'[w].pc = "project" /\ worker'[w].batch = batch
         /\ \A e \in EventId :
               row'[e] = IF \E i \in 1..n : batch[i] = e THEN Taken(row[e]) ELSE row[e]
  BY <1>0
<1>2. NoTwice(batch)
  BY <1>1, BatchIsDistinct DEF LoneInv, LogInv
<1>3. ASSUME NEW i \in 1..Len(batch) PROVE row'[batch[i]].status = "processing"
  <2>1. batch[i] \in EventId /\ row'[batch[i]] = Taken(row[batch[i]])
    BY <1>1
  <2>2. row[batch[i]] \in EventRow
    BY <2>1 DEF LoneInv, Inv, TypeOK
  <2> QED
    BY <2>1, <2>2 DEF Taken, EventRow
<1> QED
  BY <1>1, <1>2, <1>3 DEF Sole

\* The steps in which the dispatcher stays with its event.
LEMMA StaysLocal ==
    ASSUME TypeOK, NEW w \in Workers,
           Project(w) \/ Compose(w) \/ ApplyFails(w) \/ DatabaseError(w)
              \/ (ReadAttempts(w) /\ row[Current(w)].status # "pruned")
    PROVE  /\ worker'[w].batch = worker[w].batch
           /\ worker[w].pc # "idle" /\ worker'[w].pc # "idle" /\ row' = row
           /\ worker'[w].pc = "write" =>
                 ReadAttempts(w) /\ worker'[w].seen = row[Current(w)].attempts
<1>0. worker \in [Workers -> WorkerState] /\ worker[w] \in WorkerState
  BY DEF TypeOK
<1>1. CASE Project(w)
  <2> DEFINE event == row[Current(w)]
             next == CASE event.kind = "ticket" /\ tickets[event.about] = "live" ->
                            [worker[w] EXCEPT !.pc = "compose", !.audited = TRUE]
                       [] event.kind = "ticket" /\ tickets[event.about] # "live" ->
                            [worker[w] EXCEPT !.pc = "apply"]
                       [] event.kind = "link" ->
                            [worker[w] EXCEPT !.pc = "apply", !.audited = TRUE,
                                              !.emails = {event.about} \cap users]
                       [] OTHER -> [worker[w] EXCEPT !.pc = "apply", !.audited = TRUE]
  <2>1. worker' = [worker EXCEPT ![w] = next] /\ worker[w].pc = "project" /\ row' = row
    BY <1>1 DEF Project, logVars
  <2>2. worker'[w] = next
    BY <1>0, <2>1
  <2>3. next.batch = worker[w].batch /\ next.pc \in {"compose", "apply"}
    BY <1>0 DEF WorkerState
  <2> QED
    BY <2>1, <2>2, <2>3
<1>2. CASE Compose(w)
  <2>1. PICK emails \in SUBSET users :
           worker' = [worker EXCEPT ![w] = [worker[w] EXCEPT !.pc = "apply",
                                              !.emails = emails, !.hooks = hooks]]
    BY <1>2 DEF Compose
  <2>2. worker'[w] = [worker[w] EXCEPT !.pc = "apply", !.emails = emails, !.hooks = hooks]
    BY <1>0, <2>1
  <2> QED
    BY <1>0, <1>2, <2>2 DEF Compose, WorkerState, logVars
<1>3. CASE ApplyFails(w) \/ DatabaseError(w)
  <2>1. worker' = [worker EXCEPT ![w] = [worker[w] EXCEPT !.pc = "read"]]
        /\ worker[w].pc # "idle" /\ row' = row
    BY <1>3 DEF ApplyFails, DatabaseError, logVars
  <2>2. worker'[w] = [worker[w] EXCEPT !.pc = "read"]
    BY <1>0, <2>1
  <2> QED
    BY <1>0, <2>1, <2>2 DEF WorkerState
<1>4. CASE ReadAttempts(w) /\ row[Current(w)].status # "pruned"
  <2>1. worker' = [worker EXCEPT ![w] = [worker[w] EXCEPT !.pc = "write",
                                            !.seen = row[Current(w)].attempts]]
        /\ worker[w].pc = "read" /\ row' = row
    BY <1>4 DEF ReadAttempts, logVars
  <2>2. worker'[w] = [worker[w] EXCEPT !.pc = "write", !.seen = row[Current(w)].attempts]
    BY <1>0, <2>1
  <2> QED
    BY <1>0, <1>4, <2>1, <2>2 DEF WorkerState
<1> QED
  BY <1>1, <1>2, <1>3, <1>4

\* One step of a lone dispatcher.
LEMMA DispatcherSole ==
    ASSUME LoneInv, Inv', NEW w \in Workers,
           Dispatch(w) \/ Prune(w) \/ DatabaseError(w) \/ MarkError(w) \/ Crash(w)
    PROVE  Sole(w)'
<1>0. TypeOK /\ worker \in [Workers -> WorkerState]
  BY DEF LoneInv, Inv, TypeOK
<1>1. CASE Claim(w)
  BY <1>1, ClaimSole
<1>2. ASSUME worker[w].pc # "idle" PROVE row[Current(w)].status = "processing"
  BY <1>2, CurrentIsSole
<1>3. CASE Project(w) \/ Compose(w) \/ ApplyFails(w) \/ DatabaseError(w) \/ ReadAttempts(w)
  <2>1. ReadAttempts(w) => row[Current(w)].status # "pruned"
    BY <1>2 DEF ReadAttempts
  <2> QED
    BY <1>0, <1>3, <2>1, StaysLocal, SoleStays
<1>4. CASE Apply(w) \/ MarkFailed(w)
  <2>1. worker[w].pc # "idle" /\ NextInBatch(w)
    BY <1>4 DEF Apply, MarkFailed
  <2>2. \A e \in EventId : e # Current(w) => row'[e] = row[e]
    BY <1>0, <1>4 DEF Apply, MarkFailed, TypeOK
  <2> QED
    BY <2>1, <2>2, SoleGoesOn
<1>5. CASE ApplyAgain(w) \/ MarkError(w)
  <2>1. worker[w].pc # "idle" /\ NextInBatch(w) /\ row' = row
    BY <1>5 DEF ApplyAgain, MarkError, logVars
  <2> QED
    BY <2>1, SoleGoesOn
<1>6. CASE Crash(w)
  <2>1. worker'[w] = Idle
    BY <1>0, <1>6 DEF Crash
  <2>2. worker'[w].pc = "idle" /\ worker'[w].batch = <<>> /\ Len(<<>>) = 0
    BY <2>1 DEF Idle, Holding
  <2> QED
    BY <2>2 DEF Sole, NoTwice
<1>7. CASE Prune(w)
  <2>1. worker[w].pc = "idle" /\ worker' = worker /\ Len(<<>>) = 0
    BY <1>7 DEF Prune
  <2>2. worker[w].batch = <<>>
    BY <2>1 DEF LoneInv, Sole
  <2> QED
    BY <2>1, <2>2 DEF Sole, NoTwice
<1> QED
  BY <1>1, <1>3, <1>4, <1>5, <1>6, <1>7 DEF Dispatch

LEMMA TimeSole ==
    ASSUME LoneInv, NEW e \in EventId, LeaseExpires(e) \/ BackoffElapses(e), NEW w \in Workers
    PROVE  Sole(w)'
<1>1. row[e] \in EventRow /\ row \in [EventId -> EventRow] /\ worker' = worker
  BY DEF LoneInv, Inv, TypeOK, LeaseExpires, BackoffElapses
<1>2. \/ row' = [row EXCEPT ![e] = [row[e] EXCEPT !.leased = FALSE]]
      \/ row' = [row EXCEPT ![e] = [row[e] EXCEPT !.due = TRUE]]
  BY DEF LeaseExpires, BackoffElapses
<1>3. /\ \A d \in EventId : d # e => row'[d] = row[d]
      /\ row'[e].status = row[e].status /\ row'[e].attempts = row[e].attempts
  <2>1. CASE row' = [row EXCEPT ![e] = [row[e] EXCEPT !.leased = FALSE]]
    <3>1. /\ row'[e] = [row[e] EXCEPT !.leased = FALSE]
          /\ \A d \in EventId : d # e => row'[d] = row[d]
      BY <1>1, <2>1
    <3> QED
      BY <1>1, <3>1 DEF EventRow
  <2>2. CASE row' = [row EXCEPT ![e] = [row[e] EXCEPT !.due = TRUE]]
    <3>1. /\ row'[e] = [row[e] EXCEPT !.due = TRUE]
          /\ \A d \in EventId : d # e => row'[d] = row[d]
      BY <1>1, <2>2
    <3> QED
      BY <1>1, <3>1 DEF EventRow
  <2> QED
    BY <1>2, <2>1, <2>2
<1> QED
  BY <1>1, <1>3, SoleStays, CurrentIsSole DEF LoneInv, Sole

LEMMA LoneStep == ASSUME OneWorker, LoneInv, [Next]_vars PROVE LoneInv' /\ Monotone
<1>1. Inv' /\ Monotone /\ LogInv'
  BY StepInv, LogStep DEF LoneInv
<1>2. ASSUME NEW w \in Workers PROVE Sole(w)'
  <2>1. CASE Handler
    BY <1>1, <2>1, HandlerSole
  <2>2. ASSUME NEW v \in Workers,
               Dispatch(v) \/ Prune(v) \/ DatabaseError(v) \/ MarkError(v) \/ Crash(v)
        PROVE  Sole(w)'
    <3>1. Sole(v)'
      BY <1>1, <2>2, DispatcherSole
    <3>2. v = w
      BY DEF OneWorker
    <3> QED
      BY <3>1, <3>2
  <2>3. ASSUME NEW e \in EventId, LeaseExpires(e) \/ BackoffElapses(e) PROVE Sole(w)'
    BY <2>3, TimeSole
  <2>4. CASE UNCHANGED vars
    BY <2>4 DEF vars, logVars, Sole, Current, LoneInv
  <2> QED
    BY <2>1, <2>2, <2>3, <2>4 DEF Next
<1> QED
  BY <1>1, <1>2 DEF LoneInv

LEMMA InitLone == Init => LoneInv
<1> SUFFICES ASSUME Init PROVE LoneInv
  OBVIOUS
<1>1. Inv
  BY InitInv
<1>2. \A e \in EventId : row[e].status = "none" /\ ~row[e].due
  BY DEF Init, NoRow
<1>3. LogInv
  BY <1>2 DEF Init, LogInv, Fresh
<1>4. ASSUME NEW w \in Workers PROVE Sole(w)
  <2>1. worker[w].pc = "idle" /\ worker[w].batch = <<>> /\ Len(<<>>) = 0
    BY DEF Init, Idle, Holding
  <2> QED
    BY <2>1 DEF Sole, NoTwice
<1> QED
  BY <1>1, <1>3, <1>4 DEF LoneInv

\* The rows of the log stand in order, and a lone dispatcher's are its own.
LEMMA LoneInvariance == ASSUME OneWorker PROVE Spec => []LoneInv
<1>1. Init => LoneInv
  BY InitLone
<1>2. LoneInv /\ [Next]_vars => LoneInv'
  BY LoneStep
<1> QED
  BY <1>1, <1>2, PTL DEF Spec

-----------------------------------------------------------------------------
(* What a failed attempt costs a lone dispatcher.                          *)

DeletedTickets == {t \in Tickets : tickets[t] = "deleted"}

Off(e) == row[e].kind = "ticket" /\ tickets[row[e].about] # "live"

\* The attempt under way is lost, and the actor is not to blame.
Doomed(w) ==
    /\ worker[w].pc # "idle"
    /\ row[Current(w)].actor \in users \cup {NoOne}
    /\ \/ worker[w].pc \in {"read", "write"}
       \/ worker[w].pc = "compose" /\ Off(Current(w))
       \/ /\ worker[w].pc = "apply"
          /\ \/ ~(worker[w].hooks \subseteq hooks)
             \/ /\ Off(Current(w))
                /\ worker[w].emails \cap users # {} \/ worker[w].hooks # {}

CostInv ==
    /\ IsFiniteSet(Hooks \ hooks) /\ IsFiniteSet(DeletedTickets)
    /\ \A w \in Workers : worker[w].pc = "project" =>
           worker[w].emails = {} /\ worker[w].hooks = {}
    /\ \A e \in EventId : row[e].actor \in users \cup {NoOne} =>
           row[e].attempts <= Disturbances
    /\ \A w \in Workers : Doomed(w) =>
           row[Current(w)].attempts + 1 <= Disturbances

LEMMA DisturbancesAre ==
    ASSUME TypeOK, IsFiniteSet(Hooks \ hooks), IsFiniteSet(DeletedTickets)
    PROVE  /\ Disturbances = faults + Cardinality(Hooks \ hooks) + Cardinality(DeletedTickets)
           /\ Cardinality(Hooks \ hooks) \in Nat /\ Cardinality(DeletedTickets) \in Nat
           /\ faults \in Nat /\ Disturbances \in Nat
<1>1. Cardinality(Hooks \ hooks) \in Nat /\ Cardinality(DeletedTickets) \in Nat
  BY FS_CardinalityType
<1>2. faults \in Nat
  BY DomainEventsAssumption DEF TypeOK
<1>3. Disturbances = faults + Cardinality(Hooks \ hooks) + Cardinality(DeletedTickets)
  BY DEF Disturbances, DeletedTickets
<1> QED
  BY <1>1, <1>2, <1>3

\* A row keeps its actor and its attempts, or is new.
RowCounts(e) ==
    \/ row'[e].actor = row[e].actor /\ row'[e].attempts = row[e].attempts
    \/ row'[e].attempts = 0

\* A disturbance pays for one attempt of every event.
LEMMA CostRises ==
    ASSUME LoneInv, LoneInv', CostInv,
           IsFiniteSet(Hooks \ hooks'), IsFiniteSet(DeletedTickets'),
           Disturbances' = Disturbances + 1, users' \subseteq users,
           \A e \in EventId : RowCounts(e),
           \A w \in Workers : worker'[w].pc = "project" =>
               worker'[w].emails = {} /\ worker'[w].hooks = {}
    PROVE  CostInv'
<1>1. Disturbances \in Nat
  BY DisturbancesAre DEF LoneInv, Inv, CostInv
<1>2. ASSUME NEW e \in EventId, row'[e].actor \in users' \cup {NoOne}
      PROVE  row'[e].attempts \in Nat /\ row'[e].attempts <= Disturbances
  <2>1. row'[e].attempts \in Nat
    BY DomainEventsAssumption DEF LoneInv, Inv, TypeOK, EventRow
  <2>2. CASE row'[e].attempts = 0
    BY <1>1, <2>2
  <2>3. CASE row'[e].attempts # 0
    <3>1. row'[e].actor = row[e].actor /\ row'[e].attempts = row[e].attempts
      BY <2>3 DEF RowCounts
    <3>2. row[e].actor \in users \cup {NoOne}
      BY <1>2, <3>1
    <3> QED
      BY <2>1, <3>1, <3>2 DEF CostInv
  <2> QED
    BY <2>1, <2>2, <2>3
<1>3. ASSUME NEW e \in EventId, row'[e].actor \in users' \cup {NoOne}
      PROVE  row'[e].attempts + 1 <= Disturbances' /\ row'[e].attempts <= Disturbances'
  BY <1>1, <1>2, <1>3
<1>4. ASSUME NEW w \in Workers, Doomed(w)'
      PROVE  row'[Current(w)'].attempts + 1 <= Disturbances'
  <2>1. worker'[w].pc # "idle" /\ row'[Current(w)'].actor \in users' \cup {NoOne}
    BY <1>4 DEF Doomed
  <2>2. Current(w)' \in EventId
    <3>1. worker'[w].batch \in Seq(EventId) /\ worker'[w].batch # <<>>
      BY <2>1 DEF LoneInv, Inv, TypeOK, WorkerState, WorkerInv
    <3> QED
      BY <3>1, TailOfBatch DEF Current
  <2> QED
    BY <1>3, <2>1, <2>2
<1> QED
  BY <1>3, <1>4 DEF CostInv

\* Without one, no attempt is lost that was not lost before.
LEMMA CostKept ==
    ASSUME LoneInv, LoneInv', CostInv,
           faults' = faults, hooks' = hooks, users' \subseteq users,
           DeletedTickets' = DeletedTickets,
           \A e \in EventId : RowCounts(e),
           \A w \in Workers : worker'[w].pc = "project" =>
               worker'[w].emails = {} /\ worker'[w].hooks = {},
           \A w \in Workers : Doomed(w)' =>
               /\ Doomed(w) /\ Current(w)' = Current(w)
               /\ row'[Current(w)].attempts = row[Current(w)].attempts
    PROVE  CostInv'
<1>1. Disturbances' = Disturbances /\ Disturbances \in Nat
      /\ IsFiniteSet(Hooks \ hooks') /\ IsFiniteSet(DeletedTickets')
  <2>1. IsFiniteSet(Hooks \ hooks) /\ IsFiniteSet(DeletedTickets)
    BY DEF CostInv
  <2>2. Disturbances \in Nat
    BY <2>1, DisturbancesAre DEF LoneInv, Inv
  <2> QED
    BY <2>1, <2>2 DEF Disturbances, DeletedTickets
<1>2. ASSUME NEW e \in EventId, row'[e].actor \in users' \cup {NoOne}
      PROVE  row'[e].attempts <= Disturbances'
  <2>1. CASE row'[e].attempts = 0
    BY <1>1, <2>1
  <2>2. CASE row'[e].attempts # 0
    BY <1>1, <1>2, <2>2 DEF RowCounts, CostInv
  <2> QED
    BY <2>1, <2>2
<1>3. ASSUME NEW w \in Workers, Doomed(w)'
      PROVE  row'[Current(w)'].attempts + 1 <= Disturbances'
  <2>1. /\ Doomed(w) /\ Current(w)' = Current(w)
        /\ row'[Current(w)].attempts = row[Current(w)].attempts
    BY <1>3
  <2> QED
    BY <1>1, <2>1 DEF CostInv
<1> QED
  BY <1>1, <1>2, <1>3 DEF CostInv

\* The steps within an attempt.
LEMMA DoomedBefore ==
    ASSUME LoneInv, CostInv, NEW w \in Workers, Doomed(w)',
           Project(w) \/ Compose(w) \/ ApplyFails(w) \/ ReadAttempts(w)
    PROVE  Doomed(w) /\ Current(w)' = Current(w)
<1>0. TypeOK /\ worker[w] \in WorkerState /\ worker \in [Workers -> WorkerState]
  BY DEF LoneInv, Inv, TypeOK
<1> DEFINE e == Current(w)
<1>1. worker[w].pc # "idle"
  BY DEF Project, Compose, ApplyFails, ReadAttempts
<1>2. e \in EventId /\ row[e].status = "processing"
  BY <1>1, CurrentIsSole
<1>3. /\ worker'[w].batch = worker[w].batch /\ row' = row
      /\ Current(w)' = e
      /\ users' = users /\ tickets' = tickets /\ hooks' = hooks
  <2>1. worker'[w].batch = worker[w].batch /\ row' = row
    BY <1>0, <1>2, StaysLocal
  <2> QED
    BY <2>1 DEF Current, Project, Compose, ApplyFails, ReadAttempts, tableVars
<1> HIDE DEF e
<1>4. /\ row[e].actor \in users \cup {NoOne}
      /\ \/ worker'[w].pc \in {"read", "write"}
         \/ worker'[w].pc = "compose" /\ Off(e)
         \/ /\ worker'[w].pc = "apply"
            /\ \/ ~(worker'[w].hooks \subseteq hooks)
               \/ /\ Off(e)
                  /\ worker'[w].emails \cap users # {} \/ worker'[w].hooks # {}
  BY <1>3 DEF Doomed, Off, e
<1>5. CASE Project(w)
  <2> DEFINE next == CASE row[e].kind = "ticket" /\ tickets[row[e].about] = "live" ->
                            [worker[w] EXCEPT !.pc = "compose", !.audited = TRUE]
                       [] row[e].kind = "ticket" /\ tickets[row[e].about] # "live" ->
                            [worker[w] EXCEPT !.pc = "apply"]
                       [] row[e].kind = "link" ->
                            [worker[w] EXCEPT !.pc = "apply", !.audited = TRUE,
                                              !.emails = {row[e].about} \cap users]
                       [] OTHER -> [worker[w] EXCEPT !.pc = "apply", !.audited = TRUE]
  <2>1. worker' = [worker EXCEPT ![w] = next] /\ worker[w].pc = "project"
    BY <1>5 DEF Project, e
  <2>2. worker'[w] = next
    BY <1>0, <2>1
  <2>3. worker[w].emails = {} /\ worker[w].hooks = {}
    BY <2>1 DEF CostInv
  <2>4. CASE row[e].kind = "ticket" /\ tickets[row[e].about] = "live"
    <3>1. worker'[w].pc = "compose"
      BY <1>0, <2>2, <2>4 DEF WorkerState
    <3> QED
      BY <1>4, <2>4, <3>1 DEF Off
  <2>5. CASE row[e].kind = "ticket" /\ tickets[row[e].about] # "live"
    <3>1. worker'[w] = [worker[w] EXCEPT !.pc = "apply"]
      BY <2>2, <2>5
    <3>2. worker'[w].pc = "apply" /\ worker'[w].emails = {} /\ worker'[w].hooks = {}
      BY <1>0, <2>3, <3>1 DEF WorkerState
    <3> QED
      BY <1>4, <3>2
  <2>6. CASE row[e].kind # "ticket"
    <3>1. ~Off(e)
      BY <2>6 DEF Off
    <3>2. worker'[w].pc = "apply" /\ worker'[w].hooks = {}
      <4>1. CASE row[e].kind = "link"
        <5>1. worker'[w] = [worker[w] EXCEPT !.pc = "apply", !.audited = TRUE,
                                             !.emails = {row[e].about} \cap users]
          BY <2>2, <2>6, <4>1
        <5> QED
          BY <1>0, <2>3, <5>1 DEF WorkerState
      <4>2. CASE row[e].kind # "link"
        <5>1. worker'[w] = [worker[w] EXCEPT !.pc = "apply", !.audited = TRUE]
          BY <2>2, <2>6, <4>2
        <5> QED
          BY <1>0, <2>3, <5>1 DEF WorkerState
      <4> QED
        BY <4>1, <4>2
    <3> QED
      BY <1>4, <3>1, <3>2
  <2> QED
    BY <2>4, <2>5, <2>6
<1>6. CASE Compose(w)
  <2>1. PICK emails \in SUBSET users :
           worker' = [worker EXCEPT ![w] = [worker[w] EXCEPT !.pc = "apply",
                                              !.emails = emails, !.hooks = hooks]]
    BY <1>6 DEF Compose
  <2>2. worker'[w] = [worker[w] EXCEPT !.pc = "apply", !.emails = emails, !.hooks = hooks]
    BY <1>0, <2>1
  <2>3. worker'[w].pc = "apply" /\ worker'[w].hooks = hooks
    BY <1>0, <2>2 DEF WorkerState
  <2>4. Off(e) /\ worker[w].pc = "compose"
    BY <1>4, <1>6, <2>3 DEF Compose
  <2> QED
    BY <1>3, <1>4, <2>4 DEF Doomed, e
<1>7. CASE ApplyFails(w)
  <2>1. worker[w].pc = "apply" /\ ~ForeignKeysHold(w)
    BY <1>2, <1>7 DEF ApplyFails, e
  <2>2. \/ ~(worker[w].hooks \subseteq hooks)
        \/ /\ Off(e)
           /\ worker[w].emails \cap users # {} \/ worker[w].hooks # {}
    BY <1>4, <2>1 DEF ForeignKeysHold, Off, e
  <2> QED
    BY <1>3, <1>4, <2>1, <2>2 DEF Doomed, e
<1>8. CASE ReadAttempts(w)
  BY <1>3, <1>4, <1>8 DEF ReadAttempts, Doomed, e
<1> QED
  BY <1>5, <1>6, <1>7, <1>8

\* What the handlers do to the accounts, the tickets and the webhooks.
LEMMA HandlerTables ==
    ASSUME TypeOK, Handler
    PROVE  /\ users' \subseteq users /\ faults' = faults /\ worker' = worker
           /\ \/ /\ hooks' = hooks
                 /\ \A t \in Tickets :
                       /\ tickets'[t] = "deleted" <=> tickets[t] = "deleted"
                       /\ tickets'[t] # "live" => tickets[t] # "live"
              \/ /\ tickets' = tickets
                 /\ \E h \in hooks : hooks' = hooks \ {h}
              \/ /\ hooks' = hooks
                 /\ \E t \in Tickets :
                       /\ tickets[t] = "live"
                       /\ tickets' = [tickets EXCEPT ![t] = "deleted"]
<1>1. faults' = faults /\ worker' = worker
  BY HandlerInserts, InsertedRows
<1>2. ASSUME NEW u \in Users, NEW t \in Tickets, CreateTicket(u, t)
      PROVE  /\ users' = users /\ hooks' = hooks
             /\ \A s \in Tickets :
                   /\ tickets'[s] = "deleted" <=> tickets[s] = "deleted"
                   /\ tickets'[s] # "live" => tickets[s] # "live"
  BY <1>2 DEF CreateTicket, TypeOK
<1>3. ASSUME NEW u \in Users, NEW t \in Tickets, SaveTicket(u, t)
      PROVE  users' = users /\ hooks' = hooks /\ tickets' = tickets
  BY <1>3 DEF SaveTicket
<1>4. ASSUME NEW u \in Users, NEW t \in Tickets, DeleteTicket(u, t)
      PROVE  /\ users' = users /\ hooks' = hooks
             /\ \E s \in Tickets :
                   /\ tickets[s] = "live"
                   /\ tickets' = [tickets EXCEPT ![s] = "deleted"]
  BY <1>4 DEF DeleteTicket
<1>5. ASSUME NEW u \in Users, NEW h \in Hooks, DeleteWebhook(u, h)
      PROVE  /\ users' = users /\ tickets' = tickets
             /\ \E g \in hooks : hooks' = hooks \ {g}
  BY <1>5 DEF DeleteWebhook
<1>6. ASSUME NEW u \in Users, NEW v \in Users,
             CreatePasswordResetLink(u, v) \/ DeleteUser(u, v)
      PROVE  users' \subseteq users /\ hooks' = hooks /\ tickets' = tickets
  BY <1>6 DEF CreatePasswordResetLink, DeleteUser, tableVars
<1> QED
  BY <1>1, <1>2, <1>3, <1>4, <1>5, <1>6 DEF Handler

\* What they do to the log, seen from the rows that are there.
LEMMA HandlerRows ==
    ASSUME LoneInv, Handler
    PROVE  \A e \in EventId :
              /\ RowCounts(e)
              /\ row[e].status # "none" => row'[e] = row[e]
<1>0. PICK n \in 1..2 : \E new : InsertEvents(n, new) /\ new.attempts = 0
  BY HandlerInserts
<1>1. PICK new : InsertEvents(n, new) /\ new.attempts = 0
  BY <1>0
<1>2. \A e \in EventId : row'[e] = IF lastId < e /\ e <= lastId' THEN new ELSE row[e]
  BY <1>1, InsertedRows DEF LoneInv, Inv
<1>3. \A e \in EventId : row[e].status # "none" => ~(lastId < e)
  <2>1. \A e \in EventId : row[e].status # "none" => ~(e > lastId)
    BY DEF LoneInv, Inv, RowInv
  <2>2. lastId \in Nat /\ \A e \in EventId : e \in Nat
    BY DomainEventsAssumption DEF LoneInv, Inv, TypeOK, EventId
  <2> QED
    BY <2>1, <2>2
<1> QED
  BY <1>1, <1>2, <1>3 DEF RowCounts

\* A webhook or a ticket that goes away is a disturbance.
LEMMA OneMore ==
    ASSUME TypeOK, IsFiniteSet(Hooks \ hooks), IsFiniteSet(DeletedTickets), faults' = faults,
           \/ /\ tickets' = tickets
              /\ \E h \in hooks : hooks' = hooks \ {h}
           \/ /\ hooks' = hooks
              /\ \E t \in Tickets :
                    /\ tickets[t] = "live"
                    /\ tickets' = [tickets EXCEPT ![t] = "deleted"]
    PROVE  /\ IsFiniteSet(Hooks \ hooks') /\ IsFiniteSet(DeletedTickets')
           /\ Disturbances' = Disturbances + 1
<1>0. hooks \subseteq Hooks /\ tickets \in [Tickets -> {"absent", "live", "deleted"}]
  BY DEF TypeOK
<1>1. /\ Disturbances = faults + Cardinality(Hooks \ hooks) + Cardinality(DeletedTickets)
      /\ Cardinality(Hooks \ hooks) \in Nat /\ Cardinality(DeletedTickets) \in Nat
      /\ faults \in Nat
  BY DisturbancesAre
<1>2. Disturbances' = faults + Cardinality(Hooks \ hooks') + Cardinality(DeletedTickets')
  BY DEF Disturbances, DeletedTickets
<1>3. ASSUME tickets' = tickets, NEW h \in hooks, hooks' = hooks \ {h}
      PROVE  /\ IsFiniteSet(Hooks \ hooks') /\ IsFiniteSet(DeletedTickets')
             /\ Disturbances' = Disturbances + 1
  <2>1. Hooks \ hooks' = (Hooks \ hooks) \cup {h} /\ h \notin Hooks \ hooks
    BY <1>0, <1>3
  <2>2. /\ IsFiniteSet(Hooks \ hooks')
        /\ Cardinality(Hooks \ hooks') = Cardinality(Hooks \ hooks) + 1
    <3> DEFINE gone == Hooks \ hooks
               goneNow == Hooks \ hooks'
    <3>1. IsFiniteSet(gone) /\ goneNow = gone \cup {h} /\ h \notin gone
      BY <2>1
    <3> HIDE DEF gone, goneNow
    <3>2. IsFiniteSet(goneNow) /\ Cardinality(goneNow) = Cardinality(gone) + 1
      BY <3>1, FS_AddElement
    <3> QED
      BY <3>2 DEF gone, goneNow
  <2>3. DeletedTickets' = DeletedTickets
    BY <1>3 DEF DeletedTickets
  <2> QED
    BY <1>1, <1>2, <2>2, <2>3
<1>4. ASSUME hooks' = hooks, NEW t \in Tickets, tickets[t] = "live",
             tickets' = [tickets EXCEPT ![t] = "deleted"]
      PROVE  /\ IsFiniteSet(Hooks \ hooks') /\ IsFiniteSet(DeletedTickets')
             /\ Disturbances' = Disturbances + 1
  <2>1. DeletedTickets' = DeletedTickets \cup {t} /\ t \notin DeletedTickets
    BY <1>0, <1>4 DEF DeletedTickets
  <2>2. /\ IsFiniteSet(DeletedTickets')
        /\ Cardinality(DeletedTickets') = Cardinality(DeletedTickets) + 1
    BY <2>1, FS_AddElement
  <2> QED
    BY <1>1, <1>2, <1>4, <2>2
<1> QED
  BY <1>3, <1>4

LEMMA HandlerCost ==
    ASSUME LoneInv, LoneInv', CostInv, Handler
    PROVE  CostInv'
<1>0. TypeOK /\ IsFiniteSet(Hooks \ hooks) /\ IsFiniteSet(DeletedTickets)
  BY DEF LoneInv, Inv, CostInv
<1>1. users' \subseteq users /\ faults' = faults /\ worker' = worker
  BY <1>0, HandlerTables
<1>2. \A e \in EventId : RowCounts(e)
  BY HandlerRows
<1>3. \A w \in Workers : worker'[w].pc = "project" =>
         worker'[w].emails = {} /\ worker'[w].hooks = {}
  BY <1>1 DEF CostInv
<1>4. CASE \/ /\ tickets' = tickets
              /\ \E h \in hooks : hooks' = hooks \ {h}
           \/ /\ hooks' = hooks
              /\ \E t \in Tickets :
                    /\ tickets[t] = "live"
                    /\ tickets' = [tickets EXCEPT ![t] = "deleted"]
  <2>1. /\ IsFiniteSet(Hooks \ hooks') /\ IsFiniteSet(DeletedTickets')
        /\ Disturbances' = Disturbances + 1
    BY <1>0, <1>1, <1>4, OneMore
  <2> QED
    BY <1>1, <1>2, <1>3, <2>1, CostRises
<1>5. CASE /\ hooks' = hooks
           /\ \A t \in Tickets :
                 /\ tickets'[t] = "deleted" <=> tickets[t] = "deleted"
                 /\ tickets'[t] # "live" => tickets[t] # "live"
  <2>1. DeletedTickets' = DeletedTickets
    BY <1>5 DEF DeletedTickets
  <2>2. ASSUME NEW w \in Workers, Doomed(w)'
        PROVE  /\ Doomed(w) /\ Current(w)' = Current(w)
               /\ row'[Current(w)].attempts = row[Current(w)].attempts
    <3>1. worker[w].pc # "idle" /\ Current(w)' = Current(w)
      BY <1>1, <2>2 DEF Doomed, Current
    <3>2. /\ Current(w) \in EventId /\ row[Current(w)].status = "processing"
          /\ RowInv(Current(w))
      BY <3>1, CurrentIsSole DEF LoneInv, Inv
    <3>3. row'[Current(w)] = row[Current(w)]
      BY <3>2, HandlerRows
    <3>4. Off(Current(w))' => Off(Current(w))
      BY <1>5, <3>1, <3>2, <3>3 DEF Off, RowInv
    <3> QED
      BY <1>1, <1>5, <2>2, <3>1, <3>3, <3>4 DEF Doomed
  <2> QED
    BY <1>1, <1>2, <1>3, <1>5, <2>1, <2>2, CostKept
<1> QED
  BY <1>0, <1>4, <1>5, HandlerTables

LEMMA DispatcherTables ==
    ASSUME NEW w \in Workers,
           Dispatch(w) \/ Prune(w) \/ DatabaseError(w) \/ MarkError(w) \/ Crash(w)
    PROVE  users' = users /\ tickets' = tickets /\ hooks' = hooks
  BY DEF Dispatch, Claim, Project, Compose, Apply, ApplyAgain, ApplyFails, ReadAttempts,
         MarkFailed, Prune, DatabaseError, MarkError, Crash, tableVars

\* An event is begun with nothing in hand.
LEMMA BeginsBlank ==
    ASSUME OneWorker, LoneInv, CostInv, NEW w \in Workers,
           Dispatch(w) \/ Prune(w) \/ DatabaseError(w) \/ MarkError(w) \/ Crash(w)
    PROVE  \A v \in Workers : worker'[v].pc = "project" =>
               worker'[v].emails = {} /\ worker'[v].hooks = {}
<1>0. TypeOK /\ worker \in [Workers -> WorkerState]
  BY DEF LoneInv, Inv, TypeOK
<1>1. \A pc, batch : Holding(pc, batch).emails = {} /\ Holding(pc, batch).hooks = {}
  BY DEF Holding
<1>2. ASSUME NEW v \in Workers, worker'[v].pc = "project"
      PROVE  worker'[v].emails = {} /\ worker'[v].hooks = {}
  <2>0. v = w
    BY DEF OneWorker
  <2>1. CASE Claim(w)
    <3>1. PICK n \in 1..BatchSize : \E batch \in [1..n -> ClaimableIds] :
             worker' = [worker EXCEPT ![w] = Holding("project", batch)]
      BY <2>1 DEF Claim
    <3>2. PICK batch \in [1..n -> ClaimableIds] :
             worker' = [worker EXCEPT ![w] = Holding("project", batch)]
      BY <3>1
    <3>3. worker'[w] = Holding("project", batch)
      BY <1>0, <3>2
    <3> QED
      BY <1>1, <2>0, <3>3
  <2>2. CASE Project(w) \/ Compose(w) \/ ApplyFails(w) \/ DatabaseError(w)
                \/ (ReadAttempts(w) /\ row[Current(w)].status # "pruned")
    <3>1. worker'[w].pc # "project"
      <4>1. CASE Project(w)
        <5> DEFINE event == row[Current(w)]
                   next == CASE event.kind = "ticket" /\ tickets[event.about] = "live" ->
                            [worker[w] EXCEPT !.pc = "compose", !.audited = TRUE]
                       [] event.kind = "ticket" /\ tickets[event.about] # "live" ->
                            [worker[w] EXCEPT !.pc = "apply"]
                       [] event.kind = "link" ->
                            [worker[w] EXCEPT !.pc = "apply", !.audited = TRUE,
                                              !.emails = {event.about} \cap users]
                       [] OTHER -> [worker[w] EXCEPT !.pc = "apply", !.audited = TRUE]
        <5>1. worker' = [worker EXCEPT ![w] = next]
          BY <4>1 DEF Project
        <5>2. worker'[w] = next
          BY <1>0, <5>1
        <5>3. next.pc \in {"compose", "apply"}
          BY <1>0 DEF WorkerState
        <5> QED
          BY <5>2, <5>3
      <4>2. CASE Compose(w)
        <5>1. PICK emails \in SUBSET users :
                 worker' = [worker EXCEPT ![w] = [worker[w] EXCEPT !.pc = "apply",
                                                    !.emails = emails, !.hooks = hooks]]
          BY <4>2 DEF Compose
        <5>2. worker'[w] = [worker[w] EXCEPT !.pc = "apply", !.emails = emails,
                                             !.hooks = hooks]
          BY <1>0, <5>1
        <5> QED
          BY <1>0, <5>2 DEF WorkerState
      <4>3. CASE ApplyFails(w) \/ DatabaseError(w)
        <5>1. worker' = [worker EXCEPT ![w] = [worker[w] EXCEPT !.pc = "read"]]
          BY <4>3 DEF ApplyFails, DatabaseError
        <5>2. worker'[w] = [worker[w] EXCEPT !.pc = "read"]
          BY <1>0, <5>1
        <5> QED
          BY <1>0, <5>2 DEF WorkerState
      <4>4. CASE ReadAttempts(w) /\ row[Current(w)].status # "pruned"
        <5>1. worker' = [worker EXCEPT ![w] = [worker[w] EXCEPT !.pc = "write",
                                                  !.seen = row[Current(w)].attempts]]
          BY <4>4 DEF ReadAttempts
        <5>2. worker'[w] = [worker[w] EXCEPT !.pc = "write",
                                             !.seen = row[Current(w)].attempts]
          BY <1>0, <5>1
        <5> QED
          BY <1>0, <5>2 DEF WorkerState
      <4> QED
        BY <2>2, <4>1, <4>2, <4>3, <4>4
    <3> QED
      BY <1>2, <2>0, <3>1
  <2>3. CASE NextInBatch(w)
    <3>1. worker'[w] = IF Len(worker[w].batch) = 1 THEN Idle
                       ELSE Holding("project", Tail(worker[w].batch))
      BY <1>0, <2>3 DEF NextInBatch
    <3> QED
      BY <1>1, <2>0, <3>1 DEF Idle
  <2>4. CASE Crash(w)
    <3>1. worker'[w] = Idle
      BY <1>0, <2>4 DEF Crash
    <3> QED
      BY <1>1, <2>0, <3>1 DEF Idle
  <2>5. CASE Prune(w)
    BY <1>2, <2>5 DEF Prune, CostInv
  <2> QED
    BY <2>1, <2>2, <2>3, <2>4, <2>5 DEF Dispatch, Apply, ApplyAgain, ReadAttempts,
       MarkFailed, MarkError
<1> QED
  BY <1>2

LEMMA DispatcherRowCounts ==
    ASSUME Inv, NEW w \in Workers,
           Dispatch(w) \/ Prune(w) \/ DatabaseError(w) \/ MarkError(w) \/ Crash(w)
    PROVE  \A e \in EventId :
              \/ row'[e].actor = row[e].actor /\ row'[e].attempts = row[e].attempts
              \/ /\ row'[e].actor = row[e].actor
                 /\ MarkFailed(w) /\ e = Current(w)
                 /\ row'[e].attempts = worker[w].seen + 1
  BY RowsOfDispatcher DEF SameFields, SameAttempts

LEMMA DispatcherCost ==
    ASSUME OneWorker, LoneInv, LoneInv', CostInv, NEW w \in Workers,
           Dispatch(w) \/ Prune(w) \/ DatabaseError(w) \/ MarkError(w) \/ Crash(w)
    PROVE  CostInv'
<1>0. TypeOK /\ Inv /\ worker \in [Workers -> WorkerState]
      /\ IsFiniteSet(Hooks \ hooks) /\ IsFiniteSet(DeletedTickets)
  BY DEF LoneInv, Inv, TypeOK, CostInv
<1>1. users' = users /\ tickets' = tickets /\ hooks' = hooks
  BY DispatcherTables
<1>2. \A v \in Workers : worker'[v].pc = "project" =>
         worker'[v].emails = {} /\ worker'[v].hooks = {}
  BY BeginsBlank
<1>3. DeletedTickets' = DeletedTickets
  BY <1>1 DEF DeletedTickets
<1>4. Disturbances \in Nat
  BY <1>0, DisturbancesAre
<1>5. CASE DatabaseError(w) \/ MarkError(w) \/ Crash(w)
  <2>1. faults' = faults + 1 /\ row' = row
    BY <1>5 DEF DatabaseError, MarkError, Crash, Fault, logVars
  <2>2. Disturbances' = Disturbances + 1
    <3>1. /\ Disturbances = faults + Cardinality(Hooks \ hooks) + Cardinality(DeletedTickets)
          /\ Cardinality(Hooks \ hooks) \in Nat /\ Cardinality(DeletedTickets) \in Nat
          /\ faults \in Nat
      BY <1>0, DisturbancesAre
    <3>2. Disturbances' = (faults + 1) + Cardinality(Hooks \ hooks) + Cardinality(DeletedTickets)
      BY <1>1, <2>1 DEF Disturbances, DeletedTickets
    <3> QED
      BY <3>1, <3>2
  <2>3. IsFiniteSet(Hooks \ hooks') /\ IsFiniteSet(DeletedTickets')
    BY <1>0, <1>1, <1>3
  <2> QED
    BY <1>1, <1>2, <2>1, <2>2, <2>3, CostRises DEF RowCounts
<1>6. CASE MarkFailed(w)
  <2> DEFINE c == Current(w)
  <2>1. worker[w].pc = "write" /\ NextInBatch(w) /\ faults' = faults
    BY <1>6 DEF MarkFailed
  <2>2. c \in EventId /\ row[c].status = "processing" /\ worker[w].seen = row[c].attempts
    BY <2>1, CurrentIsSole DEF LoneInv, Sole
  <2>3. \A v \in Workers : ~Doomed(v)'
    <3>1. worker'[w].pc \in {"idle", "project"}
      BY <2>1, GoesOn
    <3> QED
      BY <3>1 DEF Doomed, OneWorker
  <2> HIDE DEF c
  <2>4. Disturbances' = Disturbances
    BY <1>1, <2>1 DEF Disturbances
  <2>5. ASSUME NEW e \in EventId, row'[e].actor \in users' \cup {NoOne}
        PROVE  row'[e].attempts <= Disturbances'
    <3>1. row'[e].actor = row[e].actor
      BY <1>0, <1>6, DispatcherRowCounts
    <3>2. CASE row'[e].attempts = row[e].attempts
      BY <1>1, <2>4, <2>5, <3>1, <3>2 DEF CostInv
    <3>3. CASE e = c /\ row'[e].attempts = worker[w].seen + 1
      <4>1. Doomed(w)
        BY <1>1, <2>1, <2>5, <3>1, <3>3 DEF Doomed, c
      <4>2. row[c].attempts + 1 <= Disturbances
        BY <4>1 DEF CostInv, c
      <4> QED
        BY <2>2, <2>4, <3>3, <4>2
    <3> QED
      BY <1>0, <1>6, <3>2, <3>3, DispatcherRowCounts DEF c
  <2> QED
    BY <1>0, <1>1, <1>2, <1>3, <2>3, <2>5 DEF CostInv
<1>7. CASE ~(DatabaseError(w) \/ MarkError(w) \/ Crash(w) \/ MarkFailed(w))
  <2>1. faults' = faults
    BY <1>7 DEF Dispatch, Claim, Project, Compose, Apply, ApplyAgain, ApplyFails,
                ReadAttempts, Prune
  <2>2. \A e \in EventId :
           row'[e].actor = row[e].actor /\ row'[e].attempts = row[e].attempts
    BY <1>0, <1>7, DispatcherRowCounts
  <2>3. ASSUME NEW v \in Workers, Doomed(v)'
        PROVE  Doomed(v) /\ Current(v)' = Current(v) /\ Current(v) \in EventId
    <3>0. v = w
      BY DEF OneWorker
    <3>1. CASE Project(w) \/ Compose(w) \/ ApplyFails(w) \/ ReadAttempts(w)
      <4>1. worker[w].pc # "idle"
        BY <3>1 DEF Project, Compose, ApplyFails, ReadAttempts
      <4>2. Doomed(w) /\ Current(w)' = Current(w)
        BY <2>3, <3>0, <3>1, DoomedBefore
      <4> QED
        BY <3>0, <4>1, <4>2, CurrentIsSole
    <3>2. CASE Claim(w)
      <4>1. worker'[w].pc = "project"
        BY <1>0, <3>2, ClaimIs
      <4> QED
        BY <2>3, <3>0, <4>1 DEF Doomed
    <3>3. CASE Apply(w) \/ ApplyAgain(w)
      <4>1. worker'[w].pc \in {"idle", "project"}
        <5>1. worker[w].pc # "idle" /\ NextInBatch(w)
          BY <3>3 DEF Apply, ApplyAgain
        <5> QED
          BY <5>1, GoesOn
      <4> QED
        BY <2>3, <3>0, <4>1 DEF Doomed
    <3>4. CASE Prune(w)
      <4>1. worker'[w].pc = "idle"
        BY <3>4 DEF Prune
      <4> QED
        BY <2>3, <3>0, <4>1 DEF Doomed
    <3> QED
      BY <1>7, <3>1, <3>2, <3>3, <3>4 DEF Dispatch
  <2> QED
    BY <1>1, <1>2, <1>3, <2>1, <2>2, <2>3, CostKept DEF RowCounts
<1> QED
  BY <1>5, <1>6, <1>7

LEMMA TimeCost ==
    ASSUME LoneInv, LoneInv', CostInv, NEW e \in EventId,
           LeaseExpires(e) \/ BackoffElapses(e)
    PROVE  CostInv'
<1>1. /\ UNCHANGED <<tableVars, worker, faults>>
      /\ users' = users /\ tickets' = tickets /\ hooks' = hooks
  BY DEF LeaseExpires, BackoffElapses, tableVars
<1>2. row[e] \in EventRow /\ row \in [EventId -> EventRow]
  BY DEF LoneInv, Inv, TypeOK
<1>3. \A d \in EventId :
         /\ row'[d].actor = row[d].actor /\ row'[d].attempts = row[d].attempts
         /\ row'[d].kind = row[d].kind /\ row'[d].about = row[d].about
  <2>1. CASE LeaseExpires(e)
    <3>1. row' = [row EXCEPT ![e] = [row[e] EXCEPT !.leased = FALSE]]
      BY <2>1 DEF LeaseExpires
    <3>2. /\ row'[e] = [row[e] EXCEPT !.leased = FALSE]
          /\ \A d \in EventId : d # e => row'[d] = row[d]
      BY <1>2, <3>1
    <3>3. /\ row'[e].actor = row[e].actor /\ row'[e].attempts = row[e].attempts
          /\ row'[e].kind = row[e].kind /\ row'[e].about = row[e].about
      BY <1>2, <3>2 DEF EventRow
    <3> QED
      BY <3>2, <3>3
  <2>2. CASE BackoffElapses(e)
    <3>1. row' = [row EXCEPT ![e] = [row[e] EXCEPT !.due = TRUE]]
      BY <2>2 DEF BackoffElapses
    <3>2. /\ row'[e] = [row[e] EXCEPT !.due = TRUE]
          /\ \A d \in EventId : d # e => row'[d] = row[d]
      BY <1>2, <3>1
    <3>3. /\ row'[e].actor = row[e].actor /\ row'[e].attempts = row[e].attempts
          /\ row'[e].kind = row[e].kind /\ row'[e].about = row[e].about
      BY <1>2, <3>2 DEF EventRow
    <3> QED
      BY <3>2, <3>3
  <2> QED
    BY <2>1, <2>2
<1>4. ASSUME NEW w \in Workers, Doomed(w)'
      PROVE  /\ Doomed(w) /\ Current(w)' = Current(w)
             /\ row'[Current(w)].attempts = row[Current(w)].attempts
  <2>1. worker' = worker /\ worker[w].pc # "idle" /\ Current(w)' = Current(w)
    BY <1>1, <1>4 DEF Doomed, Current
  <2>2. Current(w) \in EventId
    BY <2>1, CurrentIsSole
  <2>3. Off(Current(w))' <=> Off(Current(w))
    BY <1>1, <1>3, <2>1, <2>2 DEF Off
  <2> QED
    BY <1>1, <1>3, <1>4, <2>1, <2>2, <2>3 DEF Doomed
<1>5. DeletedTickets' = DeletedTickets /\ faults' = faults
  BY <1>1 DEF DeletedTickets
<1>6. \A w \in Workers : worker'[w].pc = "project" =>
         worker'[w].emails = {} /\ worker'[w].hooks = {}
  BY <1>1 DEF CostInv
<1> QED
  BY <1>1, <1>3, <1>4, <1>5, <1>6, CostKept DEF RowCounts

LEMMA CostStep == ASSUME OneWorker, LoneInv, CostInv, [Next]_vars PROVE CostInv'
<1>1. LoneInv'
  BY LoneStep
<1>2. CASE UNCHANGED vars
  BY <1>2 DEF vars, tableVars, logVars, CostInv, Disturbances, DeletedTickets, Doomed, Off,
              Current
<1> QED
  BY <1>1, <1>2, HandlerCost, DispatcherCost, TimeCost DEF Next

LEMMA InitCost == Init => CostInv
<1> SUFFICES ASSUME Init PROVE CostInv
  OBVIOUS
<1>1. Hooks \ hooks = {} /\ DeletedTickets = {} /\ IsFiniteSet({})
  <2>1. IsFiniteSet({})
    BY FS_EmptySet
  <2> QED
    BY <2>1 DEF Init, DeletedTickets
<1>2. IsFiniteSet(Hooks \ hooks) /\ IsFiniteSet(DeletedTickets)
  BY <1>1
<1>3. Disturbances \in Nat
  BY <1>2, InitInv, DisturbancesAre DEF Inv
<1>4. \A w \in Workers : worker[w].pc = "idle"
  BY DEF Init, Idle, Holding
<1>5. \A e \in EventId : row[e].attempts = 0
  BY DEF Init, NoRow
<1> QED
  BY <1>2, <1>3, <1>4, <1>5 DEF CostInv, Doomed

\* With one dispatcher, an event of an account that still exists is given up
\* only when each of its attempts was spent on a disturbance of its own: a
\* fault, or a webhook or a ticket deleted under its projection.
THEOREM FailuresAreEarned == ASSUME OneWorker PROVE Spec => []FailureIsEarned
<1>1. LoneInv /\ CostInv => FailureIsEarned
  BY DEF LoneInv, Inv, RowInv, CostInv, FailureIsEarned
<1>2. Init => CostInv
  BY InitCost
<1>3. LoneInv /\ CostInv /\ [Next]_vars => CostInv'
  BY CostStep
<1>4. Spec => []LoneInv
  BY LoneInvariance
<1> QED
  BY <1>1, <1>2, <1>3, <1>4, PTL DEF Spec

-----------------------------------------------------------------------------
(* The order in which a lone dispatcher projects.                          *)

Past(d) == row[d].status \in Settled \/ row[d].attempts > 0 \/ Orphaned(d)

\* What stands before an unattempted event of the batch is past, or ahead of
\* it in the batch.
BatchOrder(w) ==
    \A j \in 1..Len(worker[w].batch) : row[worker[w].batch[j]].attempts = 0 =>
        \A d \in 1..(worker[w].batch[j] - 1) :
            Past(d) \/ \E i \in 1..(j - 1) : worker[w].batch[i] = d

\* The events before one that is there are there.
LEMMA EarlierEvents ==
    ASSUME Inv, NEW e \in EventId, row[e].status # "none", NEW d \in 1..(e - 1)
    PROVE  d \in EventId /\ d < e /\ row[d].status # "none"
<1>1. e \in Nat /\ e <= MaxEvents /\ MaxEvents \in Nat /\ lastId \in Nat
  BY DomainEventsAssumption DEF Inv, TypeOK, EventId
<1>2. d \in EventId /\ d < e
  BY <1>1 DEF EventId
<1>3. ~(e > lastId)
  BY DEF Inv, RowInv
<1>4. ~(d > lastId)
  BY <1>1, <1>2, <1>3 DEF EventId
<1> QED
  BY <1>2, <1>4 DEF Inv, RowInv

\* The events of a batch.
LEMMA EventsOfBatch ==
    ASSUME Inv, NEW w \in Workers
    PROVE  /\ worker[w].batch \in Seq(EventId) /\ Len(worker[w].batch) \in Nat
           /\ DOMAIN worker[w].batch = 1..Len(worker[w].batch)
           /\ \A j \in 1..Len(worker[w].batch) :
                 worker[w].batch[j] \in EventId /\ row[worker[w].batch[j]].status # "none"
<1>1. worker[w].batch \in Seq(EventId)
  BY DEF Inv, TypeOK, WorkerState
<1>2. \A j \in 1..Len(worker[w].batch) : worker[w].batch[j] \in EventId
  BY <1>1, ElementOfSeq
<1> QED
  BY <1>1, <1>2 DEF Inv, WorkerInv

\* What a step other than a claim leaves of the rows that are there.
RowsGoOn(w) ==
    \A e \in EventId : row[e].status # "none" =>
        /\ row'[e].attempts = 0 => row[e].attempts = 0
        /\ \/ row[e].status # "processing"
           \/ row'[e].status = "processing"
           \/ \E i \in 1..Len(worker[w].batch) : worker[w].batch[i] = e

\* Past events stay past.
LEMMA PastStays ==
    ASSUME OneWorker, LoneInv, LoneInv', Monotone, NEW w \in Workers, RowsGoOn(w),
           \A i \in 1..Len(worker'[w].batch) :
              \E k \in 1..Len(worker[w].batch) : worker'[w].batch[i] = worker[w].batch[k],
           NEW d \in EventId, row[d].status # "none", Past(d)
    PROVE  Past(d)'
<1>0. Inv /\ Inv'
  BY DEF LoneInv
<1>1. CASE row[d].status \in Settled
  BY <1>1 DEF Monotone, Past
<1>2. CASE row[d].attempts > 0
  <2>1. row[d].attempts # 0 /\ row'[d].attempts \in Nat
    BY <1>0, <1>2, DomainEventsAssumption DEF Inv, TypeOK, EventRow
  <2>2. row'[d].attempts # 0
    BY <2>1 DEF RowsGoOn
  <2>3. row'[d].attempts > 0
    BY <2>1, <2>2
  <2> QED
    BY <2>3 DEF Past
<1>3. CASE Orphaned(d)
  <2>1. row[d].status = "processing"
        /\ \A i \in 1..Len(worker[w].batch) : worker[w].batch[i] # d
    BY <1>0, <1>3, EventsOfBatch DEF Orphaned
  <2>2. row'[d].status = "processing"
    BY <2>1 DEF RowsGoOn
  <2>3. \A i \in 1..Len(worker'[w].batch) : worker'[w].batch[i] # d
    BY <2>1
  <2>4. DOMAIN worker'[w].batch = 1..Len(worker'[w].batch)
    <3>1. worker'[w].batch \in Seq(EventId)
      BY <1>0 DEF Inv, TypeOK, WorkerState
    <3> QED
      BY <3>1
  <2>5. ASSUME NEW v \in Workers, NEW i \in DOMAIN worker'[v].batch
        PROVE  worker'[v].batch[i] # d
    <3>1. v = w
      BY DEF OneWorker
    <3> QED
      BY <2>3, <2>4, <2>5, <3>1
  <2> QED
    BY <2>2, <2>5 DEF Past, Orphaned
<1> QED
  BY <1>1, <1>2, <1>3 DEF Past

LEMMA SameBatchOrder ==
    ASSUME OneWorker, LoneInv, LoneInv', Monotone, NEW w \in Workers, RowsGoOn(w),
           BatchOrder(w), worker'[w].batch = worker[w].batch
    PROVE  BatchOrder(w)'
<1> DEFINE b == worker[w].batch
<1>0. Inv
  BY DEF LoneInv
<1>1. \A j \in 1..Len(b) : b[j] \in EventId /\ row[b[j]].status # "none"
  BY <1>0, EventsOfBatch
<1>2. ASSUME NEW j \in 1..Len(b), row'[b[j]].attempts = 0, NEW d \in 1..(b[j] - 1)
      PROVE  Past(d)' \/ \E i \in 1..(j - 1) : b[i] = d
  <2>1. row[b[j]].attempts = 0
    BY <1>1, <1>2 DEF RowsGoOn
  <2>2. Past(d) \/ \E i \in 1..(j - 1) : b[i] = d
    BY <2>1 DEF BatchOrder
  <2>3. d \in EventId /\ row[d].status # "none"
    BY <1>0, <1>1, EarlierEvents
  <2>4. Past(d) => Past(d)'
    BY <2>3, PastStays
  <2> QED
    BY <2>2, <2>4
<1> QED
  BY <1>2 DEF BatchOrder

\* The event the dispatcher leaves is past by then.
LEMMA NextBatchOrder ==
    ASSUME OneWorker, LoneInv, LoneInv', Monotone, NEW w \in Workers, RowsGoOn(w),
           BatchOrder(w), worker[w].pc # "idle", NextInBatch(w),
           NEW c \in EventId, c = Current(w),
           row'[c].status \in Settled \cup {"processing"} \/ row'[c].attempts > 0
    PROVE  BatchOrder(w)'
<1> DEFINE b == worker[w].batch
<1>0. Inv /\ Inv'
  BY DEF LoneInv
<1>1. b \in Seq(EventId) /\ b # <<>> /\ c = Head(b) /\ c = b[1] /\ NoTwice(b)
  BY CurrentIsSole DEF Current, LoneInv, Sole
<1>2. CASE worker'[w].batch = <<>>
  <2>1. 1..Len(<<>>) = {}
    OBVIOUS
  <2> QED
    BY <1>2, <2>1 DEF BatchOrder
<1>3. CASE worker'[w].batch = Tail(b)
  <2>1. \A i \in 1..Len(Tail(b)) :
           i \in Nat /\ i + 1 \in 1..Len(b) /\ Tail(b)[i] = b[i + 1] /\ Tail(b)[i] # c
    BY <1>1, TailHasNoTwice, TailOfBatch
  <2>2. \A j \in 1..Len(b) : b[j] \in EventId /\ row[b[j]].status # "none"
    BY <1>0, EventsOfBatch
  <2>3. Len(b) \in Nat /\ Len(Tail(b)) = Len(b) - 1 /\ Tail(b) \in Seq(EventId)
    BY <1>1, HeadTailProperties
  <2>4. Past(c)'
    <3>1. CASE row'[c].status = "processing"
      <4>1. DOMAIN Tail(b) = 1..Len(Tail(b))
        BY <2>3
      <4>2. \A i \in DOMAIN worker'[w].batch : worker'[w].batch[i] # c
        BY <1>3, <2>1, <4>1
      <4>3. \A v \in Workers : \A i \in DOMAIN worker'[v].batch : worker'[v].batch[i] # c
        BY <4>2 DEF OneWorker
      <4> QED
        BY <3>1, <4>3 DEF Past, Orphaned
    <3>2. CASE row'[c].status \in Settled \/ row'[c].attempts > 0
      BY <3>2 DEF Past
    <3> QED
      BY <3>1, <3>2
  <2>5. \A i \in 1..Len(worker'[w].batch) :
           \E k \in 1..Len(b) : worker'[w].batch[i] = b[k]
    BY <1>3, <2>1
  <2>6. ASSUME NEW j \in 1..Len(Tail(b)), row'[Tail(b)[j]].attempts = 0,
               NEW d \in 1..(Tail(b)[j] - 1)
        PROVE  Past(d)' \/ \E i \in 1..(j - 1) : Tail(b)[i] = d
    <3>0. j \in Nat /\ j + 1 \in 1..Len(b) /\ Tail(b)[j] = b[j + 1] /\ b[j + 1] \in EventId
          /\ row[b[j + 1]].status # "none"
      BY <2>1, <2>2
    <3>1. row[b[j + 1]].attempts = 0
      BY <2>6, <3>0 DEF RowsGoOn
    <3>2. d \in 1..(b[j + 1] - 1) /\ d \in EventId /\ row[d].status # "none"
      BY <1>0, <3>0, EarlierEvents
    <3>3. Past(d) \/ \E i \in 1..((j + 1) - 1) : b[i] = d
      BY <3>0, <3>1, <3>2 DEF BatchOrder
    <3>4. CASE Past(d)
      BY <2>5, <3>2, <3>4, PastStays
    <3>5. ASSUME NEW i \in 1..((j + 1) - 1), b[i] = d
          PROVE  Past(d)' \/ \E k \in 1..(j - 1) : Tail(b)[k] = d
      <4>1. CASE i = 1
        BY <1>1, <2>4, <3>5, <4>1
      <4>2. CASE i # 1
        <5>1. i - 1 \in 1..(j - 1) /\ i - 1 \in 1..Len(Tail(b)) /\ (i - 1) + 1 = i
          BY <2>3, <3>0, <4>2
        <5>2. Tail(b)[i - 1] = d
          BY <2>1, <3>5, <5>1
        <5> QED
          BY <5>1, <5>2
      <4> QED
        BY <4>1, <4>2
    <3> QED
      BY <3>3, <3>4, <3>5
  <2>7. \A j \in 1..Len(worker'[w].batch) : row'[worker'[w].batch[j]].attempts = 0 =>
           \A d \in 1..(worker'[w].batch[j] - 1) :
               Past(d)' \/ \E i \in 1..(j - 1) : worker'[w].batch[i] = d
    BY <1>3, <2>6
  <2> QED
    BY <2>7 DEF BatchOrder
<1> QED
  BY <1>2, <1>3, GoesOn

\* A new batch: what is not in it and not past would have been taken first.
LEMMA ClaimOrder ==
    ASSUME OneWorker, LoneInv, LoneInv', NEW w \in Workers, Claim(w)
    PROVE  BatchOrder(w)'
<1>0a. TypeOK /\ Inv /\ Inv'
  BY DEF LoneInv, Inv
<1>0. PICK n \in 1..BatchSize : \E batch \in [1..n -> EventId] :
         /\ batch \in Seq(EventId) /\ Len(batch) = n /\ IsNextBatch(batch)
         /\ \A i \in 1..n : Claimable(batch[i])
         /\ worker'[w].pc = "project" /\ worker'[w].batch = batch
         /\ \A e \in EventId :
               row'[e] = IF \E i \in 1..n : batch[i] = e THEN Taken(row[e]) ELSE row[e]
  BY <1>0a, ClaimIs
<1>1. PICK b \in [1..n -> EventId] :
         /\ b \in Seq(EventId) /\ Len(b) = n /\ IsNextBatch(b)
         /\ \A i \in 1..n : Claimable(b[i])
         /\ worker'[w].pc = "project" /\ worker'[w].batch = b
         /\ \A e \in EventId :
               row'[e] = IF \E i \in 1..n : b[i] = e THEN Taken(row[e]) ELSE row[e]
  BY <1>0
<1>2. n \in Nat /\ DOMAIN b = 1..n
  BY DomainEventsAssumption
<1>3. \A e \in EventId : row'[e].attempts = row[e].attempts
  <2>1. ASSUME NEW e \in EventId PROVE row'[e].attempts = row[e].attempts
    <3>1. row[e] \in EventRow
      BY <1>0a DEF TypeOK
    <3>2. Taken(row[e]).attempts = row[e].attempts
      BY <3>1 DEF Taken, EventRow
    <3> QED
      BY <1>1, <3>2
  <2> QED
    BY <2>1
<1>4. ASSUME NEW j \in 1..n, row'[b[j]].attempts = 0, NEW d \in 1..(b[j] - 1)
      PROVE  Past(d)' \/ \E i \in 1..(j - 1) : b[i] = d
  <2> DEFINE e == b[j]
  <2>1. e \in EventId /\ row[e].attempts = 0 /\ Claimable(e)
    BY <1>1, <1>3, <1>4
  <2>2. Fresh(e) /\ row[e].status # "none"
    BY <2>1 DEF Fresh, Claimable
  <2>3. d \in EventId /\ d < e /\ row[d].status # "none"
    BY <1>0a, <2>1, <2>2, EarlierEvents
  <2>4. row[d] \in EventRow /\ row[d].attempts \in Nat
    BY <1>0a, <2>3, DomainEventsAssumption DEF TypeOK, EventRow
  <2>5. CASE row[d].attempts # 0
    <3>1. row'[d].attempts > 0
      BY <1>3, <2>3, <2>4, <2>5
    <3> QED
      BY <3>1 DEF Past
  <2>6. CASE \E i \in 1..n : b[i] = d
    <3>1. PICK i \in 1..n : b[i] = d
      BY <2>6
    <3>2. CASE row[d].attempts = 0
      <4>1. Fresh(d)
        BY <1>1, <3>1, <3>2 DEF Fresh, Claimable
      <4>2. <<e, d>> \notin ahead
        BY <2>1, <2>2, <2>3, <4>1 DEF LoneInv, LogInv
      <4>3. ~(j < i)
        BY <1>1, <1>2, <3>1, <4>2 DEF IsNextBatch
      <4>4. i # j
        <5>1. d # e
          BY <2>1, <2>3 DEF EventId
        <5> QED
          BY <3>1, <5>1
      <4>5. i \in 1..(j - 1)
        BY <1>2, <4>3, <4>4
      <4> QED
        BY <3>1, <4>5
    <3> QED
      BY <2>5, <3>2
  <2>7. CASE row[d].attempts = 0 /\ ~\E i \in 1..n : b[i] = d
    <3>1. row'[d] = row[d]
      BY <1>1, <2>3, <2>7
    <3>2. CASE row[d].status \in Settled
      BY <3>1, <3>2 DEF Past
    <3>3. CASE row[d].status \notin Settled
      <4>1. Fresh(d)
        BY <2>3, <2>4, <2>7, <3>3 DEF Fresh, EventRow, Status
      <4>2. <<e, d>> \notin ahead /\ row[d].due
        BY <2>1, <2>2, <2>3, <2>7, <4>1 DEF LoneInv, LogInv
      <4>3. ~Claimable(d)
        <5>1. ASSUME Claimable(d) PROVE FALSE
          <6>1. d \in ClaimableIds \ {b[i] : i \in DOMAIN b}
            BY <1>2, <2>3, <2>7, <5>1 DEF ClaimableIds
          <6>2. e \in {b[i] : i \in DOMAIN b}
            BY <1>2
          <6>3. <<e, d>> \in ahead
            BY <1>1, <6>1, <6>2 DEF IsNextBatch
          <6> QED
            BY <4>2, <6>3
        <5> QED
          BY <5>1
      <4>4. row'[d].status = "processing"
        BY <3>1, <4>1, <4>2, <4>3 DEF Fresh, Claimable
      <4>5. ASSUME NEW v \in Workers, NEW i \in DOMAIN worker'[v].batch
            PROVE  worker'[v].batch[i] # d
        <5>1. v = w
          BY DEF OneWorker
        <5> QED
          BY <1>1, <1>2, <2>7, <4>5, <5>1
      <4> QED
        BY <4>4, <4>5 DEF Past, Orphaned
    <3> QED
      BY <3>2, <3>3
  <2> QED
    BY <2>5, <2>6, <2>7
<1> QED
  BY <1>1, <1>4 DEF BatchOrder

LEMMA DispatcherGoesOn ==
    ASSUME LoneInv, NEW w \in Workers,
           Dispatch(w) \/ Prune(w) \/ DatabaseError(w) \/ MarkError(w) \/ Crash(w)
    PROVE  RowsGoOn(w)
<1>0. Inv /\ TypeOK /\ row \in [EventId -> EventRow]
  BY DEF LoneInv, Inv, TypeOK
<1>1. \A e \in EventId : row'[e].attempts = 0 => row[e].attempts = 0
  <2>1. \A e \in EventId :
           \/ SameAttempts(e)
           \/ row'[e].attempts = worker[w].seen + 1 /\ worker[w].seen \in Nat
    BY <1>0, RowsOfDispatcher
  <2>2. \A n \in Nat : n + 1 # 0
    OBVIOUS
  <2> QED
    BY <2>1, <2>2 DEF SameAttempts
<1>2. ASSUME NEW e \in EventId, row[e].status = "processing", row'[e].status # "processing"
      PROVE  \E i \in 1..Len(worker[w].batch) : worker[w].batch[i] = e
  <2>1. CASE Apply(w) \/ MarkFailed(w)
    <3>1. worker[w].pc # "idle" /\ (e # Current(w) => row'[e] = row[e])
      BY <1>0, <2>1 DEF Apply, MarkFailed
    <3>2. e = Current(w)
      BY <1>2, <3>1
    <3> QED
      BY <3>1, <3>2, CurrentIsSole
  <2>2. CASE Claim(w)
    <3>1. row'[e] = row[e] \/ row'[e] = Taken(row[e])
      BY <1>0, <2>2, ClaimIs
    <3>2. Taken(row[e]).status = "processing"
      BY <1>0 DEF Taken, EventRow
    <3> QED
      BY <1>2, <3>1, <3>2
  <2>3. CASE Prune(w)
    <3>1. PICK old \in SUBSET {d \in EventId : Prunable(d)} :
             row' = [d \in EventId |-> IF d \in old THEN [row[d] EXCEPT !.status = "pruned"]
                                       ELSE row[d]]
      BY <2>3 DEF Prune
    <3>2. e \notin old
      BY <1>2 DEF Prunable
    <3> QED
      BY <1>2, <3>1, <3>2
  <2>4. CASE ~(Apply(w) \/ MarkFailed(w) \/ Claim(w) \/ Prune(w))
    <3>1. row' = row
      BY <2>4 DEF Dispatch, Project, Compose, ApplyAgain, ApplyFails, ReadAttempts,
                  DatabaseError, MarkError, Crash, logVars
    <3> QED
      BY <1>2, <3>1
  <2> QED
    BY <2>1, <2>2, <2>3, <2>4
<1> QED
  BY <1>1, <1>2 DEF RowsGoOn

LEMMA TimeGoesOn ==
    ASSUME LoneInv, NEW w \in Workers, NEW e \in EventId, LeaseExpires(e) \/ BackoffElapses(e)
    PROVE  RowsGoOn(w) /\ worker' = worker /\ \A d \in EventId : row'[d].status = row[d].status
<1>1. row[e] \in EventRow /\ row \in [EventId -> EventRow] /\ worker' = worker
  BY DEF LoneInv, Inv, TypeOK, LeaseExpires, BackoffElapses
<1>2. /\ \A d \in EventId : d # e => row'[d] = row[d]
      /\ row'[e].status = row[e].status /\ row'[e].attempts = row[e].attempts
  <2>1. CASE LeaseExpires(e)
    <3>1. row' = [row EXCEPT ![e] = [row[e] EXCEPT !.leased = FALSE]]
      BY <2>1 DEF LeaseExpires
    <3>2. /\ row'[e] = [row[e] EXCEPT !.leased = FALSE]
          /\ \A d \in EventId : d # e => row'[d] = row[d]
      BY <1>1, <3>1
    <3> QED
      BY <1>1, <3>2 DEF EventRow
  <2>2. CASE BackoffElapses(e)
    <3>1. row' = [row EXCEPT ![e] = [row[e] EXCEPT !.due = TRUE]]
      BY <2>2 DEF BackoffElapses
    <3>2. /\ row'[e] = [row[e] EXCEPT !.due = TRUE]
          /\ \A d \in EventId : d # e => row'[d] = row[d]
      BY <1>1, <3>1
    <3> QED
      BY <1>1, <3>2 DEF EventRow
  <2> QED
    BY <2>1, <2>2
<1> QED
  BY <1>1, <1>2 DEF RowsGoOn

\* What a crash or pruning leaves to order: nothing.
LEMMA EmptyOrder ==
    ASSUME NEW w \in Workers, worker'[w].batch = <<>>
    PROVE  BatchOrder(w)'
<1>1. 1..Len(<<>>) = {}
  OBVIOUS
<1> QED
  BY <1>1 DEF BatchOrder

LEMMA DispatcherOrder ==
    ASSUME OneWorker, LoneInv, LoneInv', Monotone, NEW w \in Workers, BatchOrder(w),
           Dispatch(w) \/ Prune(w) \/ DatabaseError(w) \/ MarkError(w) \/ Crash(w)
    PROVE  BatchOrder(w)'
<1>0. TypeOK /\ Inv /\ RowsGoOn(w) /\ worker \in [Workers -> WorkerState]
  BY DispatcherGoesOn DEF LoneInv, Inv, TypeOK
<1>1. ASSUME worker[w].pc # "idle"
      PROVE  Current(w) \in EventId /\ row[Current(w)].status = "processing"
  BY <1>1, CurrentIsSole
<1>2. CASE Claim(w)
  BY <1>2, ClaimOrder
<1>3. CASE Project(w) \/ Compose(w) \/ ApplyFails(w) \/ DatabaseError(w) \/ ReadAttempts(w)
  <2>1. ReadAttempts(w) => row[Current(w)].status # "pruned"
    BY <1>1 DEF ReadAttempts
  <2>2. worker'[w].batch = worker[w].batch
    BY <1>0, <1>3, <2>1, StaysLocal
  <2> QED
    BY <1>0, <2>2, SameBatchOrder
<1>4. CASE Apply(w)
  <2>1. worker[w].pc # "idle" /\ NextInBatch(w)
        /\ row' = [row EXCEPT ![Current(w)] = Processed(row[Current(w)])]
    BY <1>4 DEF Apply
  <2>2. row'[Current(w)] = Processed(row[Current(w)]) /\ row[Current(w)] \in EventRow
    BY <1>0, <1>1, <2>1 DEF TypeOK
  <2>3. row'[Current(w)].status \in Settled
    BY <2>2 DEF Processed, EventRow, Settled
  <2> QED
    BY <1>0, <1>1, <2>1, <2>3, NextBatchOrder
<1>5. CASE MarkFailed(w)
  <2>1. worker[w].pc # "idle" /\ NextInBatch(w) /\ worker[w].seen \in Nat
    BY <1>0, <1>5, DomainEventsAssumption DEF MarkFailed, WorkerState
  <2>2. worker[w].seen + 1 \in 0..MaxAttempts
        /\ row'[Current(w)] = Attempted(row[Current(w)], worker[w].seen + 1)
        /\ row[Current(w)] \in EventRow
    <3>1. StillProcessing(Current(w))
      BY <1>1, <2>1 DEF StillProcessing
    <3>2. 1..MaxAttempts \subseteq 0..MaxAttempts
      BY DomainEventsAssumption
    <3> QED
      BY <1>0, <1>5, <3>1, <3>2, MarkFailedIs
  <2>3. row'[Current(w)].attempts = worker[w].seen + 1
    BY <2>2, AttemptedFields
  <2>4. row'[Current(w)].attempts > 0
    BY <2>1, <2>3
  <2> QED
    BY <1>0, <1>1, <2>1, <2>4, NextBatchOrder
<1>6. CASE ApplyAgain(w) \/ MarkError(w)
  <2>1. worker[w].pc # "idle" /\ NextInBatch(w) /\ row' = row
    BY <1>6 DEF ApplyAgain, MarkError, logVars
  <2> QED
    BY <1>0, <1>1, <2>1, NextBatchOrder
<1>7. CASE Crash(w)
  <2>1. worker'[w] = Idle
    BY <1>0, <1>7 DEF Crash
  <2>2. worker'[w].batch = <<>>
    BY <2>1 DEF Idle, Holding
  <2> QED
    BY <2>2, EmptyOrder
<1>8. CASE Prune(w)
  <2>1. worker'[w].batch = worker[w].batch
    BY <1>8 DEF Prune
  <2> QED
    BY <1>0, <2>1, SameBatchOrder
<1> QED
  BY <1>2, <1>3, <1>4, <1>5, <1>6, <1>7, <1>8 DEF Dispatch

LEMMA OrderStep ==
    ASSUME OneWorker, LoneInv, \A w \in Workers : BatchOrder(w), [Next]_vars
    PROVE  \A w \in Workers : BatchOrder(w)'
<1>1. LoneInv' /\ Monotone
  BY LoneStep
<1>2. ASSUME NEW w \in Workers PROVE BatchOrder(w)'
  <2>1. CASE Handler
    <3>1. worker' = worker
      BY <2>1, HandlerTables DEF LoneInv, Inv
    <3>2. RowsGoOn(w)
      BY <2>1, HandlerRows DEF RowsGoOn
    <3> QED
      BY <1>1, <3>1, <3>2, SameBatchOrder
  <2>2. ASSUME NEW v \in Workers,
               Dispatch(v) \/ Prune(v) \/ DatabaseError(v) \/ MarkError(v) \/ Crash(v)
        PROVE  BatchOrder(w)'
    <3>1. BatchOrder(v)'
      BY <1>1, <2>2, DispatcherOrder
    <3>2. v = w
      BY DEF OneWorker
    <3> QED
      BY <3>1, <3>2
  <2>3. ASSUME NEW e \in EventId, LeaseExpires(e) \/ BackoffElapses(e) PROVE BatchOrder(w)'
    <3>1. RowsGoOn(w) /\ worker' = worker
      BY <2>3, TimeGoesOn
    <3> QED
      BY <1>1, <3>1, SameBatchOrder
  <2>4. CASE UNCHANGED vars
    <3>1. row' = row /\ worker' = worker
      BY <2>4 DEF vars, logVars
    <3> QED
      BY <3>1 DEF BatchOrder, Past, Orphaned
  <2> QED
    BY <2>1, <2>2, <2>3, <2>4 DEF Next
<1> QED
  BY <1>2

\* Only a dispatcher's commit makes an event count as projected.
LEMMA OnlyApplyApplies ==
    ASSUME LoneInv, [Next]_vars, NEW e \in EventId, ~Applied(e), Applied(e)'
    PROVE  \E w \in Workers : Apply(w) /\ e = Current(w)
<1>0. Inv /\ TypeOK /\ row \in [EventId -> EventRow]
  BY DEF LoneInv, Inv, TypeOK
<1>1. row'[e].status # row[e].status
  BY DEF Applied
<1>2. CASE Handler
  <2>0. PICK n \in 1..2 : \E new : InsertEvents(n, new) /\ new.status = "pending"
    BY <1>2, HandlerInserts
  <2>1. PICK new : InsertEvents(n, new) /\ new.status = "pending"
    BY <2>0
  <2>2. row'[e] = new \/ row'[e] = row[e]
    BY <1>0, <2>1, InsertedRows
  <2> QED
    BY <1>1, <2>1, <2>2 DEF Applied
<1>3. ASSUME NEW w \in Workers,
             Dispatch(w) \/ Prune(w) \/ DatabaseError(w) \/ MarkError(w) \/ Crash(w)
      PROVE  Apply(w) /\ e = Current(w)
  <2>1. CASE Claim(w)
    <3>1. row'[e] = row[e] \/ row'[e] = Taken(row[e])
      BY <1>0, <2>1, ClaimIs
    <3>2. Taken(row[e]).status = "processing"
      BY <1>0 DEF Taken, EventRow
    <3> QED
      BY <1>1, <3>1, <3>2 DEF Applied
  <2>2. CASE MarkFailed(w)
    <3>1. /\ Current(w) \in EventId /\ row[Current(w)] \in EventRow
          /\ \A d \in EventId : d # Current(w) => row'[d] = row[d]
          /\ IF StillProcessing(Current(w))
             THEN /\ worker[w].seen + 1 \in 1..MaxAttempts
                  /\ row'[Current(w)] = Attempted(row[Current(w)], worker[w].seen + 1)
             ELSE row'[Current(w)] = row[Current(w)]
      BY <1>0, <2>2, MarkFailedIs
    <3>2. row[e] \in EventRow /\ row'[e] = Attempted(row[e], worker[w].seen + 1)
      BY <1>0, <1>1, <3>1
    <3>3. row'[e].status \in {"failed", "pending"}
      BY <3>2 DEF Attempted, EventRow
    <3> QED
      BY <3>3 DEF Applied
  <2>3. CASE Apply(w)
    BY <1>0, <1>1, <2>3 DEF Apply
  <2>4. CASE Prune(w)
    <3>1. PICK old \in SUBSET {d \in EventId : Prunable(d)} :
             row' = [d \in EventId |-> IF d \in old THEN [row[d] EXCEPT !.status = "pruned"]
                                       ELSE row[d]]
      BY <2>4 DEF Prune
    <3>2. e \notin old
      BY DEF Prunable, Applied
    <3> QED
      BY <1>1, <3>1, <3>2
  <2>5. CASE ~(Apply(w) \/ MarkFailed(w) \/ Claim(w) \/ Prune(w))
    <3>1. row' = row
      BY <1>3, <2>5 DEF Dispatch, Project, Compose, ApplyAgain, ApplyFails, ReadAttempts,
                  DatabaseError, MarkError, Crash, logVars
    <3> QED
      BY <1>1, <3>1
  <2> QED
    BY <2>1, <2>2, <2>3, <2>4, <2>5
<1>4. ASSUME NEW d \in EventId, LeaseExpires(d) \/ BackoffElapses(d) PROVE FALSE
  <2>1. row[d] \in EventRow
    BY <1>0
  <2>2. CASE LeaseExpires(d)
    <3>1. row' = [row EXCEPT ![d] = [row[d] EXCEPT !.leased = FALSE]]
      BY <2>2 DEF LeaseExpires
    <3>2. row'[e] = row[e] \/ (d = e /\ row'[e] = [row[d] EXCEPT !.leased = FALSE])
      BY <1>0, <3>1
    <3> QED
      BY <1>1, <2>1, <3>2 DEF EventRow
  <2>3. CASE BackoffElapses(d)
    <3>1. row' = [row EXCEPT ![d] = [row[d] EXCEPT !.due = TRUE]]
      BY <2>3 DEF BackoffElapses
    <3>2. row'[e] = row[e] \/ (d = e /\ row'[e] = [row[d] EXCEPT !.due = TRUE])
      BY <1>0, <3>1
    <3> QED
      BY <1>1, <2>1, <3>2 DEF EventRow
  <2> QED
    BY <1>4, <2>2, <2>3
<1>5. CASE UNCHANGED vars
  BY <1>1, <1>5 DEF vars, logVars
<1> QED
  BY <1>2, <1>3, <1>4, <1>5 DEF Next

\* With one dispatcher, an event is projected at its first attempt only after
\* every earlier one, except those that failed an attempt and those a crash
\* orphaned: batches, backoffs and leases never let a younger event overtake.
THEOREM FirstAttemptsStayInOrder == ASSUME OneWorker PROVE Spec => FirstAttemptsInOrder
<1> DEFINE Ordered == \A w \in Workers : BatchOrder(w)
           InOrder == \A e \in EventId :
               (~Applied(e) /\ Applied(e)' /\ row[e].attempts = 0) =>
                   \A d \in 1..(e - 1) :
                       row[d].status \in Settled \/ row[d].attempts > 0 \/ Orphaned(d)
<1>1. Init => Ordered
  <2>1. Init => \A w \in Workers : worker[w].batch = <<>>
    BY DEF Init, Idle, Holding
  <2>2. 1..Len(<<>>) = {}
    OBVIOUS
  <2> QED
    BY <2>1, <2>2 DEF BatchOrder
<1>2. LoneInv /\ Ordered /\ [Next]_vars => Ordered'
  BY OrderStep
<1>3. LoneInv /\ Ordered /\ [Next]_vars => InOrder
  <2> SUFFICES ASSUME LoneInv, Ordered, [Next]_vars, NEW e \in EventId,
                      ~Applied(e), Applied(e)', row[e].attempts = 0, NEW d \in 1..(e - 1)
               PROVE  row[d].status \in Settled \/ row[d].attempts > 0 \/ Orphaned(d)
    OBVIOUS
  <2>1. PICK w \in Workers : Apply(w) /\ e = Current(w)
    BY OnlyApplyApplies
  <2>2. worker[w].pc # "idle"
    BY <2>1 DEF Apply
  <2>3. e = worker[w].batch[1] /\ 1 \in 1..Len(worker[w].batch)
    BY <2>1, <2>2, CurrentIsSole
  <2>4. 1..(1 - 1) = {}
    OBVIOUS
  <2> QED
    BY <2>3, <2>4 DEF BatchOrder, Past
<1>4. Spec => []LoneInv
  BY LoneInvariance
<1>5. Spec => [][InOrder]_vars
  BY <1>1, <1>2, <1>3, <1>4, PTL DEF Spec
<1> QED
  BY <1>5 DEF FirstAttemptsInOrder
=============================================================================
