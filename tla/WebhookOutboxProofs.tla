------------------------ MODULE WebhookOutboxProofs ------------------------
(***************************************************************************)
(* Proofs about WebhookOutbox for every number of webhooks, notifications  *)
(* and workers, and every bound.                                           *)
(*                                                                         *)
(* NoteInv relates a row to what its receiver got; HeldInv says what is    *)
(* still true of the rows whose copies a worker holds, whatever the other  *)
(* workers did to them.  Stable names what no step takes back: once a row  *)
(* has been attempted, its payload stays and its attempts are never zero.  *)
(* CountInv counts the workers that hold a row, those that have not sent   *)
(* its request yet, and those about to make it due again, against the      *)
(* attempts and the faults.                                                *)
(***************************************************************************)
EXTENDS WebhookOutbox, SequenceTheorems, FiniteSetTheorems, TLAPS

NoteInv(n) ==
    /\ note[n].status = "none" <=> n > lastId
    /\ note[n].status = "none" => note[n].attempts = 0
    /\ received[n] \subseteq {note[n].payload}
    /\ note[n].attempts = 0 => received[n] = {} /\ note[n].status # "sending"
    /\ note[n].status = "sent" => note[n].payload \in received[n]
    /\ Exists(n) => hook[note[n].hook] # "deleted"

\* The copy of a notification that some worker holds.
CopyInv(c) ==
    /\ note[c.id].status # "none"
    /\ note[c.id].attempts # 0
    /\ c.payload = note[c.id].payload
    /\ c.hook = note[c.id].hook

\* The same after a step, for a copy held before it.
CopyNext(c) ==
    /\ note'[c.id].status # "none"
    /\ note'[c.id].attempts # 0
    /\ c.payload = note'[c.id].payload
    /\ c.hook = note'[c.id].hook

HeldInv(w) ==
    /\ worker[w].pc # "idle" => worker[w].batch # <<>>
    /\ \A i \in 1..Len(worker[w].batch) : CopyInv(worker[w].batch[i])
    /\ (worker[w].pc = "record" /\ worker[w].ok) =>
           Current(w).payload \in received[Current(w).id]
    /\ worker[w].pc = "sent" =>
           \/ Current(w).payload \in received[Current(w).id]
           \/ hook[Current(w).hook] = "deleted"

Inv ==
    /\ TypeOK
    /\ \A n \in NoteId : NoteInv(n)
    /\ \A w \in Workers : HeldInv(w)

\* What no step takes back.
Stable ==
    /\ \A n \in NoteId : note[n].status # "none" =>
           /\ note'[n].status # "none"
           /\ note'[n].hook = note[n].hook
           /\ note[n].attempts # 0 => /\ note'[n].attempts # 0
                                      /\ note'[n].payload = note[n].payload
    /\ \A n \in NoteId : received[n] \subseteq received'[n]
    /\ \A h \in Hooks : hook[h] = "deleted" => hook'[h] = "deleted"

\* What a lone worker holds: distinct rows, which nobody else has marked.
Sole(w) ==
    /\ \A i, j \in 1..Len(worker[w].batch) :
           i # j => worker[w].batch[i].id # worker[w].batch[j].id
    /\ \A i \in 1..Len(worker[w].batch) :
           note[worker[w].batch[i].id].status \in {"sending", "gone"}

SoleInv == \A w \in Workers : Sole(w)

OneWorker == \A v, w \in Workers : v = w

\* No step marks a row that the lone worker holds, but its own.
Unmarked(n) ==
    note[n].status \in {"sending", "gone"} => note'[n].status \in {"sending", "gone"}

\* What a projection does to a row: insert it, or rewrite its payload.
Queued(n) ==
    \/ note[n].status = "none" /\ note'[n].status = "pending"
    \/ /\ note[n].status = "pending" /\ note'[n].status = "pending"
       /\ received[n] = {}
    \/ note'[n] = note[n]

\* What a deletion does to a row.
Withdrawn(n) ==
    /\ note'[n].payload = note[n].payload
    /\ \/ Exists(n) /\ note'[n].status = "gone"
       \/ note'[n].status = note[n].status

\* What a claim does to a row.
ClaimedOrKept(n) ==
    /\ note'[n].payload = note[n].payload
    /\ \/ note[n].status \in {"pending", "sending"} /\ note'[n].status = "sending"
       \/ note'[n].status = note[n].status

-----------------------------------------------------------------------------
(* Facts about batches and records.                                        *)

LEMMA BatchIsSeq ==
    ASSUME NEW S, NEW k \in Nat, NEW f \in [1..k -> S]
    PROVE  f \in Seq(S) /\ Len(f) = k /\ DOMAIN f = 1..k
  OBVIOUS

LEMMA TailOfBatch ==
    ASSUME NEW S, NEW s \in Seq(S), s # <<>>
    PROVE  /\ Head(s) \in S
           /\ Head(s) = s[1]
           /\ Len(s) \in Nat \ {0}
           /\ Tail(s) \in Seq(S)
           /\ Len(s) # 1 => Tail(s) # <<>>
           /\ \A i \in 1..Len(Tail(s)) : i + 1 \in 1..Len(s) /\ Tail(s)[i] = s[i + 1]
  <1>1. Len(s) \in Nat \ {0}
    BY EmptySeq
  <1>2. Head(s) = s[1] /\ Head(s) \in S
    BY HeadTailProperties, ElementOfSeq, <1>1
  <1>3. Tail(s) \in Seq(S) /\ Len(Tail(s)) = Len(s) - 1
    BY HeadTailProperties
  <1>4. \A i \in 1..Len(Tail(s)) : Tail(s)[i] = s[i + 1]
    BY HeadTailProperties
  <1>5. Len(<<>>) = 0
    BY EmptySeq
  <1>6. ASSUME Tail(s) = <<>>
        PROVE  Len(s) = 1
    <2>1. Len(Tail(s)) = 0
      BY <1>5, <1>6, Zenon
    <2>2. Len(s) - 1 = 0
      BY <1>3, <2>1, Zenon
    <2> QED
      BY <1>1, <2>2
  <1> QED
    BY <1>1, <1>2, <1>3, <1>4, <1>6

LEMMA HoldingTyped ==
    ASSUME NEW pc \in {"idle", "load"}, NEW batch \in Seq(Copy)
    PROVE  Holding(pc, batch) \in WorkerState
  BY DEF Holding, WorkerState

LEMMA IdleTyped == Idle \in WorkerState
  <1>1. <<>> \in Seq(Copy)
    OBVIOUS
  <1> QED
    BY <1>1, HoldingTyped DEF Idle

LEMMA TakenRow ==
    ASSUME NEW r \in NoteRow
    PROVE  /\ Taken(r) \in NoteRow
           /\ Taken(r).status = "sending"
           /\ Taken(r).attempts = r.attempts + 1
           /\ Taken(r).hook = r.hook
           /\ Taken(r).payload = r.payload
  <1> DEFINE k == r.attempts + 1
  <1>1. k \in Nat
    BY DEF NoteRow
  <1>2. Taken(r) = [r EXCEPT !.status = "sending", !.attempts = k, !.leased = TRUE]
    BY DEF Taken
  <1> HIDE DEF k
  <1>3. /\ Taken(r) \in NoteRow /\ Taken(r).status = "sending"
        /\ Taken(r).attempts = k
        /\ Taken(r).hook = r.hook /\ Taken(r).payload = r.payload
    BY <1>1, <1>2 DEF NoteRow, NoteStatus
  <1> QED
    BY <1>3 DEF k

LEMMA RewrittenRow ==
    ASSUME NEW r \in NoteRow, NEW payload \in Version, NEW due \in BOOLEAN
    PROVE  /\ Rewritten(r, payload, due) \in NoteRow
           /\ Rewritten(r, payload, due).status = r.status
           /\ Rewritten(r, payload, due).attempts = r.attempts
           /\ Rewritten(r, payload, due).hook = r.hook
           /\ Rewritten(r, payload, due).payload = payload
  BY DEF Rewritten, NoteRow

LEMMA FailedRow ==
    ASSUME NEW r \in NoteRow, NEW k \in Nat
    PROVE  /\ Failed(r, k) \in NoteRow
           /\ Failed(r, k).status \in {"failed", "pending"}
           /\ Failed(r, k).attempts = r.attempts
           /\ Failed(r, k).hook = r.hook
           /\ Failed(r, k).payload = r.payload
  <1> DEFINE status == IF GivenUp(k) THEN "failed" ELSE "pending"
             due    == GivenUp(k)
  <1>1. status \in {"failed", "pending"} /\ due \in BOOLEAN
    BY DEF GivenUp
  <1>2. Failed(r, k) = [r EXCEPT !.status = status, !.due = due, !.leased = FALSE]
    BY DEF Failed
  <1> HIDE DEF status, due
  <1> QED
    BY <1>1, <1>2 DEF NoteRow, NoteStatus

\* What a row keeps when its parent goes, or when it is marked sent.
LEMMA GoneRow ==
    ASSUME NEW r \in NoteRow, NEW q, q = [r EXCEPT !.status = "gone"]
    PROVE  /\ q \in NoteRow /\ q.status = "gone" /\ q.attempts = r.attempts
           /\ q.hook = r.hook /\ q.payload = r.payload
  BY DEF NoteRow, NoteStatus

LEMMA SentRow ==
    ASSUME NEW r \in NoteRow, NEW q,
           q = [r EXCEPT !.status = "sent", !.leased = FALSE]
    PROVE  /\ q \in NoteRow /\ q.status = "sent" /\ q.attempts = r.attempts
           /\ q.hook = r.hook /\ q.payload = r.payload
  BY DEF NoteRow, NoteStatus

-----------------------------------------------------------------------------
(* What carries the invariant over a step.                                 *)

LEMMA CopyKept ==
    ASSUME Stable
    PROVE  \A c \in Copy : CopyInv(c) => CopyNext(c)
  BY DEF CopyInv, CopyNext, Copy, Stable

\* The notification a busy worker is at.
LEMMA CurrentNote ==
    ASSUME Inv, NEW w \in Workers, worker[w].pc # "idle"
    PROVE  /\ worker[w] \in WorkerState
           /\ worker[w].batch \in Seq(Copy)
           /\ worker[w].batch # <<>>
           /\ Current(w) \in Copy
           /\ Current(w).id \in NoteId
           /\ Current(w).hook \in Hooks
           /\ CopyInv(Current(w))
           /\ note[Current(w).id] \in NoteRow
           /\ NoteInv(Current(w).id)
  <1>1. /\ worker[w] \in WorkerState /\ worker[w].batch \in Seq(Copy)
        /\ worker[w].batch # <<>> /\ HeldInv(w)
    BY DEF Inv, TypeOK, WorkerState, HeldInv
  <1>2. Current(w) = worker[w].batch[1] /\ 1 \in 1..Len(worker[w].batch)
    BY <1>1, TailOfBatch DEF Current
  <1>3. Current(w) \in Copy /\ CopyInv(Current(w))
    BY <1>1, <1>2, ElementOfSeq DEF HeldInv
  <1>4. Current(w).id \in NoteId /\ Current(w).hook \in Hooks
    BY <1>3 DEF Copy
  <1> QED
    BY <1>1, <1>3, <1>4 DEF Inv, TypeOK

\* A worker that a step leaves alone keeps its invariant.
LEMMA WorkerKept ==
    ASSUME Inv, Stable, NEW w \in Workers, worker'[w] = worker[w]
    PROVE  HeldInv(w)'
  <1> USE DEF Current
  <1>1. worker[w].batch \in Seq(Copy) /\ HeldInv(w)
    BY DEF Inv, TypeOK, WorkerState
  <1>2. \A i \in 1..Len(worker[w].batch) : CopyNext(worker[w].batch[i])
    BY <1>1, CopyKept, ElementOfSeq DEF HeldInv
  <1>4. ASSUME worker[w].pc # "idle"
        PROVE  Current(w).id \in NoteId /\ Current(w).hook \in Hooks
    BY <1>4, CurrentNote
  <1>5. (worker[w].pc = "record" /\ worker[w].ok) =>
            Current(w).payload \in received'[Current(w).id]
    BY <1>1, <1>4 DEF HeldInv, Stable
  <1>6. worker[w].pc = "sent" =>
            \/ Current(w).payload \in received'[Current(w).id]
            \/ hook'[Current(w).hook] = "deleted"
    BY <1>1, <1>4 DEF HeldInv, Stable
  <1> QED
    BY <1>1, <1>2, <1>5, <1>6 DEF HeldInv, CopyInv, CopyNext

\* Every worker's invariant survives one of them going on with its batch.
LEMMA NextInBatchKeeps ==
    ASSUME Inv, Stable, NEW w \in Workers, worker[w].pc # "idle", NextInBatch(w)
    PROVE  /\ worker' \in [Workers -> WorkerState]
           /\ \A v \in Workers : HeldInv(v)'
  <1> DEFINE s == worker[w].batch
  <1>1. s \in Seq(Copy) /\ s # <<>> /\ HeldInv(w) /\ TypeOK
    BY CurrentNote DEF Inv
  <1>2. Tail(s) \in Seq(Copy)
    BY <1>1, TailOfBatch
  <1>3. worker' \in [Workers -> WorkerState]
    <2>1. Holding("load", Tail(s)) \in WorkerState
      BY <1>2, HoldingTyped
    <2> QED
      BY <1>1, <2>1, IdleTyped DEF NextInBatch, TypeOK
  <1>4. ASSUME NEW v \in Workers, v # w
        PROVE  HeldInv(v)'
    <2>1. worker'[v] = worker[v]
      BY <1>1, <1>4 DEF NextInBatch, TypeOK
    <2> QED
      BY <2>1, WorkerKept
  <1>5. CASE Len(s) = 1
    <2>1. worker'[w] = Idle
      BY <1>1, <1>5 DEF NextInBatch, TypeOK
    <2>2. Idle.pc = "idle" /\ Idle.batch = <<>>
      BY DEF Idle, Holding
    <2>3. Len(<<>>) = 0
      BY EmptySeq
    <2>4. HeldInv(w)'
      BY <2>1, <2>2, <2>3 DEF HeldInv
    <2> QED
      BY <1>3, <1>4, <2>4
  <1>6. CASE Len(s) # 1
    <2>1. worker'[w].pc = "load" /\ worker'[w].batch = Tail(s)
      BY <1>1, <1>6 DEF NextInBatch, TypeOK, Holding
    <2>2. Tail(s) # <<>>
      BY <1>1, <1>6, TailOfBatch
    <2>3. ASSUME NEW i \in 1..Len(Tail(s))
          PROVE  CopyNext(Tail(s)[i])
      <3>1. Tail(s)[i] = s[i + 1] /\ i + 1 \in 1..Len(s)
        BY <1>1, TailOfBatch
      <3> QED
        BY <1>1, <3>1, CopyKept, ElementOfSeq DEF HeldInv
    <2>4. HeldInv(w)'
      BY <2>1, <2>2, <2>3 DEF HeldInv, CopyInv, CopyNext
    <2> QED
      BY <1>3, <1>4, <2>4
  <1> QED
    BY <1>5, <1>6

\* A row that a step leaves alone keeps its invariant.
LEMMA NoteKept ==
    ASSUME Inv, NEW n \in NoteId,
           note'[n] = note[n], received'[n] = received[n],
           hook' = hook, lastId' = lastId
    PROVE  NoteInv(n)'
  BY DEF Inv, NoteInv, Exists

\* A worker that moves on within one notification, holding the same batch.
LEMMA SameNote ==
    ASSUME Inv, Stable, NEW w \in Workers, worker[w].pc # "idle",
           NEW local \in WorkerState, worker' = [worker EXCEPT ![w] = local],
           local.pc # "idle", local.batch = worker[w].batch,
           (local.pc = "record" /\ local.ok) =>
               Current(w).payload \in received'[Current(w).id],
           local.pc = "sent" =>
               \/ Current(w).payload \in received'[Current(w).id]
               \/ hook'[Current(w).hook] = "deleted"
    PROVE  /\ worker' \in [Workers -> WorkerState]
           /\ \A v \in Workers : HeldInv(v)'
  <1>1. TypeOK
    BY DEF Inv
  <1>2. worker' \in [Workers -> WorkerState]
    BY <1>1 DEF TypeOK
  <1>3. ASSUME NEW v \in Workers, v # w
        PROVE  HeldInv(v)'
    BY <1>1, <1>3, WorkerKept DEF TypeOK
  <1>4. worker'[w] = local
    BY <1>1 DEF TypeOK
  <1>5. worker[w].batch \in Seq(Copy) /\ worker[w].batch # <<>> /\ HeldInv(w)
    BY CurrentNote DEF Inv
  <1>6. \A i \in 1..Len(worker[w].batch) : CopyNext(worker[w].batch[i])
    BY <1>5, CopyKept, ElementOfSeq DEF HeldInv
  <1>7. HeldInv(w)'
    <2>1. worker'[w].batch = worker[w].batch /\ Current(w)' = Current(w)
      BY <1>4 DEF Current
    <2>2. \A i \in 1..Len(worker[w].batch) : CopyInv(worker[w].batch[i])'
      BY <1>6, <2>1 DEF CopyInv, CopyNext
    <2>3. /\ (worker'[w].pc = "record" /\ worker'[w].ok) =>
                  Current(w).payload \in received'[Current(w).id]
          /\ worker'[w].pc = "sent" =>
                 \/ Current(w).payload \in received'[Current(w).id]
                 \/ hook'[Current(w).hook] = "deleted"
      BY <1>4, Zenon
    <2> QED
      BY <1>5, <2>1, <2>2, <2>3 DEF HeldInv
  <1> QED
    BY <1>2, <1>3, <1>7

\* A step of one worker that touches no row and no receiver.
LEMMA OnlyWorker ==
    ASSUME Inv, UNCHANGED <<tableVars, note, queueVars, wireVars>>,
           result' \in [Hooks -> {"none", "ok", "error"}],
           faults' \in 0..MaxFaults,
           worker' \in [Workers -> WorkerState],
           \A v \in Workers : HeldInv(v)'
    PROVE  Inv'
  <1>1. UNCHANGED <<hook, live, note, lastId, version, newest, received, requests>>
    BY DEF tableVars, queueVars, wireVars
  <1>2. TypeOK'
    BY <1>1 DEF Inv, TypeOK
  <1>3. \A n \in NoteId : NoteInv(n)'
    BY <1>1, NoteKept
  <1> QED
    BY <1>2, <1>3 DEF Inv

LEMMA StableIfSame ==
    ASSUME UNCHANGED <<hook, note, received>>
    PROVE  Stable
  BY DEF Stable

LEMMA FaultTyped ==
    ASSUME TypeOK, Fault
    PROVE  faults' \in 0..MaxFaults
  BY WebhookOutboxAssumption DEF TypeOK, Fault

-----------------------------------------------------------------------------
(* The initial state and the steps, one lemma per action.                  *)

LEMMA NoNoteTyped == NoNote \in NoteRow /\ NoNote.status = "none" /\ NoNote.attempts = 0
  <1>1. (CHOOSE h \in Hooks : TRUE) \in Hooks /\ (CHOOSE t \in Tickets : TRUE) \in Tickets
    BY WebhookOutboxAssumption
  <1> QED
    BY <1>1, WebhookOutboxAssumption DEF NoNote, NoteRow, NoteStatus, Version

LEMMA InitInv == Init => Inv
  <1> SUFFICES ASSUME Init PROVE Inv
    OBVIOUS
  <1>1. TypeOK
    BY NoNoteTyped, IdleTyped, WebhookOutboxAssumption DEF Init, TypeOK, Version
  <1>2. ASSUME NEW n \in NoteId
        PROVE  NoteInv(n)
    BY NoNoteTyped, WebhookOutboxAssumption DEF Init, NoteInv, Exists, NoteId
  <1>3. ASSUME NEW w \in Workers
        PROVE  HeldInv(w)
    <2>1. worker[w].pc = "idle" /\ worker[w].batch = <<>>
      BY DEF Init, Idle, Holding
    <2>2. Len(<<>>) = 0
      BY EmptySeq
    <2> QED
      BY <2>1, <2>2 DEF HeldInv
  <1> QED
    BY <1>1, <1>2, <1>3 DEF Inv

LEMMA SetEnabledInv ==
    ASSUME Inv, NEW h \in Hooks, NEW status \in {"enabled", "disabled"},
           SetEnabled(h, status)
    PROVE  Inv' /\ Stable
  <1>1. TypeOK
    BY DEF Inv
  <1>2. /\ hook' = [hook EXCEPT ![h] = status] /\ hook[h] # "deleted"
        /\ UNCHANGED <<live, result, note, lastId, version, newest,
                       received, requests, worker, faults>>
    BY DEF SetEnabled, queueVars, wireVars
  <1>3. \A g \in Hooks : hook[g] = "deleted" <=> hook'[g] = "deleted"
    BY <1>1, <1>2 DEF TypeOK
  <1>4. Stable
    BY <1>2, <1>3 DEF Stable
  <1>5. TypeOK'
    BY <1>1, <1>2 DEF TypeOK
  <1>6. \A n \in NoteId : NoteInv(n)'
    BY <1>1, <1>2, <1>3 DEF Inv, NoteInv, Exists, TypeOK, NoteRow
  <1>7. \A w \in Workers : HeldInv(w)'
    BY <1>2, <1>4, WorkerKept
  <1> QED
    BY <1>4, <1>5, <1>6, <1>7 DEF Inv

\* Rows that go with the webhook or the ticket they belong to.
LEMMA CascadeInv ==
    ASSUME Inv, NEW gone \in SUBSET NoteId, Cascade(gone),
           hook' \in [Hooks -> {"enabled", "disabled", "deleted"}],
           live' \in SUBSET Tickets,
           UNCHANGED <<result, queueVars, wireVars, worker, faults>>,
           \A h \in Hooks : hook[h] = "deleted" => hook'[h] = "deleted",
           \A n \in NoteId \ gone : hook'[note[n].hook] = "deleted" =>
                                        hook[note[n].hook] = "deleted"
    PROVE  Inv' /\ Stable /\ \A n \in NoteId : Withdrawn(n)
  <1>1. TypeOK
    BY DEF Inv
  <1>2. UNCHANGED <<result, lastId, version, newest, received, requests, worker, faults>>
    BY DEF queueVars, wireVars
  <1>3. ASSUME NEW n \in NoteId
        PROVE  /\ note'[n] \in NoteRow
               /\ note'[n].hook = note[n].hook
               /\ note'[n].payload = note[n].payload
               /\ note'[n].attempts = note[n].attempts
               /\ note'[n].status = IF n \in gone /\ Exists(n) THEN "gone"
                                    ELSE note[n].status
    <2>1. note[n] \in NoteRow
      BY <1>1 DEF TypeOK
    <2>2. CASE n \in gone /\ Exists(n)
      <3>1. note'[n] = [note[n] EXCEPT !.status = "gone"]
        BY <2>2 DEF Cascade
      <3> QED
        BY <2>1, <2>2, <3>1, GoneRow
    <2>3. CASE ~(n \in gone /\ Exists(n))
      <3>1. note'[n] = note[n]
        BY <2>3 DEF Cascade
      <3> QED
        BY <2>1, <2>3, <3>1
    <2> QED
      BY <2>2, <2>3
  <1>4. Stable
    BY <1>2, <1>3 DEF Stable
  <1>5. note' \in [NoteId -> NoteRow]
    BY <1>3 DEF Cascade
  <1>6. TypeOK'
    BY <1>1, <1>2, <1>5 DEF TypeOK
  <1>7. ASSUME NEW n \in NoteId
        PROVE  NoteInv(n)'
    <2>1. NoteInv(n)
      BY DEF Inv
    <2> QED
      BY <1>2, <1>3, <2>1 DEF NoteInv, Exists
  <1>8. \A w \in Workers : HeldInv(w)'
    BY <1>2, <1>4, WorkerKept
  <1>9. \A n \in NoteId : Withdrawn(n)
    BY <1>3 DEF Withdrawn
  <1> QED
    BY <1>4, <1>6, <1>7, <1>8, <1>9 DEF Inv

LEMMA DeleteWebhookInv ==
    ASSUME Inv, NEW h \in Hooks, DeleteWebhook(h)
    PROVE  Inv' /\ Stable /\ \A n \in NoteId : Withdrawn(n)
  <1>1. TypeOK
    BY DEF Inv
  <1>2. /\ hook' = [hook EXCEPT ![h] = "deleted"]
        /\ Cascade({n \in NoteId : note[n].hook = h})
        /\ UNCHANGED <<live, result, queueVars, wireVars, worker, faults>>
    BY DEF DeleteWebhook
  <1>3. \A n \in NoteId : note[n].hook \in Hooks
    BY <1>1 DEF TypeOK, NoteRow
  <1>4. \A n \in NoteId \ {m \in NoteId : note[m].hook = h} :
            hook'[note[n].hook] = hook[note[n].hook]
    BY <1>1, <1>2, <1>3 DEF TypeOK
  <1>5. \A g \in Hooks : hook[g] = "deleted" => hook'[g] = "deleted"
    BY <1>1, <1>2 DEF TypeOK
  <1>6. hook' \in [Hooks -> {"enabled", "disabled", "deleted"}] /\ live' \in SUBSET Tickets
    BY <1>1, <1>2 DEF TypeOK
  <1> QED
    BY <1>2, <1>4, <1>5, <1>6, CascadeInv

LEMMA DeleteTicketInv ==
    ASSUME Inv, NEW t \in Tickets, DeleteTicket(t)
    PROVE  Inv' /\ Stable /\ \A n \in NoteId : Withdrawn(n)
  BY CascadeInv DEF DeleteTicket, Inv, TypeOK

-----------------------------------------------------------------------------
(* Rows written by a projection and by a claim.                            *)

\* A projection rewrites only rows that were never attempted.
LEMMA EnqueueInv ==
    ASSUME Inv, NEW t \in Tickets, NEW targets \in SUBSET Hooks, Enqueue(t, targets)
    PROVE  Inv' /\ Stable /\ \A n \in NoteId : Queued(n)
  <1> DEFINE reused == {h \in targets : \E n \in NoteId : Coalescable(n, h, t)}
             fresh  == targets \ reused
             size   == Cardinality(fresh)
             ids    == lastId + 1 .. lastId + size
  <1>1. TypeOK /\ version \in Nat /\ version < MaxVersions /\ lastId \in Nat
    BY WebhookOutboxAssumption DEF Inv, TypeOK, Enqueue, Version
  <1>2. /\ \A h \in targets : hook[h] # "deleted"
        /\ ids \subseteq NoteId
        /\ lastId' = lastId + size
        /\ version' = version + 1
        /\ newest' = [h \in Hooks |-> IF h \in targets
                                      THEN [newest[h] EXCEPT ![t] = version + 1]
                                      ELSE newest[h]]
        /\ UNCHANGED <<hook, live, result, received, requests, worker, faults>>
    BY DEF Enqueue, tableVars, wireVars
  <1>3. PICK due \in BOOLEAN :
        \E owner \in [ids -> fresh] :
        \E old \in [reused -> NoteId] :
           /\ \A h \in fresh : \E n \in ids : owner[n] = h
           /\ \A h \in reused :
                  /\ Coalescable(old[h], h, t)
                  /\ \A n \in NoteId :
                         Coalescable(n, h, t) => note[n].created <= note[old[h]].created
           /\ note' = [n \in NoteId |->
                  IF n \in ids THEN NewNote(owner[n], t, due)
                  ELSE IF \E h \in reused : old[h] = n
                       THEN Rewritten(note[n], version + 1, due)
                       ELSE note[n]]
    BY Zenon DEF Enqueue
  <1>4. PICK owner \in [ids -> fresh] :
        \E old \in [reused -> NoteId] :
           /\ \A h \in fresh : \E n \in ids : owner[n] = h
           /\ \A h \in reused : Coalescable(old[h], h, t)
           /\ note' = [n \in NoteId |->
                  IF n \in ids THEN NewNote(owner[n], t, due)
                  ELSE IF \E h \in reused : old[h] = n
                       THEN Rewritten(note[n], version + 1, due)
                       ELSE note[n]]
    BY <1>3
  <1>5. PICK old \in [reused -> NoteId] :
           /\ \A h \in fresh : \E n \in ids : owner[n] = h
           /\ \A h \in reused : Coalescable(old[h], h, t)
           /\ note' = [n \in NoteId |->
                  IF n \in ids THEN NewNote(owner[n], t, due)
                  ELSE IF \E h \in reused : old[h] = n
                       THEN Rewritten(note[n], version + 1, due)
                       ELSE note[n]]
    BY <1>4
  <1>6. /\ fresh \subseteq Hooks
        /\ \A h \in fresh : hook[h] # "deleted"
        /\ version + 1 \in Version
    BY <1>1, <1>2, WebhookOutboxAssumption DEF Version
  <1>7. size \in Nat
    <2>1. IsFiniteSet(fresh)
      BY <1>6, FS_Subset, WebhookOutboxAssumption
    <2> QED
      BY <2>1, FS_CardinalityType
  <1> HIDE DEF fresh, reused, size
  <1>8. lastId' \in 0..MaxNotes
    <2>1. CASE size = 0
      BY <1>1, <1>2, <2>1 DEF Inv, TypeOK
    <2>2. CASE size # 0
      <3>1. lastId + size \in ids
        BY <1>1, <1>7, <2>2
      <3> QED
        BY <1>2, <1>7, <3>1 DEF NoteId
    <2> QED
      BY <2>1, <2>2
  <1>9. \A n \in ids : n \in NoteId /\ n > lastId /\ ~(n > lastId')
    BY <1>1, <1>2, <1>7 DEF NoteId
  <1>10. \A n \in NoteId \ ids : n > lastId <=> n > lastId'
    BY <1>1, <1>2, <1>7 DEF NoteId
  <1> HIDE DEF ids
  <1>11. ASSUME NEW n \in ids
         PROVE  /\ note'[n] \in NoteRow
                /\ hook[note'[n].hook] # "deleted"
                /\ note'[n].status = "pending"
                /\ note'[n].attempts = 0
                /\ note[n].status = "none"
                /\ received[n] = {}
    <2>1. note'[n] = NewNote(owner[n], t, due) /\ owner[n] \in fresh
      BY <1>5, <1>9
    <2>2. NoteInv(n) /\ n > lastId
      BY <1>9 DEF Inv
    <2>3. note[n].status = "none" /\ received[n] = {}
      BY <2>2 DEF NoteInv
    <2>4. NewNote(owner[n], t, due) \in NoteRow
      BY <1>1, <1>6, <2>1 DEF NewNote, NoteRow, NoteStatus
    <2> QED
      BY <1>6, <2>1, <2>3, <2>4 DEF NewNote
  <1>12. ASSUME NEW n \in NoteId \ ids, note'[n] # note[n]
         PROVE  /\ note'[n] \in NoteRow
                /\ note'[n].hook = note[n].hook
                /\ note'[n].status = note[n].status
                /\ note'[n].attempts = note[n].attempts
                /\ note[n].status = "pending"
                /\ note[n].attempts = 0
                /\ received[n] = {}
    <2>1. note'[n] = IF \E h \in reused : old[h] = n
                     THEN Rewritten(note[n], version + 1, due)
                     ELSE note[n]
      BY <1>5
    <2>2. /\ note'[n] = Rewritten(note[n], version + 1, due)
          /\ \E h \in reused : Coalescable(n, h, t)
      BY <1>5, <1>12, <2>1
    <2>3. note[n].status = "pending" /\ note[n].attempts = 0
      BY <2>2 DEF Coalescable
    <2>4. note[n] \in NoteRow /\ received[n] = {}
      BY <1>1, <2>3 DEF Inv, TypeOK, NoteInv
    <2> QED
      BY <1>6, <2>2, <2>3, <2>4, RewrittenRow
  <1>13. \A n \in NoteId : note'[n] \in NoteRow
    BY <1>1, <1>11, <1>12 DEF TypeOK
  <1>14. note' \in [NoteId -> NoteRow]
    <2>1. DOMAIN note' = NoteId /\ note' = [n \in NoteId |-> note'[n]]
      BY <1>5
    <2> QED
      BY <1>13, <2>1
  <1>15. newest' \in [Hooks -> [Tickets -> Version]]
    BY <1>1, <1>2, <1>6 DEF TypeOK
  <1>16. TypeOK'
    BY <1>1, <1>2, <1>6, <1>8, <1>14, <1>15 DEF TypeOK
  <1>17. Stable
    BY <1>2, <1>11, <1>12 DEF Stable
  <1>18. ASSUME NEW n \in NoteId
         PROVE  NoteInv(n)'
    <2>1. NoteInv(n)
      BY DEF Inv
    <2>2. CASE n \in ids
      BY <1>2, <1>9, <1>11, <2>2 DEF NoteInv, Exists
    <2>3. CASE n \notin ids /\ note'[n] = note[n]
      BY <1>2, <1>10, <2>1, <2>3 DEF NoteInv, Exists
    <2>4. CASE n \notin ids /\ note'[n] # note[n]
      BY <1>2, <1>10, <1>12, <2>1, <2>4 DEF NoteInv, Exists
    <2> QED
      BY <2>2, <2>3, <2>4
  <1>19. \A w \in Workers : HeldInv(w)'
    BY <1>2, <1>17, WorkerKept
  <1>20. \A n \in NoteId : Queued(n)
    BY <1>11, <1>12 DEF Queued
  <1> QED
    BY <1>16, <1>17, <1>18, <1>19, <1>20 DEF Inv

\* A claim counts the attempt of every row it takes, and copies it.
LEMMA ClaimInv ==
    ASSUME Inv, NEW w \in Workers, Claim(w)
    PROVE  Inv' /\ Stable /\ Sole(w)' /\ \A n \in NoteId : ClaimedOrKept(n)
  <1>1. TypeOK
    BY DEF Inv
  <1>2. /\ worker[w].pc = "idle"
        /\ UNCHANGED <<hook, live, result, lastId, version, newest,
                       received, requests, faults>>
    BY DEF Claim, tableVars, queueVars, wireVars
  <1>3. PICK k \in 1..BatchSize :
        \E ids \in [1..k -> ClaimableIds] :
           /\ IsNextBatch(ids)
           /\ note' = [n \in NoteId |-> IF \E i \in 1..k : ids[i] = n
                                        THEN Taken(note[n])
                                        ELSE note[n]]
           /\ worker' = [worker EXCEPT ![w] = Holding("load",
                  [i \in 1..k |-> [id |-> ids[i], hook |-> note[ids[i]].hook,
                                   payload |-> note[ids[i]].payload]])]
    BY DEF Claim
  <1>4. PICK ids \in [1..k -> ClaimableIds] :
           /\ IsNextBatch(ids)
           /\ note' = [n \in NoteId |-> IF \E i \in 1..k : ids[i] = n
                                        THEN Taken(note[n])
                                        ELSE note[n]]
           /\ worker' = [worker EXCEPT ![w] = Holding("load",
                  [i \in 1..k |-> [id |-> ids[i], hook |-> note[ids[i]].hook,
                                   payload |-> note[ids[i]].payload]])]
    BY <1>3
  <1> DEFINE batch == [i \in 1..k |-> [id |-> ids[i], hook |-> note[ids[i]].hook,
                                       payload |-> note[ids[i]].payload]]
             chosen == {n \in NoteId : \E i \in 1..k : ids[i] = n}
  <1>5. \A i \in 1..k : ids[i] \in NoteId /\ Claimable(ids[i])
    BY <1>4 DEF ClaimableIds
  <1>6. \A n \in NoteId : note[n] \in NoteRow
    BY <1>1 DEF TypeOK
  <1>7. batch \in [1..k -> Copy]
    BY <1>5, <1>6 DEF Copy, NoteRow
  <1>8. k \in Nat /\ batch \in Seq(Copy) /\ Len(batch) = k /\ batch # <<>>
    <2>1. k \in Nat \ {0}
      BY <1>3, WebhookOutboxAssumption
    <2>2. batch \in Seq(Copy) /\ Len(batch) = k
      BY <1>7, <2>1, BatchIsSeq
    <2>3. Len(<<>>) = 0
      BY EmptySeq
    <2> HIDE DEF batch
    <2>4. batch # <<>>
      BY <2>1, <2>2, <2>3
    <2> QED
      BY <2>1, <2>2, <2>4
  <1>9. ASSUME NEW n \in NoteId
        PROVE  /\ note'[n] \in NoteRow
               /\ note'[n].hook = note[n].hook
               /\ note'[n].payload = note[n].payload
               /\ n \in chosen => /\ note'[n].status = "sending"
                                  /\ note'[n].attempts # 0
                                  /\ note[n].status \in {"pending", "sending"}
               /\ n \notin chosen => note'[n] = note[n]
    <2>1. CASE n \in chosen
      <3>1. note'[n] = Taken(note[n])
        BY <1>4, <2>1
      <3>2. Claimable(n)
        BY <1>5, <2>1
      <3>3. note[n].attempts \in Nat
        BY <1>6 DEF NoteRow
      <3> QED
        BY <1>6, <2>1, <3>1, <3>2, <3>3, TakenRow DEF Claimable
    <2>2. CASE n \notin chosen
      BY <1>4, <1>6, <2>2
    <2> QED
      BY <2>1, <2>2
  <1>10. note' \in [NoteId -> NoteRow]
    <2>1. note' = [n \in NoteId |-> note'[n]]
      BY <1>4
    <2> QED
      BY <1>9, <2>1
  <1>11. worker' = [worker EXCEPT ![w] = Holding("load", batch)]
    BY <1>4
  <1>12. \A i \in 1..k : CopyNext(batch[i])
    <2> SUFFICES ASSUME NEW i \in 1..k
                 PROVE  CopyNext(batch[i])
      OBVIOUS
    <2>1. /\ batch[i].id = ids[i]
          /\ batch[i].hook = note[ids[i]].hook
          /\ batch[i].payload = note[ids[i]].payload
      OBVIOUS
    <2>2. ids[i] \in chosen /\ ids[i] \in NoteId
      BY <1>5
    <2> HIDE DEF batch, chosen
    <2> QED
      BY <1>9, <2>1, <2>2 DEF CopyNext
  <1>13. ASSUME NEW i \in 1..k, NEW j \in 1..k, i # j
          PROVE  ids[i] # ids[j]
    <2>1. DOMAIN ids = 1..k /\ i \in Int /\ j \in Int
      BY <1>4
    <2>2. i < j \/ j < i
      BY <1>13, <2>1
    <2> QED
      BY <1>4, <2>1, <2>2 DEF IsNextBatch
  <1>14. \A i \in 1..k : batch[i].id = ids[i] /\ ids[i] \in chosen
    BY <1>5
  <1> HIDE DEF batch
  <1>15. worker' \in [Workers -> WorkerState]
    BY <1>1, <1>8, <1>11, HoldingTyped DEF TypeOK
  <1>16. TypeOK'
    BY <1>1, <1>2, <1>10, <1>15 DEF TypeOK
  <1>17. Stable
    BY <1>2, <1>6, <1>9 DEF Stable, NoteRow
  <1>18. ASSUME NEW n \in NoteId
         PROVE  NoteInv(n)'
    <2>1. NoteInv(n)
      BY DEF Inv
    <2> QED
      BY <1>2, <1>9, <2>1 DEF NoteInv, Exists
  <1>19. ASSUME NEW v \in Workers
         PROVE  HeldInv(v)'
    <2>1. CASE v = w
      <3>1. worker'[w].pc = "load" /\ worker'[w].batch = batch
        BY <1>1, <1>11 DEF TypeOK, Holding
      <3> QED
        BY <1>8, <1>12, <2>1, <3>1 DEF HeldInv, CopyInv, CopyNext
    <2>2. CASE v # w
      <3>1. worker'[v] = worker[v]
        BY <1>1, <1>11, <2>2 DEF TypeOK
      <3> QED
        BY <1>17, <3>1, WorkerKept
    <2> QED
      BY <2>1, <2>2
  <1>20. Sole(w)'
    <2>1. worker'[w].batch = batch
      BY <1>1, <1>11 DEF TypeOK, Holding
    <2> HIDE DEF chosen
    <2>2. \A i \in 1..k : note'[batch[i].id].status = "sending"
      BY <1>5, <1>9, <1>14
    <2> QED
      BY <1>8, <1>13, <1>14, <2>1, <2>2 DEF Sole
  <1>21. \A n \in NoteId : ClaimedOrKept(n)
    BY <1>9 DEF ClaimedOrKept
  <1> QED
    BY <1>16, <1>17, <1>18, <1>19, <1>20, <1>21 DEF Inv

-----------------------------------------------------------------------------
(* The steps of a worker with its batch.                                   *)

\* A row that exists gets another status or other flags.
LEMMA OneRow ==
    ASSUME Inv, NEW n \in NoteId, Exists(n), NEW r \in NoteRow,
           note' = [note EXCEPT ![n] = r],
           UNCHANGED <<hook, lastId, received>>,
           r.hook = note[n].hook,
           r.payload = note[n].payload,
           r.attempts = note[n].attempts,
           r.status \in {"pending", "sent", "failed", note[n].status},
           r.status = "sent" => r.payload \in received[n]
    PROVE  /\ note' \in [NoteId -> NoteRow]
           /\ \A m \in NoteId : NoteInv(m)'
           /\ Stable
  <1>1. TypeOK /\ note[n] \in NoteRow /\ NoteInv(n)
    BY DEF Inv, TypeOK
  <1>2. note' \in [NoteId -> NoteRow]
    BY <1>1 DEF TypeOK
  <1>3. note'[n] = r /\ \A m \in NoteId \ {n} : note'[m] = note[m]
    BY <1>1 DEF TypeOK
  <1>4. r.status \notin {"none", "gone"}
    BY DEF Exists
  <1>5. NoteInv(n)'
    BY <1>1, <1>3, <1>4 DEF NoteInv, Exists
  <1>6. \A m \in NoteId \ {n} : NoteInv(m)'
    BY <1>3, NoteKept
  <1>7. Stable
    BY <1>3, <1>4 DEF Stable, Exists
  <1> QED
    BY <1>2, <1>5, <1>6, <1>7

\* A mark: at most one row changes, and the worker goes on.
LEMMA MarkKeeps ==
    ASSUME Inv, NEW w \in Workers, worker[w].pc # "idle", NextInBatch(w), Stable,
           note' \in [NoteId -> NoteRow], \A n \in NoteId : NoteInv(n)',
           UNCHANGED <<tableVars, result, queueVars, wireVars>>,
           faults' \in 0..MaxFaults
    PROVE  Inv'
  <1>1. UNCHANGED <<hook, live, lastId, version, newest, received, requests>>
    BY DEF tableVars, queueVars, wireVars
  <1>2. worker' \in [Workers -> WorkerState] /\ \A v \in Workers : HeldInv(v)'
    BY NextInBatchKeeps
  <1>3. TypeOK'
    BY <1>1, <1>2 DEF Inv, TypeOK
  <1> QED
    BY <1>2, <1>3 DEF Inv

\* A worker that only moves to another place in its code.
LEMMA GotoKeeps ==
    ASSUME Inv, NEW w \in Workers, worker[w].pc # "idle",
           NEW pc \in {"deliver", "sent", "read"}, Goto(w, pc),
           UNCHANGED <<tableVars, note, queueVars, wireVars>>,
           result' \in [Hooks -> {"none", "ok", "error"}],
           faults' \in 0..MaxFaults,
           pc = "sent" => \/ Current(w).payload \in received[Current(w).id]
                          \/ hook[Current(w).hook] = "deleted"
    PROVE  Inv' /\ Stable
  <1> DEFINE local == [worker[w] EXCEPT !.pc = pc]
  <1>1. UNCHANGED <<hook, note, received>>
    BY DEF tableVars, wireVars
  <1>2. Stable
    BY <1>1, StableIfSame
  <1>3. worker[w] \in WorkerState
    BY CurrentNote
  <1>4. local \in WorkerState /\ local.pc = pc /\ local.batch = worker[w].batch
    BY <1>3 DEF WorkerState
  <1>5. worker' = [worker EXCEPT ![w] = local]
    BY DEF Goto
  <1> HIDE DEF local
  <1>6. worker' \in [Workers -> WorkerState] /\ \A v \in Workers : HeldInv(v)'
    BY <1>1, <1>2, <1>4, <1>5, SameNote
  <1> QED
    BY <1>2, <1>6, OnlyWorker

LEMMA LoadInv ==
    ASSUME Inv, NEW w \in Workers, Load(w)
    PROVE  Inv' /\ Stable
  <1>1. TypeOK
    BY DEF Inv
  <1>2. result' \in [Hooks -> {"none", "ok", "error"}] /\ faults' \in 0..MaxFaults
    BY <1>1 DEF Load, TypeOK
  <1> DEFINE pc == IF Missing(Current(w).hook) THEN "sent" ELSE "deliver"
  <1>3. pc = "sent" => hook[Current(w).hook] = "deleted"
    BY DEF Missing
  <1>4. /\ worker[w].pc # "idle" /\ Goto(w, pc) /\ pc \in {"deliver", "sent", "read"}
        /\ UNCHANGED <<tableVars, note, queueVars, wireVars>>
    BY DEF Load
  <1> HIDE DEF pc
  <1> QED
    BY <1>2, <1>3, <1>4, GotoKeeps

\* The request carries the payload that the row still has.
LEMMA DeliverInv ==
    ASSUME Inv, NEW w \in Workers, Deliver(w)
    PROVE  Inv' /\ Stable
  <1> DEFINE n == Current(w).id
             p == Current(w).payload
  <1>1. /\ worker[w].pc # "idle"
        /\ UNCHANGED <<hook, live, result, note, lastId, version, newest, faults>>
        /\ requests' = [requests EXCEPT ![n] = @ + 1]
    BY DEF Deliver, tableVars, queueVars
  <1>2. /\ worker[w] \in WorkerState /\ n \in NoteId /\ note[n] \in NoteRow
        /\ NoteInv(n) /\ CopyInv(Current(w)) /\ TypeOK
    BY <1>1, CurrentNote DEF Inv
  <1>3. p = note[n].payload /\ note[n].attempts # 0 /\ p \in Version
    BY <1>2 DEF CopyInv, NoteRow
  <1>4. PICK reached \in BOOLEAN : \E ok \in {FALSE, reached} :
           /\ received' = IF reached
                          THEN [received EXCEPT ![n] = @ \cup {p}]
                          ELSE received
           /\ worker' = [worker EXCEPT ![w].pc = "record", ![w].ok = ok]
    BY DEF Deliver
  <1>5. PICK ok \in {FALSE, reached} :
           /\ received' = IF reached
                          THEN [received EXCEPT ![n] = @ \cup {p}]
                          ELSE received
           /\ worker' = [worker EXCEPT ![w].pc = "record", ![w].ok = ok]
    BY <1>4
  <1> HIDE DEF n, p
  <1>6. /\ received' \in [NoteId -> SUBSET Version]
        /\ \A m \in NoteId : received[m] \subseteq received'[m]
        /\ \A m \in NoteId \ {n} : received'[m] = received[m]
        /\ received'[n] \subseteq received[n] \cup {p}
        /\ reached => p \in received'[n]
    BY <1>2, <1>3, <1>5 DEF TypeOK
  <1>7. requests' \in [NoteId -> Nat]
    BY <1>1, <1>2 DEF TypeOK
  <1>8. Stable
    BY <1>1, <1>6 DEF Stable
  <1>9. ASSUME NEW m \in NoteId, m = n
        PROVE  NoteInv(m)'
    BY <1>1, <1>2, <1>3, <1>6, <1>9 DEF NoteInv, Exists
  <1>10. ASSUME NEW m \in NoteId, m # n
         PROVE  NoteInv(m)'
    BY <1>1, <1>6, <1>10, NoteKept
  <1> DEFINE local == [[worker[w] EXCEPT !.pc = "record"] EXCEPT !.ok = ok]
  <1>11. /\ local \in WorkerState /\ local.pc = "record" /\ local.ok = ok
         /\ local.batch = worker[w].batch
    BY <1>2 DEF WorkerState
  <1>12. worker' = [worker EXCEPT ![w] = local]
    BY <1>2, <1>5 DEF TypeOK
  <1> HIDE DEF local
  <1>13. (local.pc = "record" /\ local.ok) =>
             Current(w).payload \in received'[Current(w).id]
    BY <1>6, <1>11 DEF n, p
  <1>14. worker' \in [Workers -> WorkerState] /\ \A v \in Workers : HeldInv(v)'
    BY <1>1, <1>8, <1>11, <1>12, <1>13, SameNote
  <1>15. TypeOK'
    BY <1>1, <1>2, <1>6, <1>7, <1>14 DEF TypeOK
  <1> QED
    BY <1>8, <1>9, <1>10, <1>14, <1>15 DEF Inv

\* What AfterRecord needs to know of a delivery.
LEMMA AfterRecordKnows ==
    ASSUME Inv, NEW w \in Workers, worker[w].pc = "record"
    PROVE  /\ AfterRecord(worker[w].ok) \in {"deliver", "sent", "read"}
           /\ AfterRecord(worker[w].ok) = "sent" =>
                  Current(w).payload \in received[Current(w).id]
  BY DEF AfterRecord, Inv, HeldInv

LEMMA RecordInv ==
    ASSUME Inv, NEW w \in Workers, Record(w)
    PROVE  Inv' /\ Stable
  <1>1. /\ worker[w].pc = "record"
        /\ Goto(w, AfterRecord(worker[w].ok))
        /\ UNCHANGED <<tableVars, note, queueVars, wireVars>>
        /\ UNCHANGED faults
    BY DEF Record
  <1>2. Current(w).hook \in Hooks
    BY <1>1, CurrentNote
  <1>3. result' \in [Hooks -> {"none", "ok", "error"}] /\ faults' \in 0..MaxFaults
    BY <1>1, <1>2 DEF Record, Inv, TypeOK
  <1> QED
    BY <1>1, <1>3, AfterRecordKnows, GotoKeeps

LEMMA MarkSentInv ==
    ASSUME Inv, NEW w \in Workers, MarkSent(w)
    PROVE  Inv' /\ Stable
  <1> DEFINE n == Current(w).id
  <1>1. /\ worker[w].pc = "sent" /\ NextInBatch(w)
        /\ UNCHANGED <<tableVars, result, queueVars, wireVars, faults>>
        /\ UNCHANGED <<hook, lastId, received>>
    BY DEF MarkSent, tableVars, queueVars, wireVars
  <1>2. /\ n \in NoteId /\ CopyInv(Current(w)) /\ note[n] \in NoteRow
        /\ NoteInv(n) /\ HeldInv(w) /\ TypeOK
    BY <1>1, CurrentNote DEF Inv
  <1>3. faults' \in 0..MaxFaults
    BY <1>1, <1>2 DEF TypeOK
  <1>4. CASE Exists(n)
    <2> DEFINE r == [note[n] EXCEPT !.status = "sent", !.leased = FALSE]
    <2>1. note' = [note EXCEPT ![n] = r]
      BY <1>4 DEF MarkSent
    <2>2. /\ r \in NoteRow /\ r.status = "sent" /\ r.attempts = note[n].attempts
          /\ r.hook = note[n].hook /\ r.payload = note[n].payload
      BY <1>2, SentRow
    <2> HIDE DEF r
    <2>3. note[n].payload \in received[n]
      BY <1>1, <1>2, <1>4 DEF HeldInv, CopyInv, NoteInv
    <2>4. /\ note' \in [NoteId -> NoteRow] /\ Stable
          /\ \A m \in NoteId : NoteInv(m)'
      BY <1>1, <1>2, <1>4, <2>1, <2>2, <2>3, OneRow
    <2> QED
      BY <1>1, <1>3, <2>4, MarkKeeps
  <1>5. CASE ~Exists(n)
    <2>1. note' = note
      BY <1>5 DEF MarkSent
    <2>2. Stable
      BY <1>1, <2>1, StableIfSame
    <2>3. note' \in [NoteId -> NoteRow] /\ \A m \in NoteId : NoteInv(m)'
      BY <1>1, <1>2, <2>1, NoteKept DEF TypeOK
    <2> QED
      BY <1>1, <1>3, <2>2, <2>3, MarkKeeps
  <1> QED
    BY <1>4, <1>5

\* A worker leaves its notification without touching the row.
LEMMA SkipInv ==
    ASSUME Inv, NEW w \in Workers, worker[w].pc # "idle", NextInBatch(w),
           UNCHANGED <<tableVars, result, note, queueVars, wireVars>>,
           faults' \in 0..MaxFaults
    PROVE  Inv' /\ Stable
  <1>1. UNCHANGED <<hook, lastId, received, note>>
    BY DEF tableVars, queueVars, wireVars
  <1>2. Stable
    BY <1>1, StableIfSame
  <1>3. note' \in [NoteId -> NoteRow] /\ \A m \in NoteId : NoteInv(m)'
    BY <1>1, NoteKept DEF Inv, TypeOK
  <1> QED
    BY <1>2, <1>3, MarkKeeps

LEMMA ReadAttemptsInv ==
    ASSUME Inv, NEW w \in Workers, ReadAttempts(w)
    PROVE  Inv' /\ Stable
  <1> DEFINE n == Current(w).id
  <1>1. /\ worker[w].pc = "read"
        /\ UNCHANGED <<tableVars, result, note, queueVars, wireVars, faults>>
        /\ UNCHANGED <<hook, note, received>>
    BY DEF ReadAttempts, tableVars, wireVars
  <1>2. worker[w] \in WorkerState /\ n \in NoteId /\ note[n] \in NoteRow /\ TypeOK
    BY <1>1, CurrentNote DEF Inv
  <1>3. faults' \in 0..MaxFaults /\ result' \in [Hooks -> {"none", "ok", "error"}]
    BY <1>1, <1>2 DEF TypeOK
  <1>4. CASE Exists(n)
    <2> DEFINE k     == note[n].attempts
               local == [worker[w] EXCEPT !.pc = "write", !.seen = k]
    <2>1. worker' = [worker EXCEPT ![w] = local]
      BY <1>4 DEF ReadAttempts
    <2>2. k \in Nat
      BY <1>2 DEF NoteRow
    <2> HIDE DEF k
    <2>3. local \in WorkerState /\ local.pc = "write" /\ local.batch = worker[w].batch
      BY <1>2, <2>2 DEF WorkerState
    <2> HIDE DEF local
    <2>4. Stable
      BY <1>1, StableIfSame
    <2>5. worker' \in [Workers -> WorkerState] /\ \A v \in Workers : HeldInv(v)'
      BY <1>1, <2>1, <2>3, <2>4, SameNote
    <2> QED
      BY <1>1, <1>3, <2>4, <2>5, OnlyWorker
  <1>5. CASE ~Exists(n)
    <2>1. NextInBatch(w)
      BY <1>5 DEF ReadAttempts
    <2> QED
      BY <1>1, <1>3, <2>1, SkipInv
  <1> QED
    BY <1>4, <1>5

LEMMA MarkFailedInv ==
    ASSUME Inv, NEW w \in Workers, MarkFailed(w)
    PROVE  Inv' /\ Stable
  <1> DEFINE n == Current(w).id
  <1>1. /\ worker[w].pc = "write" /\ NextInBatch(w)
        /\ UNCHANGED <<tableVars, result, queueVars, wireVars, faults>>
        /\ UNCHANGED <<hook, lastId, received>>
    BY DEF MarkFailed, tableVars, queueVars, wireVars
  <1>2. worker[w] \in WorkerState /\ n \in NoteId /\ note[n] \in NoteRow /\ TypeOK
    BY <1>1, CurrentNote DEF Inv
  <1>3. faults' \in 0..MaxFaults
    BY <1>1, <1>2 DEF TypeOK
  <1>4. CASE Exists(n)
    <2> DEFINE r == Failed(note[n], worker[w].seen)
    <2>1. note' = [note EXCEPT ![n] = r]
      BY <1>4 DEF MarkFailed
    <2>2. worker[w].seen \in Nat
      BY <1>2 DEF WorkerState
    <2>3. /\ r \in NoteRow /\ r.status \in {"failed", "pending"}
          /\ r.attempts = note[n].attempts
          /\ r.hook = note[n].hook /\ r.payload = note[n].payload
      BY <1>2, <2>2, FailedRow
    <2> HIDE DEF r
    <2>4. /\ note' \in [NoteId -> NoteRow] /\ Stable
          /\ \A m \in NoteId : NoteInv(m)'
      BY <1>1, <1>2, <1>4, <2>1, <2>3, OneRow
    <2> QED
      BY <1>1, <1>3, <2>4, MarkKeeps
  <1>5. CASE ~Exists(n)
    <2>1. UNCHANGED note
      BY <1>5 DEF MarkFailed
    <2> QED
      BY <1>1, <1>3, <2>1, SkipInv
  <1> QED
    BY <1>4, <1>5

-----------------------------------------------------------------------------
(* Failures and time.                                                      *)

LEMMA LoadFailsInv ==
    ASSUME Inv, NEW w \in Workers, LoadFails(w)
    PROVE  Inv' /\ Stable
  <1>1. /\ worker[w].pc # "idle" /\ Goto(w, "read") /\ Fault
        /\ UNCHANGED <<tableVars, note, queueVars, wireVars>>
        /\ UNCHANGED result
    BY DEF LoadFails
  <1>2. result' \in [Hooks -> {"none", "ok", "error"}] /\ faults' \in 0..MaxFaults
    BY <1>1, FaultTyped DEF Inv, TypeOK
  <1> QED
    BY <1>1, <1>2, GotoKeeps

LEMMA RecordFailsInv ==
    ASSUME Inv, NEW w \in Workers, RecordFails(w)
    PROVE  Inv' /\ Stable
  <1>1. /\ worker[w].pc = "record" /\ Goto(w, AfterRecord(worker[w].ok)) /\ Fault
        /\ UNCHANGED <<tableVars, note, queueVars, wireVars>>
        /\ UNCHANGED result
    BY DEF RecordFails
  <1>2. result' \in [Hooks -> {"none", "ok", "error"}] /\ faults' \in 0..MaxFaults
    BY <1>1, FaultTyped DEF Inv, TypeOK
  <1> QED
    BY <1>1, <1>2, AfterRecordKnows, GotoKeeps

LEMMA MarkFailsInv ==
    ASSUME Inv, NEW w \in Workers, MarkFails(w)
    PROVE  Inv' /\ Stable
  <1>1. faults' \in 0..MaxFaults
    BY FaultTyped DEF Inv, MarkFails
  <1> QED
    BY <1>1, SkipInv DEF MarkFails

LEMMA CrashInv ==
    ASSUME Inv, NEW w \in Workers, Crash(w)
    PROVE  Inv' /\ Stable
  <1>1. /\ TypeOK /\ Fault
        /\ worker' = [worker EXCEPT ![w] = Idle]
        /\ UNCHANGED <<tableVars, note, queueVars, wireVars>>
        /\ UNCHANGED <<hook, note, received, result>>
    BY DEF Inv, Crash, tableVars, wireVars
  <1>2. result' \in [Hooks -> {"none", "ok", "error"}] /\ faults' \in 0..MaxFaults
    BY <1>1, FaultTyped DEF TypeOK
  <1>3. Stable
    BY <1>1, StableIfSame
  <1>4. worker' \in [Workers -> WorkerState]
    BY <1>1, IdleTyped DEF TypeOK
  <1>5. ASSUME NEW v \in Workers
        PROVE  HeldInv(v)'
    <2>1. CASE v = w
      <3>1. worker'[v] = Idle
        BY <1>1, <2>1 DEF TypeOK
      <3>2. Idle.pc = "idle" /\ Idle.batch = <<>> /\ Len(<<>>) = 0
        BY EmptySeq DEF Idle, Holding
      <3> QED
        BY <3>1, <3>2 DEF HeldInv
    <2>2. CASE v # w
      <3>1. worker'[v] = worker[v]
        BY <1>1, <2>2 DEF TypeOK
      <3> QED
        BY <1>3, <3>1, WorkerKept
    <2> QED
      BY <2>1, <2>2
  <1> QED
    BY <1>1, <1>2, <1>3, <1>4, <1>5, OnlyWorker

\* Time only sets the flags of a row.
LEMMA FlagsInv ==
    ASSUME Inv, NEW n \in NoteId, Exists(n), NEW r \in NoteRow,
           note' = [note EXCEPT ![n] = r],
           r.hook = note[n].hook, r.payload = note[n].payload,
           r.attempts = note[n].attempts, r.status = note[n].status,
           UNCHANGED <<tableVars, result, queueVars, wireVars, worker>>,
           faults' \in 0..MaxFaults
    PROVE  Inv' /\ Stable
  <1>1. UNCHANGED <<hook, live, result, lastId, version, newest, received,
                    requests, worker>>
    BY DEF tableVars, queueVars, wireVars
  <1>2. NoteInv(n)
    BY DEF Inv
  <1>3. /\ note' \in [NoteId -> NoteRow] /\ Stable
        /\ \A m \in NoteId : NoteInv(m)'
    BY <1>1, <1>2, OneRow DEF NoteInv
  <1>4. TypeOK'
    BY <1>1, <1>3 DEF Inv, TypeOK
  <1>5. \A w \in Workers : HeldInv(w)'
    BY <1>1, <1>3, WorkerKept
  <1> QED
    BY <1>3, <1>4, <1>5 DEF Inv

LEMMA LeaseExpiresInv ==
    ASSUME Inv, NEW n \in NoteId, LeaseExpires(n)
    PROVE  Inv' /\ Stable
  <1> DEFINE r == [note[n] EXCEPT !.leased = FALSE]
  <1>1. TypeOK /\ note[n] \in NoteRow /\ Exists(n)
    BY DEF Inv, TypeOK, LeaseExpires, Exists
  <1>2. faults' \in 0..MaxFaults
    BY <1>1, FaultTyped DEF LeaseExpires, TypeOK
  <1>3. /\ r \in NoteRow /\ r.hook = note[n].hook /\ r.payload = note[n].payload
        /\ r.attempts = note[n].attempts /\ r.status = note[n].status
    BY <1>1 DEF NoteRow
  <1>4. note' = [note EXCEPT ![n] = r]
    BY DEF LeaseExpires
  <1> HIDE DEF r
  <1> QED
    BY <1>1, <1>2, <1>3, <1>4, FlagsInv DEF LeaseExpires

LEMMA BecomesDueInv ==
    ASSUME Inv, NEW n \in NoteId, BecomesDue(n)
    PROVE  Inv' /\ Stable
  <1> DEFINE r == [note[n] EXCEPT !.due = TRUE]
  <1>1. TypeOK /\ note[n] \in NoteRow /\ Exists(n)
    BY DEF Inv, TypeOK, BecomesDue, Exists
  <1>2. faults' \in 0..MaxFaults
    BY <1>1 DEF BecomesDue, TypeOK
  <1>3. /\ r \in NoteRow /\ r.hook = note[n].hook /\ r.payload = note[n].payload
        /\ r.attempts = note[n].attempts /\ r.status = note[n].status
    BY <1>1 DEF NoteRow
  <1>4. note' = [note EXCEPT ![n] = r]
    BY DEF BecomesDue
  <1> HIDE DEF r
  <1> QED
    BY <1>1, <1>2, <1>3, <1>4, FlagsInv DEF BecomesDue

LEMMA StepInv ==
    ASSUME Inv, [Next]_vars
    PROVE  Inv' /\ Stable
  <1>1. CASE UNCHANGED vars
    <2>1. UNCHANGED <<hook, live, result, note, lastId, version, newest,
                      received, requests, worker, faults>>
      BY <1>1 DEF vars, tableVars, queueVars, wireVars
    <2>2. Stable
      BY <2>1, StableIfSame
    <2>3. TypeOK'
      BY <2>1 DEF Inv, TypeOK
    <2>4. (\A n \in NoteId : NoteInv(n)') /\ (\A w \in Workers : HeldInv(w)')
      BY <2>1, <2>2, NoteKept, WorkerKept
    <2> QED
      BY <2>2, <2>3, <2>4 DEF Inv
  <1>2. CASE Handler
    BY <1>2, SetEnabledInv, DeleteWebhookInv, DeleteTicketInv, EnqueueInv DEF Handler
  <1>3. ASSUME NEW w \in Workers, Dispatch(w)
        PROVE  Inv' /\ Stable
    BY <1>3, ClaimInv, LoadInv, DeliverInv, RecordInv, MarkSentInv,
       ReadAttemptsInv, MarkFailedInv DEF Dispatch
  <1>4. ASSUME NEW w \in Workers,
               LoadFails(w) \/ RecordFails(w) \/ MarkFails(w) \/ Crash(w)
        PROVE  Inv' /\ Stable
    BY <1>4, LoadFailsInv, RecordFailsInv, MarkFailsInv, CrashInv
  <1>5. ASSUME NEW n \in NoteId, LeaseExpires(n) \/ BecomesDue(n)
        PROVE  Inv' /\ Stable
    BY <1>5, LeaseExpiresInv, BecomesDueInv
  <1> QED
    BY <1>1, <1>2, <1>3, <1>4, <1>5 DEF Next

-----------------------------------------------------------------------------
(* What follows for every behaviour.                                       *)

\* The inductive invariant: the rows, and every copy that a worker holds.
THEOREM Invariance == Spec => []Inv
  <1>1. Inv /\ [Next]_vars => Inv'
    BY StepInv
  <1> QED
    BY InitInv, <1>1, PTL DEF Spec

\* Every variable keeps its type, the workers' copies and batches included.
THEOREM TypeCorrect == Spec => []TypeOK
  <1>1. Inv => TypeOK
    BY DEF Inv
  <1> QED
    BY <1>1, Invariance, PTL

\* No receiver ever sees two contents under one delivery id, although a
\* projection may rewrite a queued notification at any time and two workers
\* may hold copies of it.
THEOREM ContentIsFixed == Spec => []OneContentPerId
  <1>1. Inv => OneContentPerId
    BY DEF Inv, NoteInv, OneContentPerId
  <1> QED
    BY <1>1, Invariance, PTL

\* A row marked sent has reached its receiver as it stands, although the mark
\* looks at nothing but the id.
THEOREM SentMeansReceived == Spec => []SentWasReceived
  <1>1. Inv => SentWasReceived
    BY DEF Inv, NoteInv, SentWasReceived
  <1> QED
    BY <1>1, Invariance, PTL

-----------------------------------------------------------------------------
(* With one worker, WebhookOutbox implements Notification.                 *)

LEMMA SoleIfUnmarked ==
    ASSUME Inv, SoleInv, \A n \in NoteId : Unmarked(n),
           \A w \in Workers : worker'[w].batch = worker[w].batch
    PROVE  SoleInv'
  <1> SUFFICES ASSUME NEW w \in Workers
               PROVE  Sole(w)'
    BY DEF SoleInv
  <1>1. worker[w].batch \in Seq(Copy)
    BY DEF Inv, TypeOK, WorkerState
  <1>2. \A i \in 1..Len(worker[w].batch) : worker[w].batch[i].id \in NoteId
    <2>1. \A i \in 1..Len(worker[w].batch) : worker[w].batch[i] \in Copy
      BY <1>1, ElementOfSeq
    <2> QED
      BY <2>1 DEF Copy
  <1> QED
    BY <1>2, SMTT(30) DEF SoleInv, Sole, Unmarked

LEMMA SoleIfNext ==
    ASSUME Inv, SoleInv, OneWorker, NEW w \in Workers, worker[w].pc # "idle",
           NextInBatch(w), \A n \in NoteId \ {Current(w).id} : Unmarked(n)
    PROVE  SoleInv'
  <1> DEFINE s == worker[w].batch
  <1>1. /\ s \in Seq(Copy) /\ s # <<>> /\ TypeOK /\ Sole(w)
        /\ Current(w) = s[1] /\ 1 \in 1..Len(s)
    BY CurrentNote, TailOfBatch DEF Inv, SoleInv, Current
  <1>2. \A i \in 1..Len(s) : s[i].id \in NoteId
    <2>1. \A i \in 1..Len(s) : s[i] \in Copy
      BY <1>1, ElementOfSeq
    <2> QED
      BY <2>1 DEF Copy
  <1>3. CASE Len(s) = 1
    <2>1. worker'[w] = Idle
      BY <1>1, <1>3 DEF NextInBatch, TypeOK
    <2>2. Idle.batch = <<>> /\ Len(<<>>) = 0
      BY EmptySeq DEF Idle, Holding
    <2>3. Sole(w)'
      BY <2>1, <2>2 DEF Sole
    <2> QED
      BY <2>3 DEF OneWorker, SoleInv
  <1>4. CASE Len(s) # 1
    <2>1. worker'[w].batch = Tail(s)
      BY <1>1, <1>4 DEF NextInBatch, TypeOK, Holding
    <2>2. ASSUME NEW i \in 1..Len(Tail(s))
          PROVE  /\ Tail(s)[i] = s[i + 1] /\ i + 1 \in 1..Len(s) /\ i + 1 # 1
                 /\ note'[Tail(s)[i].id].status \in {"sending", "gone"}
      <3>1. Tail(s)[i] = s[i + 1] /\ i + 1 \in 1..Len(s) /\ i + 1 # 1
        BY <1>1, TailOfBatch
      <3>2. s[i + 1].id # s[1].id /\ s[i + 1].id \in NoteId
        BY <1>1, <1>2, <3>1 DEF Sole
      <3>3. note[s[i + 1].id].status \in {"sending", "gone"}
        BY <1>1, <3>1 DEF Sole
      <3> QED
        BY <1>1, <3>1, <3>2, <3>3 DEF Unmarked
    <2>3. ASSUME NEW i \in 1..Len(Tail(s)), NEW j \in 1..Len(Tail(s)), i # j
          PROVE  Tail(s)[i].id # Tail(s)[j].id
      <3>1. /\ Tail(s)[i] = s[i + 1] /\ i + 1 \in 1..Len(s)
            /\ Tail(s)[j] = s[j + 1] /\ j + 1 \in 1..Len(s)
        BY <2>2
      <3>2. i + 1 # j + 1
        BY <2>3
      <3> QED
        BY <1>1, <3>1, <3>2 DEF Sole
    <2>4. Sole(w)'
      BY <2>1, <2>2, <2>3 DEF Sole
    <2> QED
      BY <2>4 DEF OneWorker, SoleInv
  <1> QED
    BY <1>3, <1>4

\* The three ways in which a step shows outside.
LEMMA Unseen ==
    ASSUME \A n \in NoteId : /\ PhaseOf(note'[n].status) = PhaseOf(note[n].status)
                             /\ note'[n].payload = note[n].payload,
           received' = received
    PROVE  UNCHANGED Promise!vars
  BY DEF Promise!vars, phase

LEMMA InitSole == Init => SoleInv
  <1>1. Idle.batch = <<>> /\ Len(<<>>) = 0
    BY EmptySeq DEF Idle, Holding
  <1> QED
    BY <1>1 DEF Init, SoleInv, Sole

LEMMA InitPromise == Init => Promise!Init
  <1> SUFFICES ASSUME Init PROVE Promise!Init
    OBVIOUS
  <1>1. phase = [n \in NoteId |-> "unborn"]
    BY NoNoteTyped DEF Init, phase, PhaseOf
  <1>2. [n \in NoteId |-> note[n].payload] \in [NoteId -> Version]
    BY NoNoteTyped DEF Init, NoteRow
  <1> QED
    BY <1>1, <1>2 DEF Init, Promise!Init

LEMMA PhaseIs ==
    /\ PhaseOf("none") = "unborn"
    /\ PhaseOf("pending") = "open"
    /\ PhaseOf("sending") = "open"
    /\ PhaseOf("sent") = "delivered"
    /\ PhaseOf("failed") = "abandoned"
    /\ PhaseOf("gone") = "withdrawn"
  BY DEF PhaseOf

\* A step that nobody outside sees.
LEMMA HiddenStep ==
    ASSUME UNCHANGED Promise!vars
    PROVE  [Promise!Next]_(Promise!vars)
  OBVIOUS

\* A step that publishes, withdraws, transmits, confirms or abandons.
LEMMA EnqueueRefines ==
    ASSUME Inv, NEW t \in Tickets, NEW targets \in SUBSET Hooks, Enqueue(t, targets)
    PROVE  Promise!Next
  <1> DEFINE born    == {n \in NoteId : note[n].status = "none" /\ note'[n].status = "pending"}
             revised == {n \in NoteId : note[n].status = "pending" /\ received[n] = {}}
  <1>1. (\A n \in NoteId : Queued(n)) /\ TypeOK'
    BY EnqueueInv DEF Inv
  <1>2. received' = received
    BY DEF Enqueue, wireVars
  <1>3. born \in SUBSET Promise!Unborn /\ revised \in SUBSET Promise!Revisable
    BY DEF Promise!Unborn, Promise!Revisable, phase, PhaseOf
  <1>4. phase' = [n \in NoteId |-> IF n \in born THEN "open" ELSE phase[n]]
    <2>1. \A n \in NoteId : PhaseOf(note'[n].status) =
                                IF n \in born THEN "open" ELSE PhaseOf(note[n].status)
      BY <1>1, PhaseIs DEF Queued
    <2> HIDE DEF born
    <2> QED
      BY <2>1 DEF phase
  <1>5. [n \in NoteId |-> note'[n].payload] \in [NoteId -> Version]
    BY <1>1 DEF TypeOK, NoteRow
  <1>6. \A n \in NoteId \ (born \cup revised) : note'[n].payload = note[n].payload
    BY <1>1 DEF Queued
  <1> HIDE DEF born, revised
  <1>7. Promise!Publish
    BY <1>2, <1>3, <1>4, <1>5, <1>6 DEF Promise!Publish
  <1> QED
    BY <1>7 DEF Promise!Next

LEMMA WithdrawRefines ==
    ASSUME Inv, \A n \in NoteId : Withdrawn(n), received' = received
    PROVE  Promise!Next
  <1> DEFINE gone == {n \in NoteId : Exists(n) /\ note'[n].status = "gone"}
  <1>1. gone \in SUBSET (NoteId \ Promise!Unborn)
    <2>1. ASSUME NEW n \in gone
          PROVE  PhaseOf(note[n].status) # "unborn"
      <3>1. note[n].status \in NoteStatus
        BY DEF Inv, TypeOK, NoteRow
      <3>2. note[n].status \in {"pending", "sending", "sent", "failed"}
        BY <3>1 DEF NoteStatus, Exists
      <3> QED
        BY <3>2, PhaseIs
    <2> QED
      BY <2>1 DEF Promise!Unborn, phase
  <1>2. phase' = [n \in NoteId |-> IF n \in gone THEN "withdrawn" ELSE phase[n]]
    <2>1. \A n \in NoteId : PhaseOf(note'[n].status) =
                                IF n \in gone THEN "withdrawn" ELSE PhaseOf(note[n].status)
      BY PhaseIs DEF Withdrawn
    <2> HIDE DEF gone
    <2> QED
      BY <2>1 DEF phase
  <1>3. [n \in NoteId |-> note'[n].payload] = [n \in NoteId |-> note[n].payload]
    BY DEF Withdrawn
  <1> HIDE DEF gone
  <1>4. Promise!Withdraw
    BY <1>1, <1>2, <1>3 DEF Promise!Withdraw
  <1> QED
    BY <1>4 DEF Promise!Next

LEMMA DeliverRefines ==
    ASSUME Inv, SoleInv, NEW w \in Workers, Deliver(w)
    PROVE  [Promise!Next]_(Promise!vars)
  <1> DEFINE n == Current(w).id
  <1>1. worker[w].pc # "idle" /\ note' = note
    BY DEF Deliver
  <1>2. /\ worker[w].batch \in Seq(Copy) /\ worker[w].batch # <<>>
        /\ n \in NoteId /\ CopyInv(Current(w))
    BY <1>1, CurrentNote
  <1>3. n = worker[w].batch[1].id /\ 1 \in 1..Len(worker[w].batch)
    BY <1>2, TailOfBatch DEF Current
  <1>4. note[n].status \in {"sending", "gone"}
    BY <1>3 DEF SoleInv, Sole
  <1>5. phase[n] \in {"open", "withdrawn"}
    BY <1>2, <1>4 DEF phase, PhaseOf
  <1>6. \/ received' = received
        \/ received' = [received EXCEPT ![n] = @ \cup {note[n].payload}]
    BY <1>2 DEF Deliver, CopyInv
  <1>7. CASE received' = received
    BY <1>1, <1>7, Unseen
  <1>8. CASE received' = [received EXCEPT ![n] = @ \cup {note[n].payload}]
    <2>1. Promise!Transmit(n)
      BY <1>1, <1>2, <1>5, <1>8 DEF Promise!Transmit, phase
    <2> QED
      BY <1>2, <2>1 DEF Promise!Next
  <1> QED
    BY <1>6, <1>7, <1>8

\* Steps that touch no row and reach no receiver.
LEMMA QuietMove ==
    ASSUME Inv, SoleInv, UNCHANGED <<note, received>>,
           \A w \in Workers : worker'[w].batch = worker[w].batch
    PROVE  SoleInv' /\ UNCHANGED Promise!vars
  BY SoleIfUnmarked, Unseen DEF Unmarked

LEMMA QuietGoto ==
    ASSUME Inv, SoleInv, UNCHANGED <<note, received>>,
           NEW w \in Workers, NEW pc, Goto(w, pc)
    PROVE  SoleInv' /\ UNCHANGED Promise!vars
  <1>1. worker \in [Workers -> WorkerState] /\ worker[w] \in WorkerState
    BY DEF Inv, TypeOK
  <1>2. worker' = [worker EXCEPT ![w].pc = pc]
    BY DEF Goto
  <1>3. \A v \in Workers : worker'[v].batch = worker[v].batch
    BY <1>1, <1>2 DEF WorkerState
  <1> QED
    BY <1>3, QuietMove

LEMMA QuietSkip ==
    ASSUME Inv, SoleInv, OneWorker, UNCHANGED <<note, received>>,
           NEW w \in Workers, worker[w].pc # "idle", NextInBatch(w)
    PROVE  SoleInv' /\ UNCHANGED Promise!vars
  BY SoleIfNext, Unseen DEF Unmarked

\* A mark of the row that the lone worker holds.
LEMMA SoleMark ==
    ASSUME Inv, SoleInv, OneWorker, NEW w \in Workers, worker[w].pc # "idle",
           NextInBatch(w), Exists(Current(w).id), NEW r \in NoteRow,
           note' = [note EXCEPT ![Current(w).id] = r],
           r.payload = note[Current(w).id].payload,
           received' = received
    PROVE  /\ SoleInv'
           /\ note[Current(w).id].status = "sending"
           /\ Current(w).id \in NoteId
           /\ phase' = [phase EXCEPT ![Current(w).id] = PhaseOf(r.status)]
           /\ [n \in NoteId |-> note'[n].payload] = [n \in NoteId |-> note[n].payload]
  <1> DEFINE n == Current(w).id
  <1>1. /\ worker[w].batch \in Seq(Copy) /\ worker[w].batch # <<>> /\ n \in NoteId
        /\ note \in [NoteId -> NoteRow]
    BY CurrentNote DEF Inv, TypeOK
  <1>2. n = worker[w].batch[1].id /\ 1 \in 1..Len(worker[w].batch)
    BY <1>1, TailOfBatch DEF Current
  <1>3. note[n].status = "sending"
    BY <1>2 DEF SoleInv, Sole, Exists
  <1>4. \A m \in NoteId \ {n} : note'[m] = note[m]
    BY <1>1
  <1>5. note'[n] = r
    BY <1>1
  <1>6. SoleInv'
    BY <1>4, SoleIfNext DEF Unmarked
  <1>7. phase' = [phase EXCEPT ![n] = PhaseOf(r.status)]
    BY <1>1, <1>4, <1>5 DEF phase
  <1>8. [m \in NoteId |-> note'[m].payload] = [m \in NoteId |-> note[m].payload]
    BY <1>1, <1>4, <1>5
  <1> QED
    BY <1>1, <1>3, <1>6, <1>7, <1>8

LEMMA MarkSentRefines ==
    ASSUME Inv, SoleInv, OneWorker, NEW w \in Workers, MarkSent(w)
    PROVE  SoleInv' /\ [Promise!Next]_(Promise!vars)
  <1> DEFINE n == Current(w).id
             r == [note[n] EXCEPT !.status = "sent", !.leased = FALSE]
  <1>1. worker[w].pc = "sent" /\ NextInBatch(w) /\ received' = received
    BY DEF MarkSent, wireVars
  <1>2. /\ n \in NoteId /\ note[n] \in NoteRow
        /\ CopyInv(Current(w)) /\ NoteInv(n) /\ HeldInv(w)
    BY <1>1, CurrentNote DEF Inv
  <1>3. r \in NoteRow /\ r.status = "sent" /\ r.payload = note[n].payload
    BY <1>2, SentRow
  <1>4. CASE Exists(n)
    <2>1. note' = [note EXCEPT ![n] = r]
      BY <1>4 DEF MarkSent
    <2>2. note[n].payload \in received[n]
      BY <1>1, <1>2, <1>4 DEF HeldInv, CopyInv, NoteInv
    <2> HIDE DEF r
    <2>3. /\ SoleInv' /\ note[n].status = "sending"
          /\ phase' = [phase EXCEPT ![n] = PhaseOf(r.status)]
          /\ [m \in NoteId |-> note'[m].payload] = [m \in NoteId |-> note[m].payload]
      BY <1>1, <1>3, <1>4, <2>1, SoleMark
    <2>4. phase[n] = "open" /\ PhaseOf(r.status) = "delivered"
      BY <1>2, <1>3, <2>3, PhaseIs DEF phase
    <2>5. Promise!Confirm(n)
      BY <1>1, <1>2, <2>2, <2>3, <2>4 DEF Promise!Confirm
    <2> QED
      BY <1>2, <2>3, <2>5 DEF Promise!Next
  <1>5. CASE ~Exists(n)
    <2>1. note' = note
      BY <1>5 DEF MarkSent
    <2> QED
      BY <1>1, <2>1, QuietSkip
  <1> QED
    BY <1>4, <1>5

LEMMA MarkFailedRefines ==
    ASSUME Inv, SoleInv, OneWorker, NEW w \in Workers, MarkFailed(w)
    PROVE  SoleInv' /\ [Promise!Next]_(Promise!vars)
  <1> DEFINE n == Current(w).id
             r == Failed(note[n], worker[w].seen)
  <1>1. worker[w].pc = "write" /\ NextInBatch(w) /\ received' = received
    BY DEF MarkFailed, wireVars
  <1>2. n \in NoteId /\ note[n] \in NoteRow /\ worker[w] \in WorkerState
    BY <1>1, CurrentNote
  <1>3. /\ r \in NoteRow /\ r.status \in {"failed", "pending"}
        /\ r.payload = note[n].payload
    BY <1>2, FailedRow DEF WorkerState
  <1>4. CASE Exists(n)
    <2>1. note' = [note EXCEPT ![n] = r]
      BY <1>4 DEF MarkFailed
    <2> HIDE DEF r
    <2>2. /\ SoleInv' /\ note[n].status = "sending"
          /\ phase' = [phase EXCEPT ![n] = PhaseOf(r.status)]
          /\ [m \in NoteId |-> note'[m].payload] = [m \in NoteId |-> note[m].payload]
      BY <1>1, <1>3, <1>4, <2>1, SoleMark
    <2>3. phase[n] = "open" /\ phase \in [NoteId -> {phase[m] : m \in NoteId}]
      BY <1>2, <2>2, PhaseIs DEF phase
    <2>4. CASE r.status = "failed"
      <3>1. Promise!Abandon(n)
        BY <1>1, <2>2, <2>3, <2>4, PhaseIs DEF Promise!Abandon
      <3> QED
        BY <1>2, <2>2, <3>1 DEF Promise!Next
    <2>5. CASE r.status = "pending"
      <3>1. phase' = phase
        BY <1>2, <2>2, <2>3, <2>5, PhaseIs
      <3>2. UNCHANGED Promise!vars
        BY <1>1, <2>2, <3>1 DEF Promise!vars
      <3> QED
        BY <2>2, <3>2
    <2> QED
      BY <1>3, <2>4, <2>5
  <1>5. CASE ~Exists(n)
    <2>1. note' = note
      BY <1>5 DEF MarkFailed
    <2> QED
      BY <1>1, <2>1, QuietSkip
  <1> QED
    BY <1>4, <1>5

LEMMA ClaimRefines ==
    ASSUME Inv, SoleInv, OneWorker, NEW w \in Workers, Claim(w)
    PROVE  SoleInv' /\ UNCHANGED Promise!vars
  <1>1. Sole(w)' /\ (\A n \in NoteId : ClaimedOrKept(n)) /\ received' = received
    BY ClaimInv DEF Claim, wireVars
  <1>2. SoleInv'
    BY <1>1 DEF OneWorker, SoleInv
  <1>3. \A n \in NoteId : PhaseOf(note'[n].status) = PhaseOf(note[n].status)
    BY <1>1, PhaseIs DEF ClaimedOrKept
  <1> QED
    BY <1>1, <1>2, <1>3, Unseen DEF ClaimedOrKept

LEMMA CrashRefines ==
    ASSUME Inv, SoleInv, OneWorker, NEW w \in Workers, Crash(w)
    PROVE  SoleInv' /\ UNCHANGED Promise!vars
  <1>1. note' = note /\ received' = received /\ worker'[w] = Idle
    BY DEF Crash, wireVars, Inv, TypeOK
  <1>2. Idle.batch = <<>> /\ Len(<<>>) = 0
    BY EmptySeq DEF Idle, Holding
  <1>3. Sole(w)'
    BY <1>1, <1>2 DEF Sole
  <1>4. SoleInv'
    BY <1>3 DEF OneWorker, SoleInv
  <1> QED
    BY <1>1, <1>4, Unseen

\* Time sets flags: no status, no payload.
LEMMA TimeRefines ==
    ASSUME Inv, SoleInv, NEW n \in NoteId, LeaseExpires(n) \/ BecomesDue(n)
    PROVE  SoleInv' /\ UNCHANGED Promise!vars
  <1>1. note \in [NoteId -> NoteRow] /\ worker' = worker /\ received' = received
    BY DEF Inv, TypeOK, LeaseExpires, BecomesDue, wireVars
  <1>2. ASSUME NEW m \in NoteId
        PROVE  note'[m].status = note[m].status /\ note'[m].payload = note[m].payload
    <2>1. note[m] \in NoteRow
      BY <1>1
    <2>2. \/ note'[m] = note[m]
          \/ note'[m] = [note[m] EXCEPT !.leased = FALSE]
          \/ note'[m] = [note[m] EXCEPT !.due = TRUE]
      BY <1>1 DEF LeaseExpires, BecomesDue
    <2> QED
      BY <2>1, <2>2 DEF NoteRow
  <1>3. SoleInv'
    BY <1>1, <1>2, SoleIfUnmarked DEF Unmarked
  <1> QED
    BY <1>1, <1>2, <1>3, Unseen

LEMMA HandlerRefines ==
    ASSUME Inv, SoleInv, Handler
    PROVE  SoleInv' /\ [Promise!Next]_(Promise!vars)
  <1>1. ASSUME NEW h \in Hooks, NEW status \in {"enabled", "disabled"},
               SetEnabled(h, status)
        PROVE  SoleInv' /\ UNCHANGED Promise!vars
    BY <1>1, QuietMove DEF SetEnabled, wireVars
  <1>2. ASSUME worker' = worker, received' = received, \A n \in NoteId : Withdrawn(n)
        PROVE  SoleInv' /\ [Promise!Next]_(Promise!vars)
    <2>1. \A n \in NoteId : Unmarked(n)
      BY <1>2 DEF Withdrawn, Unmarked
    <2> QED
      BY <1>2, <2>1, SoleIfUnmarked, WithdrawRefines
  <1>3. ASSUME NEW h \in Hooks, DeleteWebhook(h)
        PROVE  SoleInv' /\ [Promise!Next]_(Promise!vars)
    <2>1. worker' = worker /\ received' = received
      BY <1>3 DEF DeleteWebhook, wireVars
    <2> QED
      BY <1>2, <1>3, <2>1, DeleteWebhookInv
  <1>4. ASSUME NEW t \in Tickets, DeleteTicket(t)
        PROVE  SoleInv' /\ [Promise!Next]_(Promise!vars)
    <2>1. worker' = worker /\ received' = received
      BY <1>4 DEF DeleteTicket, wireVars
    <2> QED
      BY <1>2, <1>4, <2>1, DeleteTicketInv
  <1>5. ASSUME NEW t \in Tickets, NEW targets \in SUBSET Hooks, Enqueue(t, targets)
        PROVE  SoleInv' /\ [Promise!Next]_(Promise!vars)
    <2>1. worker' = worker
      BY <1>5 DEF Enqueue
    <2>2. \A n \in NoteId : Unmarked(n)
      BY <1>5, EnqueueInv DEF Queued, Unmarked
    <2> QED
      BY <1>5, <2>1, <2>2, SoleIfUnmarked, EnqueueRefines
  <1> QED
    BY <1>1, <1>3, <1>4, <1>5 DEF Handler

LEMMA StepRefines ==
    ASSUME Inv, SoleInv, OneWorker, [Next]_vars
    PROVE  SoleInv' /\ [Promise!Next]_(Promise!vars)
  <1>1. CASE UNCHANGED vars
    <2>1. UNCHANGED <<note, received, worker>>
      BY <1>1 DEF vars, wireVars
    <2> QED
      BY <2>1, QuietMove
  <1>2. CASE Handler
    BY <1>2, HandlerRefines
  <1>3. ASSUME NEW w \in Workers,
               \/ Load(w) \/ Record(w) \/ LoadFails(w) \/ RecordFails(w)
        PROVE  SoleInv' /\ UNCHANGED Promise!vars
    <2>1. UNCHANGED <<note, received>>
      BY <1>3 DEF Load, Record, LoadFails, RecordFails, wireVars
    <2>2. \/ Goto(w, IF Missing(Current(w).hook) THEN "sent" ELSE "deliver")
          \/ Goto(w, AfterRecord(worker[w].ok))
          \/ Goto(w, "read")
      BY <1>3 DEF Load, Record, LoadFails, RecordFails
    <2> QED
      BY <2>1, <2>2, QuietGoto
  <1>4. ASSUME NEW w \in Workers, ReadAttempts(w)
        PROVE  SoleInv' /\ UNCHANGED Promise!vars
    <2>1. worker[w].pc # "idle" /\ UNCHANGED <<note, received>>
      BY <1>4 DEF ReadAttempts, wireVars
    <2>2. CASE NextInBatch(w)
      BY <2>1, <2>2, QuietSkip
    <2>3. CASE ~NextInBatch(w)
      <3> DEFINE k == note[Current(w).id].attempts
      <3>1. worker \in [Workers -> WorkerState]
        BY DEF Inv, TypeOK
      <3>2. worker' = [worker EXCEPT ![w] = [@ EXCEPT !.pc = "write", !.seen = k]]
        BY <1>4, <2>3 DEF ReadAttempts
      <3> HIDE DEF k
      <3>3. \A v \in Workers : worker'[v].batch = worker[v].batch
        BY <3>1, <3>2 DEF WorkerState
      <3> QED
        BY <2>1, <3>3, QuietMove
    <2> QED
      BY <2>2, <2>3
  <1>5. ASSUME NEW w \in Workers, MarkFails(w)
        PROVE  SoleInv' /\ UNCHANGED Promise!vars
    <2>1. worker[w].pc # "idle" /\ NextInBatch(w) /\ UNCHANGED <<note, received>>
      BY <1>5 DEF MarkFails, wireVars
    <2> QED
      BY <2>1, QuietSkip
  <1>6. ASSUME NEW w \in Workers, Deliver(w)
        PROVE  SoleInv' /\ [Promise!Next]_(Promise!vars)
    <2>1. note' = note /\ worker' = [worker EXCEPT ![w] = worker'[w]]
      BY <1>6 DEF Deliver, Inv, TypeOK
    <2>2. \A v \in Workers : worker'[v].batch = worker[v].batch
      <3>1. worker \in [Workers -> WorkerState]
        BY DEF Inv, TypeOK
      <3> QED
        BY <1>6, <3>1 DEF Deliver, WorkerState
    <2>3. SoleInv'
      BY <2>1, <2>2, SoleIfUnmarked DEF Unmarked
    <2> QED
      BY <1>6, <2>3, DeliverRefines
  <1>7. ASSUME NEW w \in Workers, Dispatch(w)
        PROVE  SoleInv' /\ [Promise!Next]_(Promise!vars)
    BY <1>3, <1>4, <1>6, <1>7, ClaimRefines, MarkSentRefines, MarkFailedRefines
       DEF Dispatch
  <1>8. ASSUME NEW w \in Workers,
               LoadFails(w) \/ RecordFails(w) \/ MarkFails(w) \/ Crash(w)
        PROVE  SoleInv' /\ [Promise!Next]_(Promise!vars)
    BY <1>3, <1>5, <1>8, CrashRefines
  <1>9. ASSUME NEW n \in NoteId, LeaseExpires(n) \/ BecomesDue(n)
        PROVE  SoleInv' /\ [Promise!Next]_(Promise!vars)
    BY <1>9, TimeRefines
  <1> QED
    BY <1>1, <1>2, <1>7, <1>8, <1>9 DEF Next

\* With one worker, each delivery id is published, transmitted with a single
\* content, confirmed only after it was received, and never revived: every
\* step of the outbox is a step of Notification or shows nothing.
THEOREM Refinement ==
    ASSUME OneWorker
    PROVE  Spec => ImplementsNotification
  <1>1. Init => SoleInv
    BY InitSole
  <1>2. Inv /\ SoleInv /\ [Next]_vars => SoleInv' /\ [Promise!Next]_(Promise!vars)
    BY StepRefines
  <1>3. Init => Promise!Init
    BY InitPromise
  <1> QED
    BY <1>1, <1>2, <1>3, Invariance, PTL
       DEF Spec, ImplementsNotification, Promise!Spec

-----------------------------------------------------------------------------
(* The last payload of a ticket.                                           *)

\* A row keeps what it says, and leaves the queue only when it was received or
\* when what it belongs to goes.
Keeps(n) ==
    /\ note'[n].hook = note[n].hook /\ note'[n].ticket = note[n].ticket
    /\ note'[n].payload = note[n].payload
    /\ note[n].status \in {"pending", "sending", "failed"} =>
          \/ note'[n].status \in {"pending", "sending", "failed", "sent"}
          \/ hook'[note[n].hook] = "deleted"
          \/ note[n].ticket \notin live'

Bears(n, h, t, p) ==
    /\ note[n].hook = h /\ note[n].ticket = t /\ note[n].payload = p
    /\ note[n].status \in {"pending", "sending", "failed"} \/ p \in received[n]

LEMMA NewestStays ==
    ASSUME Inv, Inv', Stable, NewestIsKept, newest' = newest, live' \subseteq live,
           \A n \in NoteId : Keeps(n)
    PROVE  NewestIsKept'
<1> SUFFICES ASSUME NEW h \in Hooks, NEW t \in live', hook'[h] # "deleted", newest[h][t] > 0
             PROVE  \E n \in NoteId : Bears(n, h, t, newest[h][t])'
  BY DEF NewestIsKept, Bears
<1>1. hook[h] # "deleted" /\ t \in live
  BY DEF Stable
<1>2. PICK n \in NoteId : Bears(n, h, t, newest[h][t])
  BY <1>1 DEF NewestIsKept, Bears
<1>3. /\ note'[n].hook = h /\ note'[n].ticket = t /\ note'[n].payload = newest[h][t]
      /\ note[n].status \in {"pending", "sending", "failed"} =>
            note'[n].status \in {"pending", "sending", "failed", "sent"}
  BY <1>2 DEF Bears, Keeps
<1>4. note'[n].status = "sent" => note'[n].payload \in received'[n]
  BY DEF Inv, NoteInv
<1>5. received[n] \subseteq received'[n]
  BY DEF Stable
<1>6. Bears(n, h, t, newest[h][t])'
  BY <1>2, <1>3, <1>4, <1>5 DEF Bears
<1> QED
  BY <1>6

\* A row as a projection leaves it: new, rewritten, or as it was.
IsQueued(n, t) ==
    /\ note[n].status = "none"
    /\ \E due \in BOOLEAN, h \in Hooks : note'[n] = NewNote(h, t, due)
IsRewritten(n, t, targets) ==
    /\ \E h \in targets : Coalescable(n, h, t)
    /\ \E due \in BOOLEAN : note'[n] = Rewritten(note[n], version + 1, due)

\* Every webhook that the projection found has a row with its payload.
LEMMA EnqueueWrites ==
    ASSUME Inv, NEW t \in Tickets, NEW targets \in SUBSET Hooks, Enqueue(t, targets)
    PROVE  /\ \A n \in NoteId :
                 IsQueued(n, t) \/ IsRewritten(n, t, targets) \/ note'[n] = note[n]
           /\ \A h \in targets : \E n \in NoteId : \E due \in BOOLEAN :
                 \/ note'[n] = NewNote(h, t, due)
                 \/ Coalescable(n, h, t) /\ note'[n] = Rewritten(note[n], version + 1, due)
<1> DEFINE reused == {h \in targets : \E n \in NoteId : Coalescable(n, h, t)}
           fresh  == targets \ reused
           ids    == lastId + 1 .. lastId + Cardinality(fresh)
           Written(due, owner, old) ==
             /\ \A h \in fresh : \E n \in ids : owner[n] = h
             /\ \A h \in reused :
                    /\ Coalescable(old[h], h, t)
                    /\ \A n \in NoteId :
                           Coalescable(n, h, t) => note[n].created <= note[old[h]].created
             /\ note' = [n \in NoteId |->
                    IF n \in ids THEN NewNote(owner[n], t, due)
                    ELSE IF \E h \in reused : old[h] = n
                         THEN Rewritten(note[n], version + 1, due)
                         ELSE note[n]]
<1>1. \E due \in BOOLEAN : \E owner \in [ids -> fresh] : \E old \in [reused -> NoteId] :
          Written(due, owner, old)
  BY Zenon DEF Enqueue
<1>2. fresh \subseteq Hooks /\ reused \subseteq targets /\ targets = fresh \cup reused
  OBVIOUS
<1>3. IsFiniteSet(fresh) /\ Cardinality(fresh) \in Nat
  BY <1>2, WebhookOutboxAssumption, FS_Subset, FS_CardinalityType
<1>4. ids \subseteq NoteId /\ lastId \in Nat
  BY WebhookOutboxAssumption DEF Enqueue, Inv, TypeOK
<1> HIDE DEF reused, fresh
<1>5. \A n \in ids : n > lastId /\ n \in NoteId
  BY <1>3, <1>4
<1>6. \A n \in ids : note[n].status = "none"
  BY <1>5 DEF Inv, NoteInv
<1> HIDE DEF ids
<1>7. PICK due \in BOOLEAN : \E owner \in [ids -> fresh] : \E old \in [reused -> NoteId] :
          Written(due, owner, old)
  BY <1>1, Zenon
<1>8. PICK owner \in [ids -> fresh] : \E old \in [reused -> NoteId] : Written(due, owner, old)
  BY <1>7, Zenon
<1>9. PICK old \in [reused -> NoteId] : Written(due, owner, old)
  BY <1>8, Zenon
<1>10. \A n \in NoteId :
          note'[n] = IF n \in ids THEN NewNote(owner[n], t, due)
                     ELSE IF \E h \in reused : old[h] = n
                          THEN Rewritten(note[n], version + 1, due)
                          ELSE note[n]
  BY <1>9
<1>11. /\ \A h \in fresh : \E n \in ids : owner[n] = h
       /\ \A h \in reused : old[h] \in NoteId /\ Coalescable(old[h], h, t)
  BY <1>9
<1> HIDE DEF Written
<1>12. ASSUME NEW n \in NoteId
       PROVE  IsQueued(n, t) \/ IsRewritten(n, t, targets) \/ note'[n] = note[n]
  <2>1. CASE n \in ids
    BY <1>2, <1>6, <1>10, <2>1 DEF IsQueued
  <2>2. CASE n \notin ids /\ \E h \in reused : old[h] = n
    BY <1>2, <1>10, <1>11, <2>2 DEF IsRewritten
  <2>3. CASE n \notin ids /\ ~\E h \in reused : old[h] = n
    BY <1>10, <2>3
  <2> QED
    BY <2>1, <2>2, <2>3
<1>13. ASSUME NEW h \in targets
       PROVE  \E n \in NoteId : \E d \in BOOLEAN :
                 \/ note'[n] = NewNote(h, t, d)
                 \/ Coalescable(n, h, t) /\ note'[n] = Rewritten(note[n], version + 1, d)
  <2>1. CASE h \in fresh
    <3>1. PICK n \in ids : owner[n] = h
      BY <1>11, <2>1
    <3> QED
      BY <1>5, <1>10, <3>1
  <2>2. CASE h \in reused
    <3>1. old[h] \in NoteId /\ Coalescable(old[h], h, t)
      BY <1>11, <2>2
    <3>2. old[h] \notin ids
      BY <1>6, <3>1 DEF Coalescable
    <3> QED
      BY <1>10, <2>2, <3>1, <3>2
  <2> QED
    BY <1>2, <1>13, <2>1, <2>2
<1> QED
  BY <1>12, <1>13

LEMMA EnqueueKeepsNewest ==
    ASSUME Inv, Inv', Stable, NewestIsKept,
           NEW t \in Tickets, NEW targets \in SUBSET Hooks, Enqueue(t, targets)
    PROVE  NewestIsKept'
<1>1. /\ \A n \in NoteId :
            IsQueued(n, t) \/ IsRewritten(n, t, targets) \/ note'[n] = note[n]
      /\ \A h \in targets : \E n \in NoteId : \E due \in BOOLEAN :
            \/ note'[n] = NewNote(h, t, due)
            \/ Coalescable(n, h, t) /\ note'[n] = Rewritten(note[n], version + 1, due)
  BY EnqueueWrites
<1>2. /\ UNCHANGED <<hook, live, received>>
      /\ newest' = [h \in Hooks |-> IF h \in targets
                                    THEN [newest[h] EXCEPT ![t] = version + 1]
                                    ELSE newest[h]]
  BY DEF Enqueue, tableVars, wireVars
<1> SUFFICES ASSUME NEW h \in Hooks, NEW s \in live', hook'[h] # "deleted", newest'[h][s] > 0
             PROVE  \E n \in NoteId : Bears(n, h, s, newest[h][s])'
  BY DEF NewestIsKept, Bears
<1>3. s \in live /\ s \in Tickets /\ newest[h] \in [Tickets -> Version]
  BY <1>2 DEF Inv, TypeOK
<1>4. CASE h \in targets /\ s = t
  <2>1. newest'[h][s] = version + 1
    BY <1>2, <1>3, <1>4
  <2>2. PICK n \in NoteId, due \in BOOLEAN :
            \/ note'[n] = NewNote(h, t, due)
            \/ Coalescable(n, h, t) /\ note'[n] = Rewritten(note[n], version + 1, due)
    BY <1>1, <1>4
  <2>3. note[n] \in NoteRow
    BY DEF Inv, TypeOK
  <2>4. /\ note'[n].hook = h /\ note'[n].ticket = s /\ note'[n].payload = version + 1
        /\ note'[n].status = "pending"
    <3>1. \A d \in BOOLEAN : LET r == NewNote(h, t, d) IN
             /\ r.hook = h /\ r.ticket = t /\ r.payload = version + 1
             /\ r.status = "pending"
      BY DEF NewNote
    <3>2. \A d \in BOOLEAN : LET r == Rewritten(note[n], version + 1, d) IN
             /\ r.hook = note[n].hook /\ r.ticket = note[n].ticket
             /\ r.payload = version + 1 /\ r.status = note[n].status
      BY <2>3 DEF Rewritten, NoteRow
    <3> QED
      BY <1>4, <2>2, <3>1, <3>2 DEF Coalescable
  <2>5. Bears(n, h, s, newest[h][s])'
    BY <2>1, <2>4 DEF Bears
  <2> QED
    BY <2>5
<1>5. CASE ~(h \in targets /\ s = t)
  <2>1. newest'[h][s] = newest[h][s]
    BY <1>2, <1>3, <1>5
  <2>2. PICK n \in NoteId : Bears(n, h, s, newest[h][s])
    BY <1>2, <1>3, <2>1 DEF NewestIsKept, Bears
  <2>3. note[n].hook = h /\ note[n].ticket = s
    BY <2>2 DEF Bears
  <2>4. note[n].status # "none"
    BY <2>2 DEF Bears, Inv, NoteInv
  <2>5. note'[n] = note[n]
    BY <1>1, <1>5, <2>3, <2>4 DEF IsQueued, IsRewritten, Coalescable
  <2>6. Bears(n, h, s, newest[h][s])'
    BY <1>2, <2>1, <2>2, <2>5 DEF Bears
  <2> QED
    BY <2>6
<1> QED
  BY <1>4, <1>5

\* The rows under every other step.
LEMMA RowsKeep ==
    ASSUME Inv, Next, ~\E t \in Tickets, targets \in SUBSET Hooks : Enqueue(t, targets)
    PROVE  newest' = newest /\ live' \subseteq live /\ \A n \in NoteId : Keeps(n)
<1>1. TypeOK /\ \A n \in NoteId : note[n] \in NoteRow
  BY DEF Inv, TypeOK
<1>2. ASSUME note' = note, newest' = newest, live' = live
      PROVE  newest' = newest /\ live' \subseteq live /\ \A n \in NoteId : Keeps(n)
  BY <1>2 DEF Keeps
<1>3. ASSUME NEW h \in Hooks, NEW status \in {"enabled", "disabled"}, SetEnabled(h, status)
      PROVE  newest' = newest /\ live' \subseteq live /\ \A n \in NoteId : Keeps(n)
  BY <1>2, <1>3 DEF SetEnabled, queueVars
<1>4. ASSUME NEW gone \in SUBSET NoteId, Cascade(gone), newest' = newest, live' \subseteq live,
             \A n \in gone : hook'[note[n].hook] = "deleted" \/ note[n].ticket \notin live'
      PROVE  newest' = newest /\ live' \subseteq live /\ \A n \in NoteId : Keeps(n)
  <2>1. ASSUME NEW n \in NoteId PROVE Keeps(n)
    <3>1. note'[n] = IF n \in gone /\ Exists(n) THEN [note[n] EXCEPT !.status = "gone"]
                     ELSE note[n]
      BY <1>4 DEF Cascade
    <3> QED
      BY <1>1, <1>4, <3>1 DEF Keeps, NoteRow
  <2> QED
    BY <1>4, <2>1
<1>5. ASSUME NEW h \in Hooks, DeleteWebhook(h)
      PROVE  newest' = newest /\ live' \subseteq live /\ \A n \in NoteId : Keeps(n)
  <2>1. /\ Cascade({n \in NoteId : note[n].hook = h}) /\ newest' = newest /\ live' = live
        /\ hook'[h] = "deleted"
    BY <1>1, <1>5 DEF DeleteWebhook, queueVars, TypeOK
  <2> QED
    BY <1>4, <2>1
<1>6. ASSUME NEW t \in Tickets, DeleteTicket(t)
      PROVE  newest' = newest /\ live' \subseteq live /\ \A n \in NoteId : Keeps(n)
  <2>1. /\ Cascade({n \in NoteId : note[n].ticket = t}) /\ newest' = newest
        /\ live' = live \ {t}
    BY <1>6 DEF DeleteTicket, queueVars
  <2> QED
    BY <1>4, <2>1
<1>7. CASE Handler
  BY <1>3, <1>5, <1>6, <1>7 DEF Handler
<1>8. ASSUME NEW w \in Workers, Claim(w)
      PROVE  newest' = newest /\ live' \subseteq live /\ \A n \in NoteId : Keeps(n)
  <2>1. newest' = newest /\ live' = live
    BY <1>8 DEF Claim, queueVars, tableVars
  <2>2. \A n \in NoteId : note'[n] = note[n] \/ note'[n] = Taken(note[n])
    BY <1>8 DEF Claim
  <2>3. \A n \in NoteId : LET r == Taken(note[n]) IN
           /\ r.status = "sending" /\ r.hook = note[n].hook /\ r.ticket = note[n].ticket
           /\ r.payload = note[n].payload
    BY <1>1 DEF Taken, NoteRow
  <2> QED
    BY <2>1, <2>2, <2>3 DEF Keeps
<1>9. ASSUME NEW w \in Workers,
             \/ Load(w) \/ Deliver(w) \/ Record(w) \/ ReadAttempts(w)
             \/ LoadFails(w) \/ RecordFails(w) \/ MarkFails(w) \/ Crash(w)
      PROVE  newest' = newest /\ live' \subseteq live /\ \A n \in NoteId : Keeps(n)
  <2>1. UNCHANGED <<note, newest, live>>
    BY <1>9 DEF Load, Deliver, Record, ReadAttempts, LoadFails, RecordFails, MarkFails, Crash,
                tableVars, queueVars
  <2> QED
    BY <1>2, <2>1
<1>10. ASSUME NEW w \in Workers, MarkSent(w)
       PROVE  newest' = newest /\ live' \subseteq live /\ \A n \in NoteId : Keeps(n)
  <2>1. newest' = newest /\ live' = live
    BY <1>10 DEF MarkSent, queueVars, tableVars
  <2>2. \A n \in NoteId : \/ note'[n] = note[n]
                          \/ note'[n] = [note[n] EXCEPT !.status = "sent", !.leased = FALSE]
    BY <1>1, <1>10 DEF MarkSent, TypeOK
  <2>3. \A n \in NoteId : LET r == [note[n] EXCEPT !.status = "sent", !.leased = FALSE] IN
           /\ r.status = "sent" /\ r.hook = note[n].hook /\ r.ticket = note[n].ticket
           /\ r.payload = note[n].payload
    BY <1>1 DEF NoteRow
  <2> QED
    BY <2>1, <2>2, <2>3 DEF Keeps
<1>11. ASSUME NEW w \in Workers, MarkFailed(w)
       PROVE  newest' = newest /\ live' \subseteq live /\ \A n \in NoteId : Keeps(n)
  <2>1. newest' = newest /\ live' = live
    BY <1>11 DEF MarkFailed, queueVars, tableVars
  <2>2. \A n \in NoteId : note'[n] = note[n] \/ note'[n] = Failed(note[n], worker[w].seen)
    BY <1>1, <1>11 DEF MarkFailed, TypeOK
  <2>3. \A n \in NoteId : LET r == Failed(note[n], worker[w].seen) IN
           /\ r.status \in {"pending", "failed"}
           /\ r.hook = note[n].hook /\ r.ticket = note[n].ticket
           /\ r.payload = note[n].payload
    BY <1>1 DEF Failed, NoteRow
  <2> QED
    BY <2>1, <2>2, <2>3 DEF Keeps
<1>12. ASSUME NEW n \in NoteId, LeaseExpires(n) \/ BecomesDue(n)
       PROVE  newest' = newest /\ live' \subseteq live /\ \A m \in NoteId : Keeps(m)
  <2>1. newest' = newest /\ live' = live
    BY <1>12 DEF LeaseExpires, BecomesDue, queueVars, tableVars
  <2>2. \A m \in NoteId : \/ note'[m] = note[m]
                          \/ note'[m] = [note[m] EXCEPT !.leased = FALSE]
                          \/ note'[m] = [note[m] EXCEPT !.due = TRUE]
    BY <1>1, <1>12 DEF LeaseExpires, BecomesDue, TypeOK
  <2>3. ASSUME NEW m \in NoteId PROVE Keeps(m)
    <3>1. note[m] \in NoteRow
      BY <1>1
    <3>2. /\ note'[m].status = note[m].status /\ note'[m].hook = note[m].hook
          /\ note'[m].ticket = note[m].ticket /\ note'[m].payload = note[m].payload
      <4>1. CASE note'[m] = note[m]
        BY <4>1
      <4>2. CASE note'[m] = [note[m] EXCEPT !.leased = FALSE]
        BY <3>1, <4>2 DEF NoteRow
      <4>3. CASE note'[m] = [note[m] EXCEPT !.due = TRUE]
        BY <3>1, <4>3 DEF NoteRow
      <4> QED
        BY <2>2, <4>1, <4>2, <4>3
    <3> QED
      BY <3>2 DEF Keeps
  <2> QED
    BY <2>1, <2>3
<1> QED
  BY <1>7, <1>8, <1>9, <1>10, <1>11, <1>12 DEF Next, Dispatch

\* Coalescing never loses the latest state of a ticket, however many dispatchers
\* there are: the row that holds the last payload queued for a webhook stays until
\* it was received, or the webhook or the ticket goes.
THEOREM NewestNoteIsKept == Spec => []NewestIsKept
<1>1. Init => NewestIsKept
  BY DEF Init, NewestIsKept
<1>2. Inv /\ NewestIsKept /\ [Next]_vars => NewestIsKept'
  <2> SUFFICES ASSUME Inv, NewestIsKept, [Next]_vars PROVE NewestIsKept'
    OBVIOUS
  <2>1. Inv' /\ Stable
    BY StepInv
  <2>2. CASE UNCHANGED vars
    BY <2>2 DEF vars, tableVars, queueVars, wireVars, NewestIsKept
  <2>3. CASE \E t \in Tickets, targets \in SUBSET Hooks : Enqueue(t, targets)
    BY <2>1, <2>3, EnqueueKeepsNewest
  <2>4. CASE Next /\ ~\E t \in Tickets, targets \in SUBSET Hooks : Enqueue(t, targets)
    BY <2>1, <2>4, RowsKeep, NewestStays
  <2> QED
    BY <2>2, <2>3, <2>4
<1> QED
  BY <1>1, <1>2, Invariance, PTL DEF Spec

-----------------------------------------------------------------------------
(* How often a notification is attempted and asked for.                    *)

IdsOf(batch) == {batch[i].id : i \in DOMAIN batch}
NoTwice(batch) == \A i, j \in DOMAIN batch : i # j => batch[i].id # batch[j].id

\* The notifications that a worker has in hand.
InHand(w) == IdsOf(worker[w].batch)

Orderly(w) ==
    /\ NoTwice(worker[w].batch)
    /\ worker[w].pc = "idle" => worker[w].batch = <<>>
    /\ worker[w].pc = "write" => worker[w].seen <= note[Current(w).id].attempts

\* A worker that has not asked the receiver yet, and one that is about to make
\* the notification due again.
Asking(w, n) ==
    /\ n \in InHand(w)
    /\ ~(worker[w].pc \in {"record", "sent", "read", "write"} /\ n = Current(w).id)
Failing(w, n) ==
    /\ n \in InHand(w) /\ n = Current(w).id
    /\ worker[w].pc = "write" /\ worker[w].seen < MaxAttempts

Holders(n) == {w \in Workers : n \in InHand(w)}
Unsent(n)  == {w \in Workers : Asking(w, n)}
Stale(n)   == {w \in Workers : Failing(w, n)}

\* A notification that a worker may take up without a fault.
Loose(n) ==
    \/ note[n].status = "pending"
    \/ note[n].status = "sending" /\ (note[n].leased => Holders(n) = {})

\* Whoever has a notification, or may take it up, is owed to a fault, but for
\* one; who has not asked yet was counted; and once the attempts are used up,
\* only a fault leads to another one.
Counted(n) ==
    /\ IsFiniteSet(Holders(n))
    /\ Cardinality(Holders(n)) + (IF Loose(n) THEN 1 ELSE 0) <= 1 + faults
    /\ requests[n] + Cardinality(Unsent(n)) <= note[n].attempts
    /\ note[n].attempts >= MaxAttempts =>
           note[n].attempts + Cardinality(Stale(n)) + (IF Loose(n) THEN 1 ELSE 0)
               <= MaxAttempts + faults
    /\ note[n].status = "failed" => note[n].attempts >= MaxAttempts

CountInv ==
    /\ Inv
    /\ \A w \in Workers : Orderly(w)
    /\ \A n \in NoteId : Counted(n)

\* What a step does to a notification: a worker lets go of it or a fault pays for
\* it; a worker takes it up; one asks; one makes it due again; or it is new.
IsLost(n) ==
    /\ Holders(n)' \subseteq Holders(n) /\ Unsent(n)' \subseteq Unsent(n)
    /\ note[n].attempts >= MaxAttempts => Stale(n)' \subseteq Stale(n)
    /\ note'[n].attempts = note[n].attempts /\ requests'[n] = requests[n]
    /\ \/ faults' >= faults /\ (Loose(n)' => Loose(n))
       \/ faults' = faults + 1
    /\ note'[n].status = "failed" => note[n].attempts >= MaxAttempts
IsTakenUp(n) ==
    /\ \E w \in Workers : Holders(n)' = Holders(n) \cup {w} /\ Unsent(n)' = Unsent(n) \cup {w}
    /\ Stale(n)' \subseteq Stale(n)
    /\ Loose(n) /\ ~Loose(n)'
    /\ note'[n].attempts = note[n].attempts + 1 /\ requests'[n] = requests[n]
    /\ faults' = faults /\ note'[n].status # "failed"
IsAsked(n) ==
    /\ \E w \in Unsent(n) : Unsent(n)' = Unsent(n) \ {w}
    /\ Holders(n)' \subseteq Holders(n) /\ Stale(n)' \subseteq Stale(n)
    /\ note'[n] = note[n] /\ requests'[n] = requests[n] + 1
    /\ faults' = faults /\ (Loose(n)' => Loose(n))
IsGivenBack(n) ==
    /\ \E w \in Stale(n) : Holders(n)' = Holders(n) \ {w} /\ Stale(n)' = Stale(n) \ {w}
    /\ Unsent(n)' \subseteq Unsent(n)
    /\ note'[n].attempts = note[n].attempts /\ requests'[n] = requests[n]
    /\ faults' = faults /\ note'[n].status # "failed"
IsNew(n) ==
    /\ Holders(n)' = {}
    /\ note[n].attempts = 0 /\ note'[n].attempts = 0
    /\ requests'[n] = requests[n] /\ note'[n].status # "failed"

NoteMoves(n) == IsLost(n) \/ IsTakenUp(n) \/ IsAsked(n) \/ IsGivenBack(n) \/ IsNew(n)

CountNext ==
    /\ \A w \in Workers : Orderly(w)'
    /\ \A n \in NoteId : NoteMoves(n)

LEMMA SmallerSets ==
    ASSUME NEW S, IsFiniteSet(S)
    PROVE  /\ Cardinality(S) \in Nat
           /\ \A T \in SUBSET S : IsFiniteSet(T) /\ Cardinality(T) \in Nat
                                  /\ Cardinality(T) <= Cardinality(S)
           /\ \A w \in S : Cardinality(S \ {w}) = Cardinality(S) - 1
           /\ \A w : /\ IsFiniteSet(S \cup {w}) /\ Cardinality(S \cup {w}) \in Nat
                     /\ Cardinality(S \cup {w}) <= Cardinality(S) + 1
<1>1. Cardinality(S) \in Nat
  BY FS_CardinalityType
<1>2. ASSUME NEW T \in SUBSET S
      PROVE  IsFiniteSet(T) /\ Cardinality(T) \in Nat /\ Cardinality(T) <= Cardinality(S)
  BY FS_Subset, FS_CardinalityType
<1>3. ASSUME NEW w \in S PROVE Cardinality(S \ {w}) = Cardinality(S) - 1
  BY FS_RemoveElement
<1>4. ASSUME NEW w
      PROVE  /\ IsFiniteSet(S \cup {w}) /\ Cardinality(S \cup {w}) \in Nat
             /\ Cardinality(S \cup {w}) <= Cardinality(S) + 1
  <2>1. /\ IsFiniteSet(S \cup {w})
        /\ Cardinality(S \cup {w}) = IF w \in S THEN Cardinality(S) ELSE Cardinality(S) + 1
    BY FS_AddElement
  <2> QED
    BY <1>1, <2>1
<1> QED
  BY <1>1, <1>2, <1>3, <1>4

\* Those who still have to ask, and those about to fail, have it in hand.
LEMMA HoldersAre ==
    ASSUME NEW n
    PROVE  /\ Unsent(n) \subseteq Holders(n) /\ Stale(n) \subseteq Holders(n)
           /\ Unsent(n)' \subseteq Holders(n)' /\ Stale(n)' \subseteq Holders(n)'
  BY DEF Unsent, Stale, Holders, Asking, Failing

\* None of the moves makes them too many.
LEMMA NotesAreCounted ==
    ASSUME TypeOK, TypeOK', NEW n \in NoteId, Counted(n), NoteMoves(n)
    PROVE  Counted(n)'
<1> DEFINE H == Holders(n)   HH == Holders(n)'
           U == Unsent(n)    UU == Unsent(n)'
           S == Stale(n)     SS == Stale(n)'
           L == IF Loose(n) THEN 1 ELSE 0
           LL == IF Loose(n)' THEN 1 ELSE 0
           a == note[n].attempts   aa == note'[n].attempts
           r == requests[n]        rr == requests'[n]
           failed == note[n].status = "failed"
           ffailed == note'[n].status = "failed"
<1>1. /\ IsFiniteSet(H)
      /\ Cardinality(H) + L <= 1 + faults
      /\ r + Cardinality(U) <= a
      /\ a >= MaxAttempts => a + Cardinality(S) + L <= MaxAttempts + faults
      /\ failed => a >= MaxAttempts
  BY DEF Counted
<1>2. L \in {0, 1} /\ LL \in {0, 1} /\ (LL = 1 <=> Loose(n)') /\ (L = 1 <=> Loose(n))
  OBVIOUS
<1>3. /\ a \in Nat /\ aa \in Nat /\ r \in Nat /\ rr \in Nat /\ faults \in Nat /\ faults' \in Nat
      /\ MaxAttempts \in Nat /\ MaxAttempts > 0
  BY WebhookOutboxAssumption DEF TypeOK, NoteRow
<1>4. U \subseteq H /\ S \subseteq H /\ UU \subseteq HH /\ SS \subseteq HH
  BY HoldersAre
<1>5. SUFFICES /\ IsFiniteSet(HH)
               /\ Cardinality(HH) + LL <= 1 + faults'
               /\ rr + Cardinality(UU) <= aa
               /\ aa >= MaxAttempts => aa + Cardinality(SS) + LL <= MaxAttempts + faults'
               /\ ffailed => aa >= MaxAttempts
  BY DEF Counted
<1>6. /\ IsFiniteSet(U) /\ IsFiniteSet(S) /\ Cardinality(H) \in Nat
      /\ Cardinality(U) \in Nat /\ Cardinality(U) <= Cardinality(H)
      /\ Cardinality(S) \in Nat /\ Cardinality(S) <= Cardinality(H)
  BY <1>1, <1>4, SmallerSets
<1>7. ASSUME HH \subseteq H
      PROVE  /\ IsFiniteSet(HH) /\ Cardinality(HH) \in Nat /\ Cardinality(HH) <= Cardinality(H)
             /\ Cardinality(UU) \in Nat /\ Cardinality(SS) \in Nat
             /\ Cardinality(SS) <= Cardinality(HH)
  <2>1. IsFiniteSet(HH) /\ Cardinality(HH) \in Nat /\ Cardinality(HH) <= Cardinality(H)
    BY <1>1, <1>7, SmallerSets
  <2> QED
    BY <1>4, <2>1, SmallerSets
<1>8. UU \subseteq U => Cardinality(UU) <= Cardinality(U)
  BY <1>6, SmallerSets
<1>9. SS \subseteq S => Cardinality(SS) <= Cardinality(S) /\ Cardinality(SS) \in Nat
  BY <1>6, SmallerSets
<1>10. CASE IsLost(n)
  <2>1. /\ HH \subseteq H /\ UU \subseteq U /\ (a >= MaxAttempts => SS \subseteq S)
        /\ aa = a /\ rr = r /\ (ffailed => a >= MaxAttempts)
        /\ \/ faults' >= faults /\ (LL = 1 => L = 1)
           \/ faults' = faults + 1
    BY <1>2, <1>10 DEF IsLost
  <2> HIDE DEF H, HH, U, UU, S, SS, L, LL, a, aa, r, rr, failed, ffailed
  <2> QED
    BY <1>1, <1>2, <1>3, <1>6, <1>7, <1>8, <1>9, <2>1
<1>11. CASE IsTakenUp(n)
  <2>1. PICK w \in Workers : HH = H \cup {w} /\ UU = U \cup {w}
    BY <1>11 DEF IsTakenUp
  <2>2. /\ SS \subseteq S /\ L = 1 /\ LL = 0 /\ aa = a + 1 /\ rr = r
        /\ faults' = faults /\ ~ffailed
    BY <1>2, <1>11 DEF IsTakenUp
  <2>3. IsFiniteSet(HH) /\ Cardinality(HH) \in Nat /\ Cardinality(HH) <= Cardinality(H) + 1
    BY <1>1, <2>1, SmallerSets
  <2>4. Cardinality(UU) \in Nat /\ Cardinality(UU) <= Cardinality(U) + 1
    BY <1>6, <2>1, SmallerSets
  <2> HIDE DEF H, HH, U, UU, S, SS, L, LL, a, aa, r, rr, failed, ffailed
  <2> QED
    BY <1>1, <1>2, <1>3, <1>6, <1>9, <2>2, <2>3, <2>4
<1>12. CASE IsAsked(n)
  <2>1. PICK w \in U : UU = U \ {w}
    BY <1>12 DEF IsAsked
  <2>2. /\ HH \subseteq H /\ SS \subseteq S /\ (LL = 1 => L = 1)
        /\ aa = a /\ rr = r + 1 /\ faults' = faults /\ (ffailed => failed)
    BY <1>2, <1>12 DEF IsAsked
  <2>3. Cardinality(UU) = Cardinality(U) - 1
    BY <1>6, <2>1, SmallerSets
  <2> HIDE DEF H, HH, U, UU, S, SS, L, LL, a, aa, r, rr, failed, ffailed
  <2> QED
    BY <1>1, <1>2, <1>3, <1>6, <1>7, <1>9, <2>2, <2>3
<1>13. CASE IsGivenBack(n)
  <2>1. PICK w \in S : HH = H \ {w} /\ SS = S \ {w}
    BY <1>13 DEF IsGivenBack
  <2>2. UU \subseteq U /\ aa = a /\ rr = r /\ faults' = faults /\ ~ffailed
    BY <1>13 DEF IsGivenBack
  <2>3. Cardinality(SS) = Cardinality(S) - 1 /\ Cardinality(HH) = Cardinality(H) - 1 /\ HH \subseteq H
    BY <1>1, <1>4, <1>6, <2>1, SmallerSets
  <2> HIDE DEF H, HH, U, UU, S, SS, L, LL, a, aa, r, rr, failed, ffailed
  <2> QED
    BY <1>1, <1>2, <1>3, <1>6, <1>7, <1>8, <2>2, <2>3
<1>14. CASE IsNew(n)
  <2>1. HH = {} /\ UU = {} /\ SS = {} /\ a = 0 /\ aa = 0 /\ rr = r /\ ~ffailed
    BY <1>4, <1>14 DEF IsNew
  <2>2. IsFiniteSet({}) /\ Cardinality({}) = 0
    BY FS_EmptySet
  <2> HIDE DEF H, HH, U, UU, S, SS, L, LL, a, aa, r, rr, failed, ffailed
  <2> QED
    BY <1>1, <1>2, <1>3, <1>6, <2>1, <2>2
<1> QED
  BY <1>10, <1>11, <1>12, <1>13, <1>14 DEF NoteMoves

-----------------------------------------------------------------------------
(* How a worker's hands change.                                            *)

LEMMA HeldIsHolders == \A n \in NoteId : Held(n) <=> Holders(n) # {}
  BY DEF Held, Holders, InHand, IdsOf

\* The first notification of a batch, and the others.
LEMMA RestOfBatch ==
    ASSUME NEW b \in Seq(Copy), b # <<>>, NoTwice(b)
    PROVE  /\ Head(b).id \in IdsOf(b)
           /\ NoTwice(Tail(b)) /\ IdsOf(Tail(b)) = IdsOf(b) \ {Head(b).id}
           /\ Len(b) = 1 => IdsOf(b) = {Head(b).id}
<1>1. Len(b) \in Nat /\ Len(b) > 0 /\ DOMAIN b = 1..Len(b) /\ Head(b) = b[1]
  BY EmptySeq
<1>2. /\ Tail(b) \in Seq(Copy) /\ DOMAIN Tail(b) = 1..Len(b) - 1
      /\ \A i \in 1..Len(b) - 1 : Tail(b)[i] = b[i + 1]
  BY <1>1
<1>3. Head(b).id \in IdsOf(b)
  BY <1>1 DEF IdsOf
<1>4. NoTwice(Tail(b))
  BY <1>1, <1>2 DEF NoTwice
<1>5. ASSUME NEW n \in IdsOf(Tail(b)) PROVE n \in IdsOf(b) \ {Head(b).id}
  <2>1. PICK i \in 1..Len(b) - 1 : n = b[i + 1].id
    BY <1>2 DEF IdsOf
  <2>2. i + 1 \in DOMAIN b /\ 1 \in DOMAIN b /\ i + 1 # 1
    BY <1>1
  <2> QED
    BY <1>1, <2>1, <2>2 DEF IdsOf, NoTwice
<1>6. ASSUME NEW n \in IdsOf(b), n # Head(b).id PROVE n \in IdsOf(Tail(b))
  <2>1. PICK i \in 1..Len(b) : n = b[i].id
    BY <1>1 DEF IdsOf
  <2>2. i # 1 /\ i - 1 \in 1..Len(b) - 1 /\ (i - 1) + 1 = i
    BY <1>1, <1>6, <2>1
  <2>3. Tail(b)[i - 1] = b[i]
    BY <1>2, <2>2
  <2> QED
    BY <1>2, <2>1, <2>2, <2>3 DEF IdsOf
<1>7. Len(b) = 1 => IdsOf(b) = {Head(b).id}
  BY <1>1 DEF IdsOf
<1> QED
  BY <1>3, <1>4, <1>5, <1>6, <1>7

\* A worker that goes on lets go of one notification and will ask for the others.
LEMMA LetsGo ==
    ASSUME CountInv, NEW w \in Workers, worker[w].pc # "idle", NextInBatch(w)
    PROVE  /\ Current(w).id \in InHand(w)
           /\ InHand(w)' = InHand(w) \ {Current(w).id}
           /\ NoTwice(worker'[w].batch)
           /\ worker'[w].pc \in {"idle", "load"}
           /\ worker'[w].pc = "idle" => worker'[w].batch = <<>>
           /\ \A v \in Workers : v # w => worker'[v] = worker[v]
<1> DEFINE b == worker[w].batch
<1>1. b \in Seq(Copy) /\ b # <<>> /\ NoTwice(b)
  BY CurrentNote DEF CountInv, Orderly
<1>2. worker' = [worker EXCEPT ![w] = IF Len(b) = 1 THEN Idle ELSE Holding("load", Tail(b))]
  BY DEF NextInBatch
<1>3. worker \in [Workers -> WorkerState]
  BY DEF CountInv, Inv, TypeOK
<1>4. CASE Len(b) = 1
  <2>1. worker'[w] = Idle /\ \A v \in Workers : v # w => worker'[v] = worker[v]
    BY <1>2, <1>3, <1>4
  <2>2. Idle.pc = "idle" /\ Idle.batch = <<>> /\ IdsOf(<<>>) = {} /\ NoTwice(<<>>)
    BY DEF Idle, Holding, IdsOf, NoTwice
  <2> QED
    BY <1>1, <1>4, <2>1, <2>2, RestOfBatch DEF InHand, Current
<1>5. CASE Len(b) # 1
  <2>1. /\ worker'[w] = Holding("load", Tail(b))
        /\ \A v \in Workers : v # w => worker'[v] = worker[v]
    BY <1>2, <1>3, <1>5
  <2>2. worker'[w].pc = "load" /\ worker'[w].batch = Tail(b)
    BY <2>1 DEF Holding
  <2> QED
    BY <1>1, <2>1, <2>2, RestOfBatch DEF InHand, Current
<1> QED
  BY <1>4, <1>5

AttemptsGrow == \A n \in NoteId : note'[n].attempts >= note[n].attempts

\* A worker that a step leaves alone stays orderly, and wants what it wanted.
LEMMA HandStays ==
    ASSUME CountInv, TypeOK', AttemptsGrow, NEW w \in Workers, worker'[w] = worker[w]
    PROVE  /\ Orderly(w)'
           /\ InHand(w)' = InHand(w)
           /\ \A n \in NoteId : /\ Asking(w, n)' <=> Asking(w, n)
                                /\ Failing(w, n)' <=> Failing(w, n)
<1>1. InHand(w)' = InHand(w) /\ Current(w)' = Current(w)
  BY DEF InHand, Current
<1>2. worker[w].pc = "write" => worker[w].seen <= note'[Current(w).id].attempts
  <2> SUFFICES ASSUME worker[w].pc = "write"
               PROVE  worker[w].seen <= note'[Current(w).id].attempts
    OBVIOUS
  <2> DEFINE c == Current(w).id
  <2>1. c \in NoteId /\ worker[w].seen \in Nat /\ worker[w].seen <= note[c].attempts
    BY CurrentNote DEF CountInv, Orderly, Inv, TypeOK, WorkerState
  <2>2. note[c].attempts \in Nat /\ note'[c].attempts \in Nat
        /\ note'[c].attempts >= note[c].attempts
    BY <2>1 DEF AttemptsGrow, CountInv, Inv, TypeOK, NoteRow
  <2> HIDE DEF c
  <2>3. worker[w].seen <= note'[c].attempts
    BY <2>1, <2>2
  <2> QED
    BY <2>3 DEF c
<1>3. Orderly(w)'
  BY <1>1, <1>2 DEF CountInv, Orderly
<1> QED
  BY <1>1, <1>3 DEF Asking, Failing

\* The sets of a step in which only worker w moves.
LEMMA OneHand ==
    ASSUME CountInv, TypeOK', AttemptsGrow, NEW w \in Workers,
           \A v \in Workers : v # w => worker'[v] = worker[v]
    PROVE  /\ \A v \in Workers : v # w => Orderly(v)'
           /\ \A n \in NoteId : \A v \in Workers : v # w =>
                 /\ v \in Holders(n)' <=> v \in Holders(n)
                 /\ v \in Unsent(n)' <=> v \in Unsent(n)
                 /\ v \in Stale(n)' <=> v \in Stale(n)
           /\ \A n \in NoteId :
                 /\ w \in Holders(n)' <=> n \in InHand(w)'
                 /\ w \in Unsent(n)' <=> Asking(w, n)'
                 /\ w \in Stale(n)' <=> Failing(w, n)'
  BY HandStays DEF Holders, Unsent, Stale

LEMMA HandsStay ==
    ASSUME CountInv, TypeOK', AttemptsGrow, worker' = worker
    PROVE  /\ \A w \in Workers : Orderly(w)'
           /\ \A n \in NoteId : /\ Holders(n)' = Holders(n)
                                /\ Unsent(n)' = Unsent(n)
                                /\ Stale(n)' = Stale(n)
  BY HandStays DEF Holders, Unsent, Stale

\* Two sets of workers that differ at most in w.
LEMMA DifferAt ==
    ASSUME NEW A \in SUBSET Workers, NEW B \in SUBSET Workers, NEW w \in Workers,
           \A v \in Workers : v # w => (v \in A <=> v \in B)
    PROVE  /\ (w \in A <=> w \in B) => A = B
           /\ w \in A => A = B \cup {w}
           /\ w \notin A => A = B \ {w}
  OBVIOUS

\* A worker goes on: it is quit of one notification.
LEMMA GoesOn ==
    ASSUME CountInv, TypeOK', AttemptsGrow, NEW w \in Workers, worker[w].pc # "idle",
           NextInBatch(w)
    PROVE  /\ \A v \in Workers : Orderly(v)'
           /\ \A n \in NoteId :
                 IF n = Current(w).id
                 THEN /\ Holders(n)' = Holders(n) \ {w} /\ w \in Holders(n)
                      /\ Unsent(n)' = Unsent(n) \ {w}
                      /\ Stale(n)' = Stale(n) \ {w}
                 ELSE /\ Holders(n)' = Holders(n)
                      /\ Unsent(n)' = Unsent(n)
                      /\ Stale(n)' = Stale(n)
<1> DEFINE c == Current(w).id
<1>1. /\ c \in InHand(w)
      /\ InHand(w)' = InHand(w) \ {c}
      /\ NoTwice(worker'[w].batch)
      /\ worker'[w].pc \in {"idle", "load"}
      /\ worker'[w].pc = "idle" => worker'[w].batch = <<>>
      /\ \A v \in Workers : v # w => worker'[v] = worker[v]
  BY LetsGo
<1>2. Orderly(w)'
  BY <1>1 DEF Orderly
<1>3. /\ \A v \in Workers : v # w => Orderly(v)'
      /\ \A n \in NoteId : \A v \in Workers : v # w =>
            /\ v \in Holders(n)' <=> v \in Holders(n)
            /\ v \in Unsent(n)' <=> v \in Unsent(n)
            /\ v \in Stale(n)' <=> v \in Stale(n)
      /\ \A n \in NoteId :
            /\ w \in Holders(n)' <=> n \in InHand(w)'
            /\ w \in Unsent(n)' <=> Asking(w, n)'
            /\ w \in Stale(n)' <=> Failing(w, n)'
  BY <1>1, OneHand
<1>4. \A n \in NoteId : /\ Asking(w, n)' <=> n \in InHand(w)'
                        /\ ~Failing(w, n)'
  BY <1>1 DEF Asking, Failing
<1>5. \A n \in NoteId : n # c => /\ w \in Unsent(n) <=> n \in InHand(w)
                                 /\ w \notin Stale(n)
                                 /\ w \in Holders(n) <=> n \in InHand(w)
  BY DEF Asking, Failing, Unsent, Stale, Holders
<1>6. \A n \in NoteId : /\ Holders(n) \subseteq Workers /\ Holders(n)' \subseteq Workers
                        /\ Unsent(n) \subseteq Workers /\ Unsent(n)' \subseteq Workers
                        /\ Stale(n) \subseteq Workers /\ Stale(n)' \subseteq Workers
  BY DEF Holders, Unsent, Stale
<1>7. ASSUME NEW n \in NoteId, n = c
      PROVE  /\ Holders(n)' = Holders(n) \ {w} /\ w \in Holders(n)
             /\ Unsent(n)' = Unsent(n) \ {w}
             /\ Stale(n)' = Stale(n) \ {w}
  <2>1. n \notin InHand(w)' /\ w \in Holders(n)
    BY <1>1, <1>7 DEF Holders
  <2>2. w \notin Holders(n)' /\ w \notin Unsent(n)' /\ w \notin Stale(n)'
    BY <1>3, <1>4, <2>1
  <2> QED
    BY <1>3, <1>6, <2>1, <2>2
<1>8. ASSUME NEW n \in NoteId, n # c
      PROVE  Holders(n)' = Holders(n) /\ Unsent(n)' = Unsent(n) /\ Stale(n)' = Stale(n)
  <2>1. n \in InHand(w)' <=> n \in InHand(w)
    BY <1>1, <1>8
  <2>2. /\ w \in Holders(n)' <=> w \in Holders(n)
        /\ w \in Unsent(n)' <=> w \in Unsent(n)
        /\ w \in Stale(n)' <=> w \in Stale(n)
    BY <1>3, <1>4, <1>5, <1>8, <2>1
  <2>3. Holders(n)' = Holders(n)
    BY <1>3, <1>6, <2>2, DifferAt
  <2>4. Unsent(n)' = Unsent(n)
    <3>1. /\ Unsent(n) \in SUBSET Workers /\ Unsent(n)' \in SUBSET Workers
          /\ \A v \in Workers : v # w => (v \in Unsent(n)' <=> v \in Unsent(n))
      BY <1>3, <1>6
    <3> QED
      BY <2>2, <3>1, DifferAt
  <2>5. Stale(n)' = Stale(n)
    <3>1. /\ Stale(n) \in SUBSET Workers /\ Stale(n)' \in SUBSET Workers
          /\ \A v \in Workers : v # w => (v \in Stale(n)' <=> v \in Stale(n))
      BY <1>3, <1>6
    <3> QED
      BY <2>2, <3>1, DifferAt
  <2> QED
    BY <2>3, <2>4, <2>5
<1> QED
  BY <1>2, <1>3, <1>7, <1>8

\* A worker moves within one notification.
LEMMA StaysAt ==
    ASSUME CountInv, TypeOK', AttemptsGrow, NEW w \in Workers, worker[w].pc # "idle",
           worker'[w].batch = worker[w].batch, worker'[w].pc # "idle",
           worker'[w].pc = "write" => worker'[w].seen <= note'[Current(w).id].attempts,
           \A v \in Workers : v # w => worker'[v] = worker[v]
    PROVE  /\ \A v \in Workers : Orderly(v)'
           /\ \A n \in NoteId :
                 /\ Holders(n)' = Holders(n)
                 /\ n # Current(w).id => Unsent(n)' = Unsent(n) /\ Stale(n)' = Stale(n)
                 /\ n = Current(w).id =>
                       /\ w \in Holders(n)
                       /\ Unsent(n)' = IF worker'[w].pc \in {"record", "sent", "read", "write"}
                                       THEN Unsent(n) \ {w} ELSE Unsent(n) \cup {w}
                       /\ Stale(n)' = IF worker'[w].pc = "write" /\ worker'[w].seen < MaxAttempts
                                      THEN Stale(n) \cup {w} ELSE Stale(n) \ {w}
<1> DEFINE c == Current(w).id
<1>1. InHand(w)' = InHand(w) /\ Current(w)' = Current(w)
  BY DEF InHand, Current
<1>2. Orderly(w)'
  BY <1>1 DEF Orderly, CountInv
<1>3. /\ \A v \in Workers : v # w => Orderly(v)'
      /\ \A n \in NoteId : \A v \in Workers : v # w =>
            /\ v \in Holders(n)' <=> v \in Holders(n)
            /\ v \in Unsent(n)' <=> v \in Unsent(n)
            /\ v \in Stale(n)' <=> v \in Stale(n)
      /\ \A n \in NoteId :
            /\ w \in Holders(n)' <=> n \in InHand(w)'
            /\ w \in Unsent(n)' <=> Asking(w, n)'
            /\ w \in Stale(n)' <=> Failing(w, n)'
  BY OneHand
<1>4. \A n \in NoteId : /\ Holders(n) \subseteq Workers /\ Holders(n)' \subseteq Workers
                        /\ Unsent(n) \subseteq Workers /\ Unsent(n)' \subseteq Workers
                        /\ Stale(n) \subseteq Workers /\ Stale(n)' \subseteq Workers
  BY DEF Holders, Unsent, Stale
<1>5. c \in InHand(w)
  BY CurrentNote, RestOfBatch DEF CountInv, Orderly, InHand, Current
<1>6. \A n \in NoteId : Holders(n)' = Holders(n)
  BY <1>1, <1>3, <1>4 DEF Holders
<1>7. ASSUME NEW n \in NoteId, n # c
      PROVE  Unsent(n)' = Unsent(n) /\ Stale(n)' = Stale(n)
  <2>1. /\ Asking(w, n)' <=> n \in InHand(w)
        /\ ~Failing(w, n)'
    BY <1>1, <1>7 DEF Asking, Failing
  <2>2. (w \in Unsent(n) <=> n \in InHand(w)) /\ w \notin Stale(n)
    BY <1>7 DEF Asking, Failing, Unsent, Stale
  <2>3. Unsent(n)' = Unsent(n)
    <3>1. /\ Unsent(n) \in SUBSET Workers /\ Unsent(n)' \in SUBSET Workers
          /\ \A v \in Workers : v # w => (v \in Unsent(n)' <=> v \in Unsent(n))
          /\ w \in Unsent(n)' <=> w \in Unsent(n)
      BY <1>3, <1>4, <2>1, <2>2
    <3> QED
      BY <3>1, DifferAt
  <2>4. Stale(n)' = Stale(n)
    <3>1. /\ Stale(n) \in SUBSET Workers /\ Stale(n)' \in SUBSET Workers
          /\ \A v \in Workers : v # w => (v \in Stale(n)' <=> v \in Stale(n))
          /\ w \in Stale(n)' <=> w \in Stale(n)
      BY <1>3, <1>4, <2>1, <2>2
    <3> QED
      BY <3>1, DifferAt
  <2> QED
    BY <2>3, <2>4
<1>8. ASSUME NEW n \in NoteId, n = c
      PROVE  /\ w \in Holders(n)
             /\ Unsent(n)' = IF worker'[w].pc \in {"record", "sent", "read", "write"}
                             THEN Unsent(n) \ {w} ELSE Unsent(n) \cup {w}
             /\ Stale(n)' = IF worker'[w].pc = "write" /\ worker'[w].seen < MaxAttempts
                            THEN Stale(n) \cup {w} ELSE Stale(n) \ {w}
  <2>1. /\ Asking(w, n)' <=> ~(worker'[w].pc \in {"record", "sent", "read", "write"})
        /\ Failing(w, n)' <=> worker'[w].pc = "write" /\ worker'[w].seen < MaxAttempts
    BY <1>1, <1>5, <1>8 DEF Asking, Failing
  <2>2. w \in Holders(n)
    BY <1>5, <1>8 DEF Holders
  <2>3. Unsent(n)' = IF w \in Unsent(n)' THEN Unsent(n) \cup {w} ELSE Unsent(n) \ {w}
    BY <1>3, <1>4, DifferAt
  <2>4. Stale(n)' = IF w \in Stale(n)' THEN Stale(n) \cup {w} ELSE Stale(n) \ {w}
    BY <1>3, <1>4, DifferAt
  <2>5. /\ w \in Unsent(n)' <=> ~(worker'[w].pc \in {"record", "sent", "read", "write"})
        /\ w \in Stale(n)' <=> worker'[w].pc = "write" /\ worker'[w].seen < MaxAttempts
    BY <1>3, <2>1
  <2>6. /\ Unsent(n)' = IF worker'[w].pc \in {"record", "sent", "read", "write"}
                         THEN Unsent(n) \ {w} ELSE Unsent(n) \cup {w}
    BY <2>3, <2>5, Zenon
  <2>7. Stale(n)' = IF worker'[w].pc = "write" /\ worker'[w].seen < MaxAttempts
                    THEN Stale(n) \cup {w} ELSE Stale(n) \ {w}
    BY <2>4, <2>5, Zenon
  <2> QED
    BY <2>2, <2>6, <2>7
<1> QED
  BY <1>2, <1>3, <1>6, <1>7, <1>8

-----------------------------------------------------------------------------
(* What each action does to the notifications.                             *)

LEMMA NobodyHoldsNone ==
    ASSUME CountInv, NEW n \in NoteId, note[n].status = "none"
    PROVE  Holders(n) = {} /\ note[n].attempts = 0
<1>1. ASSUME NEW w \in Workers, n \in InHand(w) PROVE FALSE
  <2>1. PICK i \in DOMAIN worker[w].batch : worker[w].batch[i].id = n
    BY <1>1 DEF InHand, IdsOf
  <2>2. DOMAIN worker[w].batch = 1..Len(worker[w].batch)
    BY DEF CountInv, Inv, TypeOK, WorkerState
  <2> QED
    BY <2>1, <2>2 DEF CountInv, Inv, HeldInv, CopyInv
<1> QED
  BY <1>1 DEF Holders, CountInv, Inv, NoteInv

\* No worker moves, and no row becomes free to take up but for a fault.
LEMMA RowsMove ==
    ASSUME CountInv, TypeOK', worker' = worker, requests' = requests, faults' >= faults,
           \A n \in NoteId :
              /\ note'[n].attempts = note[n].attempts
              /\ note'[n].status = "failed" => note[n].status = "failed"
              /\ \/ note'[n].status = note[n].status /\ note'[n].leased = note[n].leased
                 \/ note'[n].status \notin {"pending", "sending"}
                 \/ note[n].status = "none"
                 \/ Loose(n)
                 \/ faults' = faults + 1
    PROVE  CountNext
<1>1. AttemptsGrow
  BY DEF AttemptsGrow, CountInv, Inv, TypeOK, NoteRow
<1>2. /\ \A w \in Workers : Orderly(w)'
      /\ \A n \in NoteId : /\ Holders(n)' = Holders(n)
                           /\ Unsent(n)' = Unsent(n)
                           /\ Stale(n)' = Stale(n)
  BY <1>1, HandsStay
<1>3. ASSUME NEW n \in NoteId PROVE NoteMoves(n)
  <2>1. note[n].status = "failed" => note[n].attempts >= MaxAttempts
    BY DEF CountInv, Counted
  <2>2. CASE note'[n].status = note[n].status /\ note'[n].leased = note[n].leased
    <3>1. Loose(n)' => Loose(n)
      BY <1>2, <2>2 DEF Loose
    <3> QED
      BY <1>2, <2>1, <3>1 DEF NoteMoves, IsLost
  <2>3. CASE note'[n].status \notin {"pending", "sending"}
    <3>1. ~Loose(n)'
      BY <2>3 DEF Loose
    <3> QED
      BY <1>2, <2>1, <3>1 DEF NoteMoves, IsLost
  <2>4. CASE note[n].status = "none"
    BY <1>2, <2>4, NobodyHoldsNone DEF NoteMoves, IsNew
  <2>5. CASE Loose(n)
    BY <1>2, <2>1, <2>5 DEF NoteMoves, IsLost
  <2>6. CASE faults' = faults + 1
    BY <1>2, <2>1, <2>6 DEF NoteMoves, IsLost
  <2> QED
    BY <2>2, <2>3, <2>4, <2>5, <2>6
<1> QED
  BY <1>2, <1>3 DEF CountNext

LEMMA HandlerCount == ASSUME CountInv, TypeOK', Handler PROVE CountNext
<1>1. TypeOK /\ faults' = faults /\ faults \in Nat /\ worker' = worker /\ requests' = requests
  <2>1. faults' = faults /\ worker' = worker /\ UNCHANGED wireVars
    BY DEF Handler, SetEnabled, DeleteWebhook, DeleteTicket, Enqueue
  <2> QED
    BY <2>1, WebhookOutboxAssumption DEF CountInv, Inv, TypeOK, wireVars
<1>2. SUFFICES ASSUME NEW n \in NoteId
               PROVE  /\ note'[n].attempts = note[n].attempts
                      /\ note'[n].status = "failed" => note[n].status = "failed"
                      /\ \/ note'[n].status = note[n].status /\ note'[n].leased = note[n].leased
                         \/ note'[n].status \notin {"pending", "sending"}
                         \/ note[n].status = "none"
                         \/ Loose(n)
  BY <1>1, RowsMove
<1>3. note[n] \in NoteRow
  BY <1>1 DEF TypeOK
<1>4. CASE note'[n] = note[n]
  BY <1>4
<1>5. CASE note'[n] = [note[n] EXCEPT !.status = "gone"]
  BY <1>3, <1>5, GoneRow
<1>6. ASSUME NEW gone \in SUBSET NoteId, Cascade(gone)
      PROVE  note'[n] = note[n] \/ note'[n] = [note[n] EXCEPT !.status = "gone"]
  BY <1>6 DEF Cascade
<1>7. ASSUME NEW h \in Hooks, NEW status \in {"enabled", "disabled"}, SetEnabled(h, status)
      PROVE  note' = note
  BY <1>7 DEF SetEnabled
<1>8. ASSUME NEW h \in Hooks, DeleteWebhook(h)
      PROVE  \E gone \in SUBSET NoteId : Cascade(gone)
  BY <1>8 DEF DeleteWebhook
<1>9. ASSUME NEW t \in Tickets, DeleteTicket(t)
      PROVE  \E gone \in SUBSET NoteId : Cascade(gone)
  BY <1>9 DEF DeleteTicket
<1>10. ASSUME NEW t \in Tickets, NEW targets \in SUBSET Hooks, Enqueue(t, targets),
              note'[n] # note[n]
       PROVE  \/ note[n].status = "none" /\ note'[n].attempts = 0 /\ note'[n].status = "pending"
              \/ /\ note[n].status = "pending" /\ note'[n].attempts = note[n].attempts
                 /\ note'[n].status = "pending"
  <2>1. IsQueued(n, t) \/ IsRewritten(n, t, targets)
    BY <1>10, EnqueueWrites DEF CountInv
  <2>2. \A due \in BOOLEAN, h \in Hooks :
           NewNote(h, t, due).attempts = 0 /\ NewNote(h, t, due).status = "pending"
    BY DEF NewNote
  <2>3. \A due \in BOOLEAN : LET r == Rewritten(note[n], version + 1, due) IN
           r.attempts = note[n].attempts /\ r.status = note[n].status
    BY <1>3 DEF Rewritten, NoteRow
  <2> QED
    BY <2>1, <2>2, <2>3 DEF IsQueued, IsRewritten, Coalescable
<1>11. note[n].status = "none" => note[n].attempts = 0
  BY DEF CountInv, Inv, NoteInv
<1>12. note[n].status = "pending" => Loose(n)
  BY DEF Loose
<1>13. ASSUME NEW t \in Tickets, NEW targets \in SUBSET Hooks, Enqueue(t, targets)
      PROVE  /\ note'[n].attempts = note[n].attempts
             /\ note'[n].status = "failed" => note[n].status = "failed"
             /\ \/ note'[n].status = note[n].status /\ note'[n].leased = note[n].leased
                \/ note[n].status = "none"
                \/ Loose(n)
  BY <1>10, <1>11, <1>12, <1>13
<1> QED
  BY <1>4, <1>5, <1>6, <1>7, <1>8, <1>9, <1>13 DEF Handler

LEMMA TimeCount ==
    ASSUME CountInv, TypeOK', NEW n \in NoteId, LeaseExpires(n) \/ BecomesDue(n)
    PROVE  CountNext
<1>1. TypeOK /\ faults \in Nat /\ note[n] \in NoteRow /\ worker' = worker /\ requests' = requests
  BY WebhookOutboxAssumption DEF CountInv, Inv, TypeOK, LeaseExpires, BecomesDue, wireVars
<1>2. CASE LeaseExpires(n)
  <2>1. /\ note[n].status = "sending" /\ note[n].leased
        /\ note' = [note EXCEPT ![n] = [note[n] EXCEPT !.leased = FALSE]]
        /\ faults' = faults + 1 \/ (faults' = faults /\ ~Held(n))
    BY <1>2 DEF LeaseExpires, Fault
  <2>2. /\ \A m \in NoteId : m # n => note'[m] = note[m]
        /\ note'[n] = [note[n] EXCEPT !.leased = FALSE]
    BY <1>1, <2>1 DEF TypeOK
  <2>3. note'[n].status = note[n].status /\ note'[n].attempts = note[n].attempts
    BY <1>1, <2>2 DEF NoteRow
  <2>4. Loose(n) \/ faults' = faults + 1
    BY <2>1, HeldIsHolders DEF Loose
  <2>5. faults' >= faults
    BY <1>1, <2>1
  <2> QED
    BY <1>1, <2>2, <2>3, <2>4, <2>5, RowsMove
<1>3. CASE BecomesDue(n)
  <2>1. /\ note' = [note EXCEPT ![n] = [note[n] EXCEPT !.due = TRUE]]
        /\ faults' = faults
    BY <1>3 DEF BecomesDue
  <2>2. /\ \A m \in NoteId : m # n => note'[m] = note[m]
        /\ note'[n] = [note[n] EXCEPT !.due = TRUE]
    BY <1>1, <2>1 DEF TypeOK
  <2>3. /\ note'[n].status = note[n].status /\ note'[n].attempts = note[n].attempts
        /\ note'[n].leased = note[n].leased
    BY <1>1, <2>2 DEF NoteRow
  <2>5. faults' >= faults
    BY <1>1, <2>1
  <2> QED
    BY <1>1, <2>2, <2>3, <2>5, RowsMove
<1> QED
  BY <1>2, <1>3

\* A worker moves within one notification, whose row stays.
LEMMA MoveCount ==
    ASSUME CountInv, TypeOK', NEW w \in Workers, worker[w].pc # "idle",
           worker'[w].batch = worker[w].batch, worker'[w].pc # "idle",
           \A v \in Workers : v # w => worker'[v] = worker[v],
           note' = note, requests' = requests, faults' >= faults,
           worker'[w].pc \in {"deliver", "load"} => worker[w].pc = "load",
           worker'[w].pc = "write" => worker'[w].seen = note[Current(w).id].attempts
    PROVE  CountNext
<1>1. AttemptsGrow
  BY DEF AttemptsGrow, CountInv, Inv, TypeOK, NoteRow
<1> DEFINE c == Current(w).id
<1>2. worker'[w].pc = "write" => worker'[w].seen <= note'[c].attempts
  <2>1. note[c].attempts \in Nat
    BY CurrentNote DEF CountInv, NoteRow
  <2> QED
    BY <2>1
<1>3. /\ \A v \in Workers : Orderly(v)'
      /\ \A n \in NoteId :
            /\ Holders(n)' = Holders(n)
            /\ n # c => Unsent(n)' = Unsent(n) /\ Stale(n)' = Stale(n)
            /\ n = c =>
                  /\ w \in Holders(n)
                  /\ Unsent(n)' = IF worker'[w].pc \in {"record", "sent", "read", "write"}
                                  THEN Unsent(n) \ {w} ELSE Unsent(n) \cup {w}
                  /\ Stale(n)' = IF worker'[w].pc = "write" /\ worker'[w].seen < MaxAttempts
                                 THEN Stale(n) \cup {w} ELSE Stale(n) \ {w}
  BY <1>1, <1>2, StaysAt
<1>4. ASSUME NEW n \in NoteId PROVE NoteMoves(n)
  <2>1. (Loose(n)' => Loose(n)) /\ (note[n].status = "failed" => note[n].attempts >= MaxAttempts)
    BY <1>3 DEF Loose, CountInv, Counted
  <2>2. CASE n # c
    BY <1>3, <2>1, <2>2 DEF NoteMoves, IsLost
  <2>3. CASE n = c
    <3>1. Unsent(n)' \subseteq Unsent(n)
      <4>1. CASE worker'[w].pc \in {"record", "sent", "read", "write"}
        BY <1>3, <2>3, <4>1
      <4>2. CASE worker'[w].pc \notin {"record", "sent", "read", "write"}
        <5>1. worker[w].pc = "load"
          BY <4>2 DEF TypeOK, WorkerState
        <5>2. w \in Unsent(n)
          BY <1>3, <2>3, <5>1 DEF Unsent, Asking, Holders
        <5> QED
          BY <1>3, <2>3, <4>2, <5>2
      <4> QED
        BY <4>1, <4>2
    <3>2. note[n].attempts >= MaxAttempts => Stale(n)' \subseteq Stale(n)
      <4> SUFFICES ASSUME note[n].attempts >= MaxAttempts PROVE Stale(n)' \subseteq Stale(n)
        OBVIOUS
      <4>1. ~(worker'[w].pc = "write" /\ worker'[w].seen < MaxAttempts)
        BY <2>3, WebhookOutboxAssumption DEF CountInv, Inv, TypeOK, NoteRow
      <4>2. Stale(n)' = Stale(n) \ {w}
        BY <1>3, <2>3, <4>1
      <4> QED
        BY <4>2
    <3> QED
      BY <1>3, <2>1, <3>1, <3>2 DEF NoteMoves, IsLost
  <2> QED
    BY <2>2, <2>3
<1> QED
  BY <1>3, <1>4 DEF CountNext

\* A worker goes on, and leaves the row as it is.
LEMMA SkipCount ==
    ASSUME CountInv, TypeOK', NEW w \in Workers, worker[w].pc # "idle", NextInBatch(w),
           note' = note, requests' = requests,
           \/ faults' = faults + 1
           \/ faults' >= faults /\ ~Exists(Current(w).id)
    PROVE  CountNext
<1>1. AttemptsGrow
  BY DEF AttemptsGrow, CountInv, Inv, TypeOK, NoteRow
<1> DEFINE c == Current(w).id
<1>2. /\ \A v \in Workers : Orderly(v)'
      /\ \A n \in NoteId :
            IF n = c
            THEN /\ Holders(n)' = Holders(n) \ {w} /\ w \in Holders(n)
                 /\ Unsent(n)' = Unsent(n) \ {w}
                 /\ Stale(n)' = Stale(n) \ {w}
            ELSE /\ Holders(n)' = Holders(n)
                 /\ Unsent(n)' = Unsent(n)
                 /\ Stale(n)' = Stale(n)
  BY <1>1, GoesOn
<1>3. ASSUME NEW n \in NoteId PROVE NoteMoves(n)
  <2>1. note[n].status = "failed" => note[n].attempts >= MaxAttempts
    BY DEF CountInv, Counted
  <2>2. /\ Holders(n)' \subseteq Holders(n) /\ Unsent(n)' \subseteq Unsent(n)
        /\ Stale(n)' \subseteq Stale(n)
    BY <1>2
  <2>3. CASE faults' = faults + 1
    BY <2>1, <2>2, <2>3 DEF NoteMoves, IsLost
  <2>4. CASE faults' >= faults /\ ~Exists(c)
    <3>1. Loose(n)' => Loose(n)
      BY <1>2, <2>4 DEF Loose, Exists
    <3> QED
      BY <2>1, <2>2, <2>4, <3>1 DEF NoteMoves, IsLost
  <2> QED
    BY <2>3, <2>4
<1> QED
  BY <1>2, <1>3 DEF CountNext

\* A worker's local move.
LEMMA GotoIs ==
    ASSUME TypeOK, NEW w \in Workers, NEW pc, Goto(w, pc)
    PROVE  /\ worker'[w].pc = pc /\ worker'[w].batch = worker[w].batch
           /\ \A v \in Workers : v # w => worker'[v] = worker[v]
  BY DEF Goto, TypeOK, WorkerState

LEMMA LocalCount ==
    ASSUME CountInv, TypeOK', NEW w \in Workers,
           \/ Load(w) \/ Record(w) \/ ReadAttempts(w)
           \/ LoadFails(w) \/ RecordFails(w) \/ MarkFails(w)
    PROVE  CountNext
<1>1. TypeOK /\ note' = note /\ requests' = requests /\ worker[w].pc # "idle"
  <2>1. note' = note /\ UNCHANGED wireVars /\ worker[w].pc # "idle"
    BY DEF Load, Record, ReadAttempts, LoadFails, RecordFails, MarkFails
  <2> QED
    BY <2>1 DEF wireVars, CountInv, Inv
<1>2. faults \in Nat /\ (faults' = faults \/ faults' = faults + 1)
  BY WebhookOutboxAssumption
     DEF CountInv, Inv, TypeOK, Load, Record, ReadAttempts, LoadFails, RecordFails, MarkFails, Fault
<1>3. faults' >= faults
  BY <1>2
<1>4. ASSUME NEW pc, Goto(w, pc), pc \in {"sent", "read"} \/ (pc = "deliver" /\ worker[w].pc = "load")
      PROVE  CountNext
  <2>1. /\ worker'[w].pc = pc /\ worker'[w].batch = worker[w].batch
        /\ \A v \in Workers : v # w => worker'[v] = worker[v]
    BY <1>1, <1>4, GotoIs
  <2> QED
    BY <1>1, <1>3, <1>4, <2>1, MoveCount
<1>5. CASE Load(w)
  BY <1>4, <1>5 DEF Load
<1>6. CASE Record(w)
  BY <1>4, <1>6 DEF Record, AfterRecord
<1>7. CASE LoadFails(w)
  BY <1>4, <1>7 DEF LoadFails
<1>8. CASE RecordFails(w)
  BY <1>4, <1>8 DEF RecordFails, AfterRecord
<1>9. CASE MarkFails(w)
  BY <1>1, <1>9, SkipCount DEF MarkFails, Fault
<1>10. CASE ReadAttempts(w) /\ ~Exists(Current(w).id)
  BY <1>1, <1>3, <1>10, SkipCount DEF ReadAttempts
<1>11. CASE ReadAttempts(w) /\ Exists(Current(w).id)
  <2> DEFINE k == note[Current(w).id].attempts
  <2>1. worker' = [worker EXCEPT ![w] = [worker[w] EXCEPT !.pc = "write", !.seen = k]]
    BY <1>1, <1>11 DEF ReadAttempts, TypeOK
  <2> HIDE DEF k
  <2>2. /\ worker'[w].pc = "write" /\ worker'[w].batch = worker[w].batch
        /\ worker'[w].seen = k
        /\ \A v \in Workers : v # w => worker'[v] = worker[v]
    BY <1>1, <2>1 DEF TypeOK, WorkerState
  <2> QED
    BY <1>1, <1>3, <2>2, MoveCount DEF k
<1> QED
  BY <1>5, <1>6, <1>7, <1>8, <1>9, <1>10, <1>11

LEMMA DeliverCount == ASSUME CountInv, TypeOK', NEW w \in Workers, Deliver(w) PROVE CountNext
<1> DEFINE c == Current(w).id
<1>1. /\ TypeOK /\ worker[w].pc = "deliver" /\ note' = note /\ faults' = faults
      /\ requests' = [requests EXCEPT ![c] = @ + 1]
  BY DEF Deliver, CountInv, Inv
<1>2. PICK reached \in BOOLEAN : \E ok \in {FALSE, reached} :
         worker' = [worker EXCEPT ![w].pc = "record", ![w].ok = ok]
  BY Zenon DEF Deliver
<1>3. PICK ok \in {FALSE, reached} :
         worker' = [worker EXCEPT ![w].pc = "record", ![w].ok = ok]
  BY <1>2, Zenon
<1>4. /\ worker'[w].pc = "record" /\ worker'[w].batch = worker[w].batch
      /\ \A v \in Workers : v # w => worker'[v] = worker[v]
  BY <1>1, <1>3 DEF TypeOK, WorkerState
<1>5. AttemptsGrow
  BY <1>1 DEF AttemptsGrow, TypeOK, NoteRow
<1>6. /\ \A v \in Workers : Orderly(v)'
      /\ \A n \in NoteId :
            /\ Holders(n)' = Holders(n)
            /\ n # c => Unsent(n)' = Unsent(n) /\ Stale(n)' = Stale(n)
            /\ n = c =>
                  /\ w \in Holders(n)
                  /\ Unsent(n)' = IF worker'[w].pc \in {"record", "sent", "read", "write"}
                                  THEN Unsent(n) \ {w} ELSE Unsent(n) \cup {w}
                  /\ Stale(n)' = IF worker'[w].pc = "write" /\ worker'[w].seen < MaxAttempts
                                 THEN Stale(n) \cup {w} ELSE Stale(n) \ {w}
  BY <1>1, <1>4, <1>5, StaysAt
<1>7. faults \in Nat /\ requests \in [NoteId -> Nat]
  BY <1>1, WebhookOutboxAssumption DEF TypeOK
<1>8. ASSUME NEW n \in NoteId PROVE NoteMoves(n)
  <2>1. (Loose(n)' => Loose(n)) /\ (note[n].status = "failed" => note[n].attempts >= MaxAttempts)
    BY <1>1, <1>6 DEF Loose, CountInv, Counted
  <2>2. CASE n # c
    <3>1. requests'[n] = requests[n] /\ faults' >= faults
      BY <1>1, <1>7, <2>2
    <3> QED
      BY <1>1, <1>6, <2>1, <2>2, <3>1 DEF NoteMoves, IsLost
  <2>3. CASE n = c
    <3>1. requests'[n] = requests[n] + 1
      BY <1>1, <1>7, <2>3
    <3>2. w \in Unsent(n)
      BY <1>1, <1>6, <2>3 DEF Unsent, Asking, Holders
    <3>3. Unsent(n)' = Unsent(n) \ {w} /\ Stale(n)' = Stale(n) \ {w}
      BY <1>4, <1>6, <2>3
    <3> QED
      BY <1>1, <1>6, <2>1, <3>1, <3>2, <3>3 DEF NoteMoves, IsAsked
  <2> QED
    BY <2>2, <2>3
<1> QED
  BY <1>6, <1>8 DEF CountNext

LEMMA CrashCount == ASSUME CountInv, TypeOK', NEW w \in Workers, Crash(w) PROVE CountNext
<1>1. /\ TypeOK /\ worker' = [worker EXCEPT ![w] = Idle] /\ faults' = faults + 1
      /\ note' = note /\ requests' = requests
  BY DEF Crash, Fault, wireVars, CountInv, Inv
<1>2. /\ worker'[w].pc = "idle" /\ worker'[w].batch = <<>>
      /\ \A v \in Workers : v # w => worker'[v] = worker[v]
  BY <1>1 DEF TypeOK, Idle, Holding
<1>3. InHand(w)' = {} /\ NoTwice(<<>>)
  BY <1>2 DEF InHand, IdsOf, NoTwice
<1>4. AttemptsGrow
  BY <1>1 DEF AttemptsGrow, TypeOK, NoteRow
<1>5. Orderly(w)'
  BY <1>2, <1>3 DEF Orderly
<1>6. /\ \A v \in Workers : v # w => Orderly(v)'
      /\ \A n \in NoteId : \A v \in Workers : v # w =>
            /\ v \in Holders(n)' <=> v \in Holders(n)
            /\ v \in Unsent(n)' <=> v \in Unsent(n)
            /\ v \in Stale(n)' <=> v \in Stale(n)
      /\ \A n \in NoteId :
            /\ w \in Holders(n)' <=> n \in InHand(w)'
            /\ w \in Unsent(n)' <=> Asking(w, n)'
            /\ w \in Stale(n)' <=> Failing(w, n)'
  BY <1>2, <1>4, OneHand
<1>7. ASSUME NEW n \in NoteId PROVE NoteMoves(n)
  <2>1. w \notin Holders(n)' /\ w \notin Unsent(n)' /\ w \notin Stale(n)'
    BY <1>3, <1>6 DEF Asking, Failing
  <2>2. Holders(n)' \subseteq Holders(n)
    BY <1>6, <2>1 DEF Holders
  <2>3. Unsent(n)' \subseteq Unsent(n)
    BY <1>6, <2>1 DEF Unsent
  <2>4. Stale(n)' \subseteq Stale(n)
    BY <1>6, <2>1 DEF Stale
  <2>5. note[n].status = "failed" => note[n].attempts >= MaxAttempts
    BY DEF CountInv, Counted
  <2> QED
    BY <1>1, <2>2, <2>3, <2>4, <2>5 DEF NoteMoves, IsLost
<1> QED
  BY <1>5, <1>6, <1>7 DEF CountNext

\* Only rows that nobody has in hand without a fault are claimed.
LEMMA ClaimCount == ASSUME CountInv, TypeOK', NEW w \in Workers, Claim(w) PROVE CountNext
<1>1. TypeOK /\ \A n \in NoteId : note[n] \in NoteRow
  BY DEF CountInv, Inv, TypeOK
<1> DEFINE Batch(k, ids) == [i \in 1..k |-> [id |-> ids[i], hook |-> note[ids[i]].hook,
                                            payload |-> note[ids[i]].payload]]
           Claims(k, ids) ==
              /\ IsNextBatch(ids)
              /\ note' = [n \in NoteId |-> IF \E i \in 1..k : ids[i] = n
                                           THEN Taken(note[n]) ELSE note[n]]
              /\ worker' = [worker EXCEPT ![w] = Holding("load", Batch(k, ids))]
<1>2. PICK k \in 1..BatchSize : \E ids \in [1..k -> ClaimableIds] : Claims(k, ids)
  BY DEF Claim
<1>3. PICK ids \in [1..k -> ClaimableIds] : Claims(k, ids)
  BY <1>2
<1> DEFINE batch == Batch(k, ids)
           taken == {ids[i] : i \in 1..k}
<1>4. /\ worker[w].pc = "idle" /\ worker[w].batch = <<>>
      /\ faults' = faults /\ requests' = requests
  BY DEF Claim, CountInv, Orderly, wireVars
<1>5. /\ worker'[w].pc = "load" /\ worker'[w].batch = batch
      /\ \A v \in Workers : v # w => worker'[v] = worker[v]
  BY <1>1, <1>3 DEF Holding, TypeOK
<1>6. IdsOf(batch) = taken /\ NoTwice(batch)
  <2>1. DOMAIN ids = 1..k /\ DOMAIN batch = 1..k /\ \A i \in 1..k : batch[i].id = ids[i]
    OBVIOUS
  <2>2. \A i, j \in 1..k : i < j => ids[i] # ids[j]
    BY <1>3, <2>1 DEF IsNextBatch
  <2>3. \A i, j \in 1..k : i # j => i < j \/ j < i
    OBVIOUS
  <2>4. \A i, j \in 1..k : i # j => ids[i] # ids[j]
    BY <2>2, <2>3
  <2> QED
    BY <2>1, <2>4 DEF IdsOf, NoTwice
<1>7. \A n \in taken : n \in NoteId /\ Claimable(n)
  BY DEF ClaimableIds
<1>8. \A n \in NoteId : note'[n] = IF n \in taken THEN Taken(note[n]) ELSE note[n]
  BY <1>3
<1> HIDE DEF batch, taken, Claims
<1>9. \A n \in NoteId : LET r == Taken(note[n]) IN
         r.status = "sending" /\ r.leased /\ r.attempts = note[n].attempts + 1
  <2> SUFFICES ASSUME NEW n \in NoteId
               PROVE  LET r == Taken(note[n]) IN
                      r.status = "sending" /\ r.leased /\ r.attempts = note[n].attempts + 1
    OBVIOUS
  <2>1. Taken(note[n]).status = "sending" /\ Taken(note[n]).attempts = note[n].attempts + 1
    BY <1>1, TakenRow
  <2>2. Taken(note[n]).leased = TRUE
    BY <1>1 DEF Taken, NoteRow
  <2> QED
    BY <2>1, <2>2
<1>10. AttemptsGrow
  <2>1. \A n \in NoteId : note[n].attempts \in Nat
    BY <1>1 DEF NoteRow
  <2> QED
    BY <1>8, <1>9, <2>1 DEF AttemptsGrow
<1>11. InHand(w) = {} /\ InHand(w)' = taken
  BY <1>4, <1>5, <1>6 DEF InHand, IdsOf
<1>12. /\ \A v \in Workers : v # w => Orderly(v)'
       /\ \A n \in NoteId : \A v \in Workers : v # w =>
             /\ v \in Holders(n)' <=> v \in Holders(n)
             /\ v \in Unsent(n)' <=> v \in Unsent(n)
             /\ v \in Stale(n)' <=> v \in Stale(n)
       /\ \A n \in NoteId :
             /\ w \in Holders(n)' <=> n \in InHand(w)'
             /\ w \in Unsent(n)' <=> Asking(w, n)'
             /\ w \in Stale(n)' <=> Failing(w, n)'
  BY <1>5, <1>10, OneHand
<1>13. Orderly(w)'
  BY <1>5, <1>6 DEF Orderly
<1>14. ASSUME NEW n \in NoteId PROVE NoteMoves(n)
  <2>1. /\ w \notin Holders(n) /\ w \notin Unsent(n) /\ w \notin Stale(n)
        /\ w \in Holders(n)' <=> n \in taken
        /\ w \in Unsent(n)' <=> n \in taken
        /\ w \notin Stale(n)'
    BY <1>5, <1>11, <1>12 DEF Holders, Unsent, Stale, Asking, Failing
  <2>2. Stale(n)' = Stale(n)
    <3>1. /\ Stale(n) \in SUBSET Workers /\ Stale(n)' \in SUBSET Workers
          /\ \A v \in Workers : v # w => (v \in Stale(n)' <=> v \in Stale(n))
          /\ w \in Stale(n)' <=> w \in Stale(n)
      BY <1>12, <2>1 DEF Stale
    <3> QED
      BY <3>1, DifferAt
  <2>3. Holders(n)' = IF n \in taken THEN Holders(n) \cup {w} ELSE Holders(n)
    <3>1. /\ Holders(n) \in SUBSET Workers /\ Holders(n)' \in SUBSET Workers
          /\ \A v \in Workers : v # w => (v \in Holders(n)' <=> v \in Holders(n))
      BY <1>12 DEF Holders
    <3>2. /\ n \in taken => w \in Holders(n)'
          /\ n \notin taken => (w \in Holders(n)' <=> w \in Holders(n))
      BY <2>1
    <3>3. /\ w \in Holders(n)' => Holders(n)' = Holders(n) \cup {w}
          /\ (w \in Holders(n)' <=> w \in Holders(n)) => Holders(n)' = Holders(n)
      BY <3>1, DifferAt
    <3> QED
      BY <3>2, <3>3
  <2>4. Unsent(n)' = IF n \in taken THEN Unsent(n) \cup {w} ELSE Unsent(n)
    <3>1. /\ Unsent(n) \in SUBSET Workers /\ Unsent(n)' \in SUBSET Workers
          /\ \A v \in Workers : v # w => (v \in Unsent(n)' <=> v \in Unsent(n))
      BY <1>12 DEF Unsent
    <3>2. /\ n \in taken => w \in Unsent(n)'
          /\ n \notin taken => (w \in Unsent(n)' <=> w \in Unsent(n))
      BY <2>1
    <3>3. /\ w \in Unsent(n)' => Unsent(n)' = Unsent(n) \cup {w}
          /\ (w \in Unsent(n)' <=> w \in Unsent(n)) => Unsent(n)' = Unsent(n)
      BY <3>1, DifferAt
    <3> QED
      BY <3>2, <3>3
  <2>5. faults' >= faults
    BY <1>1, <1>4, WebhookOutboxAssumption DEF TypeOK
  <2>6. CASE n \in taken
    <3>1. /\ note'[n].status = "sending" /\ note'[n].leased
          /\ note'[n].attempts = note[n].attempts + 1
      BY <1>8, <1>9, <2>6
    <3>2. Loose(n)
      <4>1. Claimable(n)
        BY <1>7, <2>6
      <4> QED
        BY <4>1 DEF Loose, Claimable
    <3>3. ~Loose(n)'
      BY <2>1, <2>6, <3>1 DEF Loose
    <3> QED
      BY <1>4, <2>2, <2>3, <2>4, <2>6, <3>1, <3>2, <3>3 DEF NoteMoves, IsTakenUp
  <2>7. CASE n \notin taken
    <3>1. note'[n] = note[n]
      BY <1>8, <2>7
    <3>2. Loose(n)' => Loose(n)
      BY <2>3, <2>7, <3>1 DEF Loose
    <3>3. note[n].status = "failed" => note[n].attempts >= MaxAttempts
      BY DEF CountInv, Counted
    <3> QED
      BY <1>4, <2>2, <2>3, <2>4, <2>5, <2>7, <3>1, <3>2, <3>3 DEF NoteMoves, IsLost
  <2> QED
    BY <2>6, <2>7
<1> QED
  BY <1>12, <1>13, <1>14 DEF CountNext

\* A mark lets go of the row: sent, given up, or due again.
LEMMA MarkCount ==
    ASSUME CountInv, TypeOK', NEW w \in Workers, MarkSent(w) \/ MarkFailed(w)
    PROVE  CountNext
<1> DEFINE c == Current(w).id
<1>1. /\ TypeOK /\ worker[w].pc \in {"sent", "write"} /\ NextInBatch(w)
      /\ faults' = faults /\ requests' = requests /\ faults \in Nat
  <2>1. TypeOK /\ faults \in Nat
    BY WebhookOutboxAssumption DEF CountInv, Inv, TypeOK
  <2> QED
    BY <2>1 DEF MarkSent, MarkFailed, wireVars
<1>2. c \in NoteId /\ note[c] \in NoteRow /\ worker[w].seen \in Nat
  BY <1>1, CurrentNote DEF CountInv, WorkerState
<1>3. \A n \in NoteId : n # c => note'[n] = note[n]
  BY <1>1 DEF MarkSent, MarkFailed, TypeOK
<1>4. CASE note'[c] = note[c] /\ ~Exists(c)
  <2>1. note' = note
    BY <1>4 DEF MarkSent, MarkFailed
  <2>2. faults' >= faults
    BY <1>1
  <2> QED
    BY <1>1, <1>4, <2>1, <2>2, SkipCount
<1>5. ASSUME Exists(c), MarkSent(w)
      PROVE  note'[c].status = "sent" /\ note'[c].attempts = note[c].attempts
  <2>1. note' = [note EXCEPT ![c] = [note[c] EXCEPT !.status = "sent", !.leased = FALSE]]
    BY <1>5 DEF MarkSent
  <2>2. note'[c] = [note[c] EXCEPT !.status = "sent", !.leased = FALSE]
    BY <1>1, <1>2, <2>1 DEF TypeOK
  <2> QED
    BY <1>2, <2>2, SentRow
<1>6. ASSUME Exists(c), MarkFailed(w)
      PROVE  /\ note'[c].status = IF worker[w].seen >= MaxAttempts THEN "failed" ELSE "pending"
             /\ note'[c].attempts = note[c].attempts
  <2>1. note' = [note EXCEPT ![c] = Failed(note[c], worker[w].seen)]
    BY <1>6 DEF MarkFailed
  <2>2. note'[c] = Failed(note[c], worker[w].seen)
    BY <1>1, <1>2, <2>1 DEF TypeOK
  <2> QED
    BY <1>2, <2>2 DEF Failed, GivenUp, NoteRow
<1>7. ~Exists(c) => note'[c] = note[c]
  BY DEF MarkSent, MarkFailed
<1>8. CASE Exists(c)
  <2>1. note'[c].attempts = note[c].attempts
    BY <1>5, <1>6, <1>8
  <2>2. AttemptsGrow
    <3>1. \A n \in NoteId : note[n].attempts \in Nat /\ note'[n].attempts = note[n].attempts
      BY <1>1, <1>3, <2>1 DEF TypeOK, NoteRow
    <3> QED
      BY <3>1 DEF AttemptsGrow
  <2>3. /\ \A v \in Workers : Orderly(v)'
        /\ \A n \in NoteId :
              IF n = c
              THEN /\ Holders(n)' = Holders(n) \ {w} /\ w \in Holders(n)
                   /\ Unsent(n)' = Unsent(n) \ {w}
                   /\ Stale(n)' = Stale(n) \ {w}
              ELSE /\ Holders(n)' = Holders(n)
                   /\ Unsent(n)' = Unsent(n)
                   /\ Stale(n)' = Stale(n)
    BY <1>1, <2>2, GoesOn
  <2>4. ASSUME NEW n \in NoteId PROVE NoteMoves(n)
    <3>1. note[n].status = "failed" => note[n].attempts >= MaxAttempts
      BY DEF CountInv, Counted
    <3>2. CASE n # c
      <4>1. Loose(n)' => Loose(n)
        BY <1>3, <2>3, <3>2 DEF Loose
      <4> QED
        BY <1>1, <1>3, <2>3, <3>1, <3>2, <4>1 DEF NoteMoves, IsLost
    <3>3. CASE n = c /\ note'[n].status \notin {"pending", "failed"}
      <4>1. note'[n].status = "sent"
        BY <1>5, <1>6, <1>8, <3>3
      <4>2. ~Loose(n)'
        BY <4>1 DEF Loose
      <4> QED
        BY <1>1, <2>1, <2>3, <3>3, <4>1, <4>2 DEF NoteMoves, IsLost
    <3>4. CASE n = c /\ note'[n].status = "failed"
      <4>1. MarkFailed(w) /\ worker[w].seen >= MaxAttempts
        BY <1>5, <1>6, <1>8, <3>4
      <4>2. worker[w].seen <= note[n].attempts
        BY <3>4, <4>1 DEF MarkFailed, CountInv, Orderly
      <4>3. note[n].attempts >= MaxAttempts
        BY <1>2, <3>4, <4>1, <4>2, WebhookOutboxAssumption DEF NoteRow
      <4>4. ~Loose(n)'
        BY <3>4 DEF Loose
      <4> QED
        BY <1>1, <2>1, <2>3, <3>4, <4>3, <4>4 DEF NoteMoves, IsLost
    <3>5. CASE n = c /\ note'[n].status = "pending"
      <4>1. MarkFailed(w) /\ ~(worker[w].seen >= MaxAttempts)
        BY <1>5, <1>6, <1>8, <3>5
      <4>2. worker[w].seen < MaxAttempts
        BY <1>2, <4>1, WebhookOutboxAssumption
      <4>3. w \in Stale(n)
        BY <2>3, <3>5, <4>1, <4>2 DEF Stale, Failing, Holders, MarkFailed
      <4> QED
        BY <1>1, <2>1, <2>3, <3>5, <4>3 DEF NoteMoves, IsGivenBack
    <3> QED
      BY <3>2, <3>3, <3>4, <3>5
  <2> QED
    BY <2>3, <2>4 DEF CountNext
<1> QED
  BY <1>4, <1>7, <1>8

-----------------------------------------------------------------------------
LEMMA InitCount == Init => CountInv
<1> SUFFICES ASSUME Init PROVE CountInv
  OBVIOUS
<1>1. Inv
  BY InitInv
<1>2. \A w \in Workers : worker[w].pc = "idle" /\ worker[w].batch = <<>>
  BY DEF Init, Idle, Holding
<1>3. IdsOf(<<>>) = {} /\ NoTwice(<<>>)
  BY DEF IdsOf, NoTwice
<1>4. \A w \in Workers : Orderly(w)
  BY <1>2, <1>3 DEF Orderly
<1>5. ASSUME NEW n \in NoteId PROVE Counted(n)
  <2>1. note[n].status = "none" /\ note[n].attempts = 0 /\ requests[n] = 0 /\ faults = 0
    BY NoNoteTyped DEF Init
  <2>2. Holders(n) = {} /\ Unsent(n) = {}
    BY <1>2, <1>3 DEF Holders, Unsent, Asking, InHand
  <2>3. IsFiniteSet({}) /\ Cardinality({}) = 0
    BY FS_EmptySet
  <2>4. ~Loose(n)
    BY <2>1 DEF Loose
  <2> QED
    BY <2>1, <2>2, <2>3, <2>4, WebhookOutboxAssumption DEF Counted
<1> QED
  BY <1>1, <1>4, <1>5 DEF CountInv

LEMMA NextCount == CountInv /\ [Next]_vars => CountInv'
<1> SUFFICES ASSUME CountInv, [Next]_vars PROVE CountInv'
  OBVIOUS
<1>1. Inv' /\ TypeOK' /\ TypeOK
  BY StepInv DEF CountInv, Inv
<1>2. SUFFICES CountNext
  BY <1>1, <1>2, NotesAreCounted DEF CountInv, CountNext
<1>3. CASE Handler
  BY <1>1, <1>3, HandlerCount
<1>4. ASSUME NEW w \in Workers,
             Dispatch(w) \/ LoadFails(w) \/ RecordFails(w) \/ MarkFails(w) \/ Crash(w)
      PROVE  CountNext
  BY <1>1, <1>4, ClaimCount, LocalCount, DeliverCount, MarkCount, CrashCount DEF Dispatch
<1>5. ASSUME NEW n \in NoteId, LeaseExpires(n) \/ BecomesDue(n) PROVE CountNext
  BY <1>1, <1>5, TimeCount
<1>6. CASE UNCHANGED vars
  <2>1. worker' = worker /\ requests' = requests /\ note' = note /\ faults' = faults
    BY <1>6 DEF vars, wireVars
  <2>2. faults' >= faults
    BY <1>1, <2>1, WebhookOutboxAssumption DEF TypeOK
  <2> QED
    BY <1>1, <2>1, <2>2, RowsMove
<1> QED
  BY <1>3, <1>4, <1>5, <1>6 DEF Next

\* Every request was counted as an attempt before it went out, a notification is
\* given up only after all its attempts, and every attempt beyond them is owed to
\* a fault, however many dispatchers there are.
THEOREM EveryRequestIsCounted == Spec => []RequestsAreCounted
<1>1. CountInv => RequestsAreCounted
  <2> SUFFICES ASSUME CountInv, NEW n \in NoteId
               PROVE  /\ requests[n] <= note[n].attempts
                      /\ note[n].attempts <= MaxAttempts + faults
                      /\ note[n].status = "failed" => note[n].attempts >= MaxAttempts
    BY DEF RequestsAreCounted
  <2>1. Counted(n) /\ Unsent(n) \subseteq Holders(n) /\ Stale(n) \subseteq Holders(n)
    BY HoldersAre DEF CountInv
  <2>2. Cardinality(Unsent(n)) \in Nat /\ Cardinality(Stale(n)) \in Nat
    BY <2>1, SmallerSets DEF Counted
  <2>3. /\ note[n].attempts \in Nat /\ requests[n] \in Nat /\ faults \in Nat
        /\ MaxAttempts \in Nat
    BY WebhookOutboxAssumption DEF CountInv, Inv, TypeOK, NoteRow
  <2> QED
    BY <2>1, <2>2, <2>3 DEF Counted
<1> QED
  BY <1>1, InitCount, NextCount, PTL DEF Spec
=============================================================================
