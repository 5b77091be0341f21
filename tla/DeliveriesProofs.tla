-------------------------- MODULE DeliveriesProofs --------------------------
(***************************************************************************)
(* Proofs about Deliveries, for any number of processes, events and        *)
(* deliveries, any batch size and any limits on attempts.                  *)
(***************************************************************************)
EXTENDS Deliveries, FiniteSetTheorems, SequenceTheorems, TLAPS

-----------------------------------------------------------------------------
\* The inductive invariant of the outbox.

\* A row that pending may return has attempts left.
EntryOK(r) == r \in Entry /\ (~r.failed => r.attempts < OutboxMaxAttempts)

BatchCopy == [event : Event, attempts : 0 .. (OutboxMaxAttempts - 1)]

RelayRecord == [batch : Seq(BatchCopy), results : Seq(BOOLEAN)]

\* A relay has rows that exist, and calls an event published only when the bus
\* has taken it.
RelayOK(r, rows, taken) ==
  /\ Len(r.results) <= Len(r.batch)
  /\ \A n \in 1 .. Len(r.batch) : rows[r.batch[n].event].there
  /\ \A n \in 1 .. Len(r.results) : r.results[n] => r.batch[n].event \in taken

OutboxInv ==
  /\ entry \in [Event -> Entry] /\ \A e \in Event : EntryOK(entry[e])
  /\ bus \subseteq Event
  /\ relay \in [Process -> RelayRecord]
  /\ \A p \in Process : RelayOK(relay[p], entry, bus)

-----------------------------------------------------------------------------
\* Sequences.

LEMMA SeqFacts ==
  ASSUME NEW S, NEW s \in Seq(S)
  PROVE  /\ Len(s) \in Nat /\ DOMAIN s = 1 .. Len(s) /\ \A n \in 1 .. Len(s) : s[n] \in S
         /\ s # <<>> <=> Len(s) >= 1
  OBVIOUS

LEMMA TailFacts ==
  ASSUME NEW S, NEW s \in Seq(S), s # <<>>
  PROVE  /\ Tail(s) \in Seq(S) /\ Len(Tail(s)) = Len(s) - 1
         /\ 1 \in DOMAIN s /\ Head(s) = s[1]
         /\ \A n \in DOMAIN Tail(s) : n + 1 \in DOMAIN s /\ Tail(s)[n] = s[n + 1]
  BY HeadTailProperties

LEMMA AppendFacts ==
  ASSUME NEW S, NEW s \in Seq(S), NEW x \in S
  PROVE  /\ Append(s, x) \in Seq(S) /\ Len(Append(s, x)) = Len(s) + 1
         /\ Append(s, x)[Len(s) + 1] = x
         /\ \A n \in 1 .. Len(s) : Append(s, x)[n] = s[n]
  OBVIOUS

-----------------------------------------------------------------------------
\* The steps of the outbox.

LEMMA RestingOK ==
  ASSUME NEW rows, NEW taken
  PROVE  Resting \in RelayRecord /\ RelayOK(Resting, rows, taken)
  BY DEF RelayOK, Resting, RelayRecord

LEMMA RelayFacts ==
  ASSUME NEW r \in RelayRecord
  PROVE  /\ r.batch \in Seq(BatchCopy) /\ r.results \in Seq(BOOLEAN)
         /\ Len(r.batch) \in Nat /\ Len(r.results) \in Nat
         /\ DOMAIN r.batch = 1 .. Len(r.batch)
         /\ \A n \in 1 .. Len(r.batch) : /\ r.batch[n].event \in Event
                                         /\ r.batch[n].attempts \in 0 .. (OutboxMaxAttempts - 1)
         /\ \A n \in 1 .. Len(r.results) : r.results[n] \in BOOLEAN
  <1>1. r.batch \in Seq(BatchCopy) /\ r.results \in Seq(BOOLEAN)
    BY DEF RelayRecord
  <1>2. \A n \in 1 .. Len(r.batch) : r.batch[n] \in BatchCopy
    BY <1>1, SeqFacts
  <1>3. \A n \in 1 .. Len(r.results) : r.results[n] \in BOOLEAN
    BY <1>1, SeqFacts
  <1> QED
    BY <1>1, <1>2, <1>3, SeqFacts DEF BatchCopy

\* Rows are never deleted and the bus forgets nothing.
LEMMA RelayKeeps ==
  ASSUME NEW r \in RelayRecord, NEW rows, NEW taken, RelayOK(r, rows, taken), NEW rows2, NEW taken2,
         \A e \in Event : rows[e].there => rows2[e].there, taken \subseteq taken2
  PROVE  RelayOK(r, rows2, taken2)
  BY RelayFacts DEF RelayOK

\* One relay changes; the rows and the bus only grow.
LEMMA OneRelayInv ==
  ASSUME OutboxInv, NEW p \in Process, NEW r \in RelayRecord, relay' = [relay EXCEPT ![p] = r],
         RelayOK(r, entry', bus'),
         entry' \in [Event -> Entry], \A e \in Event : EntryOK(entry'[e]), bus' \subseteq Event,
         \A e \in Event : entry[e].there => entry'[e].there, bus \subseteq bus'
  PROVE  OutboxInv'
  <1>1. /\ relay'[p] = r /\ relay' \in [Process -> RelayRecord]
        /\ \A q \in Process \ {p} : relay'[q] = relay[q]
    BY DEF OutboxInv
  <1>2. \A q \in Process : relay[q] \in RelayRecord /\ RelayOK(relay[q], entry, bus)
    BY DEF OutboxInv
  <1>3. \A q \in Process : RelayOK(relay'[q], entry', bus')
    BY <1>1, <1>2, RelayKeeps
  <1> QED
    BY <1>1, <1>3 DEF OutboxInv

LEMMA AppendEntryInv ==
  ASSUME OutboxInv, NEW e \in Event, AppendEntry(e)
  PROVE  OutboxInv'
  <1> DEFINE r == [entry[e] EXCEPT !.there = TRUE]
  <1>1. entry \in [Event -> Entry] /\ entry[e] \in Entry /\ EntryOK(entry[e])
    BY DEF OutboxInv
  <1>2. r \in Entry
    BY <1>1, Zenon DEF Entry
  <1>3. r.there /\ r.failed = entry[e].failed /\ r.attempts = entry[e].attempts
    BY <1>1 DEF Entry
  <1>4. entry' = [entry EXCEPT ![e] = r] /\ UNCHANGED <<relay, bus>>
    BY DEF AppendEntry
  <1> HIDE DEF r
  <1>5. entry' \in [Event -> Entry] /\ entry'[e] = r /\ \A f \in Event \ {e} : entry'[f] = entry[f]
    BY <1>1, <1>2, <1>4
  <1>6. \A f \in Event : EntryOK(entry'[f])
    BY <1>1, <1>2, <1>3, <1>5 DEF OutboxInv, EntryOK
  <1>7. \A q \in Process : relay[q] \in RelayRecord /\ RelayOK(relay[q], entry, bus)
    BY DEF OutboxInv
  <1>8. \A q \in Process : RelayOK(relay[q], entry', bus')
    BY <1>3, <1>4, <1>5, <1>7, RelayKeeps
  <1> QED
    BY <1>4, <1>5, <1>6, <1>8 DEF OutboxInv

\* read_pending: the rows it returns exist and have attempts left.
LEMMA ReadPendingInv ==
  ASSUME OutboxInv, NEW p \in Process, ReadPending(p)
  PROVE  OutboxInv'
  <1>1. PICK D \in DueSets : \E s \in FirstOf(D) :
          relay' = [relay EXCEPT ![p].batch =
                      [n \in DOMAIN s |-> [event |-> s[n], attempts |-> entry[s[n]].attempts]]]
    BY DEF ReadPending
  <1>2. PICK s \in FirstOf(D) :
          relay' = [relay EXCEPT ![p].batch =
                      [n \in DOMAIN s |-> [event |-> s[n], attempts |-> entry[s[n]].attempts]]]
    BY <1>1
  <1> DEFINE size == IF BatchSize < Cardinality(D) THEN BatchSize ELSE Cardinality(D)
             b == [n \in DOMAIN s |-> [event |-> s[n], attempts |-> entry[s[n]].attempts]]
             r == [relay[p] EXCEPT !.batch = b]
  <1>3. s \in [1 .. size -> D]
    BY DEF FirstOf
  <1>4. \A e \in D : e \in Event /\ Open(e)
    BY DEF DueSets
  <1>5. size \in Nat
    <2>1. D \in SUBSET Event /\ IsFiniteSet(Event)
      BY OutboxAssumption, FS_Interval DEF DueSets, Event
    <2>2. Cardinality(D) \in Nat
      BY <2>1, FS_Subset, FS_CardinalityType
    <2> QED
      BY <2>2, OutboxAssumption
  <1> HIDE DEF size
  <1>6. \A n \in 1 .. size : /\ b[n].event \in D
                             /\ b[n] \in BatchCopy
    <2> SUFFICES ASSUME NEW n \in 1 .. size PROVE b[n].event \in D /\ b[n] \in BatchCopy
      OBVIOUS
    <2>1. s[n] \in Event /\ Open(s[n]) /\ EntryOK(entry[s[n]]) /\ s[n] \in D
      BY <1>3, <1>4 DEF OutboxInv
    <2>2. entry[s[n]].attempts \in 0 .. (OutboxMaxAttempts - 1)
      BY <2>1, OutboxAssumption DEF Open, EntryOK, Entry
    <2>3. b[n] = [event |-> s[n], attempts |-> entry[s[n]].attempts]
      BY <1>3
    <2> QED
      BY <2>1, <2>2, <2>3 DEF BatchCopy
  <1>7. b \in Seq(BatchCopy) /\ Len(b) = size
    <2>1. b \in [1 .. size -> BatchCopy]
      BY <1>3, <1>6
    <2> QED
      BY <1>5, <2>1, IsASeq
  <1> HIDE DEF b
  <1>8. relay[p] = Resting /\ UNCHANGED <<entry, bus>>
    BY DEF ReadPending
  <1>9. r \in RelayRecord /\ r.batch = b /\ r.results = <<>>
    <2>1. relay[p] \in RelayRecord /\ relay[p].results = <<>>
      BY <1>8 DEF OutboxInv, Resting
    <2>2. r \in RelayRecord
      BY <1>7, <2>1, Zenon DEF RelayRecord
    <2>3. r.batch = b /\ r.results = relay[p].results
      BY <2>1 DEF RelayRecord
    <2> QED
      BY <2>1, <2>2, <2>3
  <1>10. relay' = [relay EXCEPT ![p] = r]
    BY <1>2 DEF b
  <1> HIDE DEF r
  <1>11. RelayOK(r, entry, bus)
    <2>1. \A n \in 1 .. Len(b) : entry[b[n].event].there
      BY <1>4, <1>6, <1>7 DEF Open
    <2>2. Len(r.results) = 0
      BY <1>9
    <2> QED
      BY <1>5, <1>7, <1>9, <2>1, <2>2 DEF RelayOK
  <1> QED
    BY <1>8, <1>9, <1>10, <1>11, OneRelayInv DEF OutboxInv

\* publish_events: a result is kept for every event that was sent.
LEMMA PublishInv ==
  ASSUME OutboxInv, NEW p \in Process, Publish(p)
  PROVE  /\ OutboxInv'
         /\ \/ bus' = bus
            \/ \E e \in Event : entry[e].there /\ bus' = bus \cup {e}
  <1> DEFINE n == Len(relay[p].results) + 1
  <1>1. relay[p] \in RelayRecord /\ RelayOK(relay[p], entry, bus) /\ relay \in [Process -> RelayRecord]
    BY DEF OutboxInv
  <1>2. n \in 1 .. Len(relay[p].batch) /\ UNCHANGED entry
    BY <1>1, RelayFacts DEF Publish
  <1>3. PICK ok \in BOOLEAN, took \in BOOLEAN :
          /\ ok => took
          /\ relay' = [relay EXCEPT ![p].results = Append(@, ok)]
          /\ bus' = IF took THEN bus \cup {relay[p].batch[n].event} ELSE bus
    BY DEF Publish
  <1>4. relay[p].batch[n].event \in Event /\ entry[relay[p].batch[n].event].there
    BY <1>1, <1>2, RelayFacts DEF RelayOK
  <1> DEFINE q == Append(relay[p].results, ok)
             r == [relay[p] EXCEPT !.results = q]
  <1>5. /\ q \in Seq(BOOLEAN) /\ Len(q) = n /\ q[n] = ok
        /\ \A k \in 1 .. Len(relay[p].results) : q[k] = relay[p].results[k]
    BY <1>1, RelayFacts, AppendFacts
  <1> HIDE DEF q
  <1>6. r \in RelayRecord /\ r.results = q /\ r.batch = relay[p].batch
    BY <1>1, <1>5 DEF RelayRecord
  <1>7. relay' = [relay EXCEPT ![p] = r]
    BY <1>3 DEF q
  <1> HIDE DEF r
  <1>8. RelayOK(r, entry, bus')
    <2>1. Len(r.results) <= Len(r.batch)
      BY <1>2, <1>5, <1>6
    <2>2. \A k \in 1 .. Len(r.batch) : entry[r.batch[k].event].there
      BY <1>1, <1>6 DEF RelayOK
    <2>3. ASSUME NEW k \in 1 .. Len(r.results), r.results[k]
          PROVE  r.batch[k].event \in bus'
      <3>1. CASE k = n
        BY <1>3, <1>5, <1>6, <2>3, <3>1
      <3>2. CASE k # n
        <4>1. k \in 1 .. Len(relay[p].results)
          BY <1>1, <1>5, <1>6, <3>2, RelayFacts
        <4> QED
          BY <1>1, <1>3, <1>5, <1>6, <2>3, <4>1 DEF RelayOK
      <3> QED
        BY <3>1, <3>2
    <2> QED
      BY <2>1, <2>2, <2>3 DEF RelayOK
  <1>9. bus' \subseteq Event /\ bus \subseteq bus'
    BY <1>3, <1>4 DEF OutboxInv
  <1>10. OutboxInv'
    BY <1>2, <1>6, <1>7, <1>8, <1>9, OneRelayInv DEF OutboxInv
  <1> QED
    BY <1>3, <1>4, <1>10

\* mark_published and mark_failed keep the limits, and undo no publication.
LEMMA MarkedFacts ==
  ASSUME NEW row, EntryOK(row), NEW copy \in BatchCopy, NEW ok \in BOOLEAN
  PROVE  /\ EntryOK(Marked(row, copy, ok)) /\ Marked(row, copy, ok) \in Entry
         /\ Marked(row, copy, ok).there = row.there
         /\ Marked(row, copy, ok).published = (row.published \/ ok)
  <1>1. row \in Entry
    BY DEF EntryOK
  <1>2. CASE ok
    <2> DEFINE r == [row EXCEPT !.published = TRUE]
    <2>1. r \in Entry
      BY <1>1, Zenon DEF Entry
    <2>2. /\ r.there = row.there /\ r.published = TRUE /\ r.failed = row.failed
          /\ r.attempts = row.attempts
      BY <1>1 DEF Entry
    <2>3. Marked(row, copy, ok) = r
      BY <1>2 DEF Marked
    <2> HIDE DEF r
    <2> QED
      BY <1>2, <2>1, <2>2, <2>3 DEF EntryOK
  <1>3. CASE ~ok
    <2> DEFINE f == copy.attempts + 1 >= OutboxMaxAttempts
               r == [row EXCEPT !.attempts = copy.attempts + 1, !.failed = f]
    <2>1. copy.attempts + 1 \in 0 .. OutboxMaxAttempts /\ (~f => copy.attempts + 1 < OutboxMaxAttempts)
      BY OutboxAssumption DEF BatchCopy
    <2>2. f \in BOOLEAN
      OBVIOUS
    <2>3. Marked(row, copy, ok) = r
      BY <1>3 DEF Marked
    <2> HIDE DEF f
    <2>4. r \in Entry
      BY <1>1, <2>1, <2>2, Zenon DEF Entry
    <2>5. r.there = row.there /\ r.published = row.published /\ r.failed = f
          /\ r.attempts = copy.attempts + 1
      BY <1>1 DEF Entry
    <2>6. row.published \in BOOLEAN
      BY <1>1 DEF Entry
    <2> HIDE DEF r
    <2>7. EntryOK(r)
      BY <2>1, <2>4, <2>5 DEF EntryOK
    <2> QED
      BY <1>3, <2>3, <2>4, <2>5, <2>6, <2>7
  <1> QED
    BY <1>2, <1>3

\* record_results: every row keeps its existence and its publication, and one
\* that is published now was taken by the bus.
LEMMA RecordFacts ==
  ASSUME OutboxInv, NEW p \in Process, Record(p)
  PROVE  /\ entry' \in [Event -> Entry] /\ UNCHANGED bus
         /\ \A e \in Event : /\ EntryOK(entry'[e]) /\ entry'[e].there = entry[e].there
                             /\ entry[e].published => entry'[e].published
                             /\ entry'[e].published => entry[e].published \/ e \in bus
                             /\ entry'[e] # entry[e] => entry[e].there
  <1> DEFINE r == relay[p]
  <1>1. r \in RelayRecord /\ RelayOK(r, entry, bus)
    BY DEF OutboxInv
  <1>2. /\ Len(r.results) = Len(r.batch) /\ UNCHANGED bus
        /\ entry' = [e \in Event |->
                     IF \E n \in DOMAIN r.batch : r.batch[n].event = e
                     THEN LET n == CHOOSE k \in DOMAIN r.batch : r.batch[k].event = e
                          IN  Marked(entry[e], r.batch[n], r.results[n])
                     ELSE entry[e]]
    BY DEF Record
  <1> HIDE DEF r
  <1>3. ASSUME NEW e \in Event
        PROVE  /\ EntryOK(entry'[e]) /\ entry'[e].there = entry[e].there
               /\ entry[e].published => entry'[e].published
               /\ entry'[e].published => entry[e].published \/ e \in bus
               /\ entry'[e] # entry[e] => entry[e].there
    <2>1. EntryOK(entry[e])
      BY DEF OutboxInv
    <2>2. CASE ~\E n \in DOMAIN r.batch : r.batch[n].event = e
      <3>1. entry'[e] = entry[e]
        BY <1>2, <2>2
      <3> QED
        BY <2>1, <3>1
    <2>3. CASE \E n \in DOMAIN r.batch : r.batch[n].event = e
      <3> DEFINE n == CHOOSE k \in DOMAIN r.batch : r.batch[k].event = e
      <3>1. n \in DOMAIN r.batch /\ r.batch[n].event = e
        BY <2>3
      <3>2. entry'[e] = Marked(entry[e], r.batch[n], r.results[n])
        BY <1>2, <2>3
      <3> HIDE DEF n
      <3>3. n \in 1 .. Len(r.batch) /\ n \in 1 .. Len(r.results)
        BY <1>1, <1>2, <3>1, RelayFacts
      <3>4. r.batch[n] \in BatchCopy /\ r.results[n] \in BOOLEAN
        BY <1>1, <3>3, RelayFacts, SeqFacts
      <3>5. entry[e].there /\ (r.results[n] => e \in bus)
        BY <1>1, <3>1, <3>3 DEF RelayOK
      <3>6. /\ EntryOK(entry'[e]) /\ entry'[e].there = entry[e].there
            /\ entry'[e].published = (entry[e].published \/ r.results[n])
        BY <2>1, <3>2, <3>4, MarkedFacts
      <3> QED
        BY <3>5, <3>6
    <2> QED
      BY <2>2, <2>3
  <1>4. entry' \in [Event -> Entry]
    <2>1. \A e \in Event : entry'[e] \in Entry
      BY <1>3 DEF EntryOK
    <2> QED
      BY <1>2, <2>1
  <1> QED
    BY <1>2, <1>3, <1>4

LEMMA RecordInv ==
  ASSUME OutboxInv, NEW p \in Process, Record(p)
  PROVE  OutboxInv'
  <1>1. relay' = [relay EXCEPT ![p] = Resting]
    BY DEF Record
  <1> QED
    BY <1>1, RecordFacts, RestingOK, OneRelayInv DEF OutboxInv

\* The relay forgets its batch: the transaction failed or the process stopped.
LEMMA ForgetBatchInv ==
  ASSUME OutboxInv, NEW p \in Process, ForgetBatch(p), UNCHANGED <<entry, bus>>
  PROVE  OutboxInv'
  BY RestingOK, OneRelayInv DEF ForgetBatch, OutboxInv

LEMMA OutboxStays ==
  ASSUME OutboxInv, UNCHANGED outboxVars
  PROVE  OutboxInv'
  BY DEF OutboxInv, outboxVars

LEMMA OutboxNextInv ==
  ASSUME OutboxInv, OutboxNext
  PROVE  OutboxInv'
  BY AppendEntryInv, ReadPendingInv, PublishInv, RecordInv, ForgetBatchInv
     DEF OutboxNext, RelayStep, RecordFails

-----------------------------------------------------------------------------
\* The inductive invariant of the webhooks.

\* A row that pending may return has attempts left.
RowOK(r) == r.status \in {"none", "Pending", "Failed"} => r.attempts < WebhookMaxAttempts

\* A worker that is past reading its configuration has a delivery in hand, the
\* deliveries it has exist, and one it takes for delivered has reached the receiver.
WorkerOK(w, rows, got) ==
  /\ w.pc # "next" => w.todo # <<>>
  /\ w.pc = "ok" => w.todo[1].id \in got
  /\ \A n \in 1 .. Len(w.todo) : /\ w.todo[n].attempts < WebhookMaxAttempts
                                 /\ rows[w.todo[n].id].status # "none"

\* Whether a worker has made an attempt of delivery d that it has not saved.
InTry(w, d) == w.pc \in {"ok", "retryable", "fatal"} /\ w.todo[1].id = d

\* A delivery that is not muddled is in one place of one worker's list at most;
\* the copy there is as good as the row; and the attempts are accounted for.
Untouched(d, ws, rows, count) ==
  /\ \A p, q \in Process : \A i \in 1 .. Len(ws[p].todo), j \in 1 .. Len(ws[q].todo) :
       ws[p].todo[i].id = d /\ ws[q].todo[j].id = d => p = q /\ i = j
  /\ \A p \in Process : \A i \in 1 .. Len(ws[p].todo) :
       ws[p].todo[i].id = d => ws[p].todo[i].attempts = rows[d].attempts
  /\ count[d] = rows[d].attempts + IF \E p \in Process : InTry(ws[p], d) THEN 1 ELSE 0

WebhookInv ==
  /\ delivery \in [Delivery -> Row] /\ \A d \in Delivery : RowOK(delivery[d])
  /\ worker \in [Process -> Worker]
  /\ \A p \in Process : WorkerOK(worker[p], delivery, received)
  /\ received \subseteq Delivery
  /\ made \in [Delivery -> Nat]
  /\ \A d \in Delivery \ muddled : Untouched(d, worker, delivery, made)

-----------------------------------------------------------------------------
Copy == [id : Delivery, attempts : Nat]

LEMMA WorkerFacts ==
  ASSUME NEW w \in Worker
  PROVE  /\ w.todo \in Seq(Copy) /\ w.pc \in {"next", "send"} \cup Outcome
         /\ Len(w.todo) \in Nat /\ DOMAIN w.todo = 1 .. Len(w.todo)
         /\ \A n \in 1 .. Len(w.todo) : w.todo[n].id \in Delivery /\ w.todo[n].attempts \in Nat
         /\ w.todo # <<>> <=> 1 \in 1 .. Len(w.todo)
         /\ w.todo # <<>> => Head(w.todo) = w.todo[1]
  <1>1. w.todo \in Seq(Copy) /\ w.pc \in {"next", "send"} \cup Outcome
    BY DEF Worker, Copy
  <1>2. \A n \in 1 .. Len(w.todo) : w.todo[n] \in Copy
    BY <1>1, SeqFacts
  <1>3. w.todo # <<>> => Head(w.todo) = w.todo[1]
    BY <1>1, TailFacts
  <1> QED
    BY <1>1, <1>2, <1>3, SeqFacts DEF Copy

\* The delivery that a worker past reading its configuration has in hand.
LEMMA CurrentFacts ==
  ASSUME WebhookInv, NEW p \in Process, worker[p].todo # <<>>
  PROVE  /\ 1 \in 1 .. Len(worker[p].todo)
         /\ Current(p) = worker[p].todo[1] /\ Current(p) \in Copy
         /\ Current(p).id \in Delivery /\ Current(p).attempts \in Nat
         /\ Current(p).attempts < WebhookMaxAttempts
         /\ delivery[Current(p).id].status # "none"
  <1>1. worker[p] \in Worker /\ WorkerOK(worker[p], delivery, received)
    BY DEF WebhookInv
  <1>2. worker[p].todo[1] \in Copy
    BY <1>1, WorkerFacts, SeqFacts
  <1> QED
    BY <1>1, <1>2, WorkerFacts DEF Current, WorkerOK

\* A worker that moves on from one of the others' deliveries, or to them, leaves
\* the account of delivery d as it is.
LEMMA UntouchedFrame ==
  ASSUME NEW d, NEW ws, NEW rows, NEW count, Untouched(d, ws, rows, count),
         NEW ws2, NEW rows2, NEW count2, NEW p \in Process, NEW k \in {0, 1},
         rows2[d] = rows[d], count2[d] = count[d],
         \A q \in Process \ {p} : ws2[q] = ws[q],
         \A i \in 1 .. Len(ws2[p].todo) : ws2[p].todo[i].id = d =>
            i + k \in 1 .. Len(ws[p].todo) /\ ws2[p].todo[i] = ws[p].todo[i + k],
         InTry(ws2[p], d) <=> InTry(ws[p], d)
  PROVE  Untouched(d, ws2, rows2, count2)
  <1>1. \A q, r \in Process : \A i \in 1 .. Len(ws2[q].todo), j \in 1 .. Len(ws2[r].todo) :
          ws2[q].todo[i].id = d /\ ws2[r].todo[j].id = d => q = r /\ i = j
    <2> SUFFICES ASSUME NEW q \in Process, NEW r \in Process,
                        NEW i \in 1 .. Len(ws2[q].todo), NEW j \in 1 .. Len(ws2[r].todo),
                        ws2[q].todo[i].id = d, ws2[r].todo[j].id = d
                 PROVE  q = r /\ i = j
      OBVIOUS
    <2>1. CASE q = p /\ r = p
      <3>1. i + k \in 1 .. Len(ws[p].todo) /\ ws[p].todo[i + k].id = d
        BY <2>1
      <3>2. j + k \in 1 .. Len(ws[p].todo) /\ ws[p].todo[j + k].id = d
        BY <2>1
      <3>3. i + k = j + k
        BY <3>1, <3>2 DEF Untouched
      <3> QED
        BY <2>1, <3>3
    <2>2. CASE q = p /\ r # p
      <3>1. i + k \in 1 .. Len(ws[p].todo) /\ ws[p].todo[i + k].id = d
        BY <2>2
      <3>2. j \in 1 .. Len(ws[r].todo) /\ ws[r].todo[j].id = d
        BY <2>2
      <3> QED
        BY <2>2, <3>1, <3>2 DEF Untouched
    <2>3. CASE q # p /\ r = p
      <3>1. j + k \in 1 .. Len(ws[p].todo) /\ ws[p].todo[j + k].id = d
        BY <2>3
      <3>2. i \in 1 .. Len(ws[q].todo) /\ ws[q].todo[i].id = d
        BY <2>3
      <3> QED
        BY <2>3, <3>1, <3>2 DEF Untouched
    <2>4. CASE q # p /\ r # p
      BY <2>4 DEF Untouched
    <2> QED
      BY <2>1, <2>2, <2>3, <2>4
  <1>2. \A q \in Process : \A i \in 1 .. Len(ws2[q].todo) :
          ws2[q].todo[i].id = d => ws2[q].todo[i].attempts = rows2[d].attempts
    <2> SUFFICES ASSUME NEW q \in Process, NEW i \in 1 .. Len(ws2[q].todo), ws2[q].todo[i].id = d
                 PROVE  ws2[q].todo[i].attempts = rows[d].attempts
      OBVIOUS
    <2>1. CASE q = p
      <3>1. i + k \in 1 .. Len(ws[p].todo) /\ ws2[p].todo[i] = ws[p].todo[i + k]
        BY <2>1
      <3> QED
        BY <2>1, <3>1 DEF Untouched
    <2>2. CASE q # p
      BY <2>2 DEF Untouched
    <2> QED
      BY <2>1, <2>2
  <1>3. (\E q \in Process : InTry(ws2[q], d)) <=> (\E q \in Process : InTry(ws[q], d))
    BY DEF InTry
  <1> QED
    BY <1>1, <1>2, <1>3 DEF Untouched

\* The lists stay.
LEMMA SameLists ==
  ASSUME NEW d, NEW ws, NEW rows, NEW count, Untouched(d, ws, rows, count), NEW ws2, NEW count2,
         \A q \in Process : ws2[q].todo = ws[q].todo,
         count2[d] = rows[d].attempts + IF \E q \in Process : InTry(ws2[q], d) THEN 1 ELSE 0
  PROVE  Untouched(d, ws2, rows, count2)
  BY DEF Untouched

\* What an action that changes one worker has to show.
LEMMA OneWorkerInv ==
  ASSUME WebhookInv, NEW p \in Process, NEW w \in Worker, worker' = [worker EXCEPT ![p] = w],
         WorkerOK(w, delivery', received'),
         delivery' \in [Delivery -> Row], \A d \in Delivery : RowOK(delivery'[d]),
         \A d \in Delivery : delivery[d].status # "none" => delivery'[d].status # "none",
         received' \subseteq Delivery, received \subseteq received', made' \in [Delivery -> Nat],
         \A d \in Delivery \ muddled' : Untouched(d, worker', delivery', made')
  PROVE  WebhookInv'
  <1>1. /\ worker'[p] = w /\ worker' \in [Process -> Worker]
        /\ \A q \in Process \ {p} : worker'[q] = worker[q]
    BY DEF WebhookInv
  <1>2. ASSUME NEW q \in Process \ {p} PROVE WorkerOK(worker'[q], delivery', received')
    <2>1. worker[q] \in Worker /\ WorkerOK(worker[q], delivery, received) /\ worker'[q] = worker[q]
      BY <1>1 DEF WebhookInv
    <2> QED
      BY <2>1, WorkerFacts DEF WorkerOK
  <1> QED
    BY <1>1, <1>2 DEF WebhookInv

LEMMA ConfigInv ==
  ASSUME WebhookInv, UNCHANGED <<delivery, worker, received, made, muddled>>
  PROVE  WebhookInv'
  BY DEF WebhookInv

\* trigger_webhook and replay_delivery: the row is new, nobody has a copy.
LEMMA QueuedInv ==
  ASSUME WebhookInv, NEW d \in Delivery, Queued(d), UNCHANGED <<worker, received, made, muddled>>
  PROVE  WebhookInv'
  <1> DEFINE r == [delivery[d] EXCEPT !.status = "Pending"]
  <1>1. delivery \in [Delivery -> Row] /\ delivery[d] \in Row /\ RowOK(delivery[d]) /\ delivery[d].status = "none"
    BY DEF WebhookInv, Queued, NoRow
  <1>2. r \in Row
    BY <1>1, Zenon DEF Row, Status
  <1>3. r.status = "Pending" /\ r.attempts = delivery[d].attempts
    BY <1>1 DEF Row
  <1>4. delivery' = [delivery EXCEPT ![d] = r]
    BY DEF Queued
  <1> HIDE DEF r
  <1>5. delivery' \in [Delivery -> Row] /\ delivery'[d] = r /\ \A x \in Delivery \ {d} : delivery'[x] = delivery[x]
    BY <1>1, <1>2, <1>4
  <1>6. \A x \in Delivery : RowOK(delivery'[x])
    BY <1>1, <1>3, <1>5 DEF WebhookInv, RowOK
  <1>7. \A q \in Process : worker[q] \in Worker /\ WorkerOK(worker[q], delivery, received)
    BY DEF WebhookInv
  <1>8. \A q \in Process : WorkerOK(worker[q], delivery', received)
    BY <1>3, <1>5, <1>7, WorkerFacts DEF WorkerOK
  <1>9. \A x \in Delivery : delivery'[x].attempts = delivery[x].attempts
    BY <1>3, <1>5
  <1>10. \A x \in Delivery \ muddled : Untouched(x, worker, delivery', made)
    BY <1>9 DEF WebhookInv, Untouched
  <1> QED
    BY <1>5, <1>6, <1>8, <1>10 DEF WebhookInv

\* pending: a list without repetition of deliveries that may be tried.
LEMMA DueFacts ==
  ASSUME NEW s \in DueLists
  PROVE  /\ s # <<>> /\ s \in Seq(Delivery) /\ DOMAIN s = 1 .. Len(s)
         /\ \A n \in 1 .. Len(s) : s[n] \in Delivery /\ delivery[s[n]].status \in {"Pending", "Failed"}
         /\ \A m, n \in 1 .. Len(s) : s[m] = s[n] => m = n
  <1> DEFINE S == {d \in Delivery : delivery[d].status \in {"Pending", "Failed"}}
             R == Rows("Pending") \cup (Rows("Failed") \cap due)
  <1>1. s \in SetToAllKPermutations(R) /\ s # <<>>
    BY Zenon DEF DueLists
  <1>2. PICK T \in SUBSET S : s \in SetToSeqs(T)
    <2>1. R \subseteq S
      BY DEF Rows
    <2>2. PICK T \in SUBSET R : s \in SetToSeqs(T)
      BY <1>1 DEF SetToAllKPermutations
    <2> QED
      BY <2>1, <2>2
  <1> DEFINE k == Cardinality(T)
  <1>3. k \in Nat
    <2>1. T \subseteq Delivery
      OBVIOUS
    <2> QED
      BY <2>1, WebhookAssumption, FS_Subset, FS_CardinalityType
  <1>4. s \in [1 .. k -> T] /\ \A i, j \in 1 .. k : i # j => s[i] # s[j]
    BY <1>2 DEF SetToSeqs
  <1> HIDE DEF k
  <1>5. s \in Seq(T) /\ Len(s) = k
    BY <1>3, <1>4, IsASeq
  <1>6. s \in Seq(Delivery)
    <2>1. s \in [1 .. k -> Delivery]
      BY <1>4
    <2> QED
      BY <1>3, <2>1, IsASeq
  <1> QED
    BY <1>1, <1>3, <1>4, <1>5, <1>6

LEMMA TryHas ==
  ASSUME WebhookInv, NEW q \in Process, NEW d, InTry(worker[q], d)
  PROVE  Has(q, d) /\ 1 \in 1 .. Len(worker[q].todo)
  <1>1. worker[q] \in Worker /\ WorkerOK(worker[q], delivery, received) /\ worker[q].pc # "next"
    BY DEF WebhookInv, InTry
  <1> QED
    BY <1>1, WorkerFacts DEF WorkerOK, InTry, Has

LEMMA MuddlesFacts ==
  ASSUME WebhookInv, NEW D, Muddles(D)
  PROVE  /\ made' \in [Delivery -> Nat]
         /\ \A d \in Delivery \ muddled' : d \in Delivery \ muddled /\ d \notin D /\ made'[d] = made[d]
  BY DEF WebhookInv, Muddles

\* process_pending.
LEMMA ProcessPendingInv ==
  ASSUME WebhookInv, NEW p \in Process, ProcessPending(p)
  PROVE  WebhookInv'
  <1>1. PICK s \in DueLists :
          /\ worker' = [worker EXCEPT ![p].todo = [n \in DOMAIN s |-> [id |-> s[n], attempts |-> delivery[s[n]].attempts]]]
          /\ Muddles({d \in ToSet(s) : \E q \in Process : Has(q, d)})
    BY DEF ProcessPending
  <1> DEFINE c == [n \in DOMAIN s |-> [id |-> s[n], attempts |-> delivery[s[n]].attempts]]
             w == [worker[p] EXCEPT !.todo = c]
             D == {d \in ToSet(s) : \E q \in Process : Has(q, d)}
  <1>2. /\ worker[p] = Waiting /\ UNCHANGED <<delivery, received>>
        /\ worker[p] \in Worker /\ worker \in [Process -> Worker]
    BY DEF ProcessPending, WebhookInv
  <1>3. \A n \in 1 .. Len(s) : /\ c[n].id = s[n] /\ c[n].attempts = delivery[s[n]].attempts
                               /\ c[n] \in Copy /\ c[n].attempts < WebhookMaxAttempts
                               /\ delivery[c[n].id].status # "none"
    <2> SUFFICES ASSUME NEW n \in 1 .. Len(s)
                 PROVE  /\ c[n].id = s[n] /\ c[n].attempts = delivery[s[n]].attempts
                        /\ c[n] \in Copy /\ c[n].attempts < WebhookMaxAttempts
                        /\ delivery[c[n].id].status # "none"
      OBVIOUS
    <2>1. n \in DOMAIN s /\ s[n] \in Delivery /\ delivery[s[n]].status \in {"Pending", "Failed"}
      BY DueFacts
    <2>2. delivery[s[n]] \in Row /\ RowOK(delivery[s[n]])
      BY <2>1 DEF WebhookInv
    <2>3. delivery[s[n]].attempts \in Nat /\ delivery[s[n]].attempts < WebhookMaxAttempts
      BY <2>1, <2>2 DEF Row, RowOK
    <2>4. c[n] = [id |-> s[n], attempts |-> delivery[s[n]].attempts]
      BY <2>1
    <2> HIDE DEF c
    <2> QED
      BY <2>1, <2>3, <2>4 DEF Copy
  <1>4. c \in Seq(Copy) /\ Len(c) = Len(s) /\ Len(s) \in Nat /\ s # <<>>
    <2>1. DOMAIN s = 1 .. Len(s) /\ Len(s) \in Nat
      BY DueFacts
    <2>2. c \in [1 .. Len(s) -> Copy]
      BY <1>3, <2>1
    <2> QED
      BY <2>1, <2>2, IsASeq, DueFacts
  <1>5. w \in Worker /\ w.todo = c /\ w.pc = "next"
    <2>1. w \in Worker
      BY <1>2, <1>4, Zenon DEF Worker, Copy
    <2>2. w.todo = c /\ w.pc = worker[p].pc
      BY <1>2 DEF Worker
    <2> QED
      BY <1>2, <2>1, <2>2 DEF Waiting
  <1>6. worker' = [worker EXCEPT ![p] = w]
    BY <1>1
  <1>7. made' \in [Delivery -> Nat]
        /\ \A d \in Delivery \ muddled' : d \in Delivery \ muddled /\ d \notin D /\ made'[d] = made[d]
    BY <1>1, MuddlesFacts
  <1>8. \A d : (\E n \in 1 .. Len(s) : s[n] = d) => d \in ToSet(s)
    BY DueFacts DEF ToSet
  <1> HIDE DEF c, w
  <1>9. WorkerOK(w, delivery, received)
    BY <1>3, <1>4, <1>5 DEF WorkerOK
  <1>10. worker'[p] = w /\ \A q \in Process \ {p} : worker'[q] = worker[q]
    BY <1>2, <1>6
  <1>11. ASSUME NEW d \in Delivery \ muddled' PROVE Untouched(d, worker', delivery', made')
    <2>1. Untouched(d, worker, delivery, made) /\ d \notin D /\ made'[d] = made[d] /\ d \in Delivery
      BY <1>7 DEF WebhookInv
    <2>2. ~InTry(worker'[p], d) /\ ~InTry(worker[p], d)
      BY <1>2, <1>5, <1>10 DEF InTry, Waiting
    <2>3. CASE \A n \in 1 .. Len(s) : s[n] # d
      <3>1. \A i \in 1 .. Len(worker'[p].todo) : worker'[p].todo[i].id # d
        BY <1>3, <1>4, <1>5, <1>10, <2>3
      <3> QED
        BY <1>2, <1>10, <2>1, <2>2, <3>1, UntouchedFrame
    <2>4. CASE \E n \in 1 .. Len(s) : s[n] = d
      <3>1. \A q \in Process : ~Has(q, d)
        BY <1>8, <2>1, <2>4
      <3>2. \A q \in Process : ~InTry(worker[q], d) /\ ~InTry(worker'[q], d)
        BY <1>10, <2>2, <3>1, TryHas
      <3>3. \A q \in Process \ {p} : \A i \in 1 .. Len(worker'[q].todo) : worker'[q].todo[i].id # d
        <4> SUFFICES ASSUME NEW q \in Process \ {p}, NEW i \in 1 .. Len(worker'[q].todo)
                     PROVE  worker'[q].todo[i].id # d
          OBVIOUS
        <4>1. worker[q] \in Worker /\ worker'[q] = worker[q]
          BY <1>10 DEF WebhookInv
        <4>2. DOMAIN worker[q].todo = 1 .. Len(worker[q].todo)
          BY <4>1, WorkerFacts
        <4> QED
          BY <3>1, <4>1, <4>2 DEF Has
      <3>4. \A i, j \in 1 .. Len(c) : c[i].id = c[j].id => i = j
        BY <1>3, <1>4, DueFacts
      <3>5. \A i \in 1 .. Len(c) : c[i].id = d => c[i].attempts = delivery[d].attempts
        BY <1>3, <1>4
      <3>6. worker'[p].todo = c
        BY <1>5, <1>10
      <3>7. made'[d] = delivery'[d].attempts + 0
        BY <1>2, <2>1, <3>2 DEF Untouched
      <3> QED
        BY <1>2, <3>2, <3>3, <3>4, <3>5, <3>6, <3>7 DEF Untouched
    <2> QED
      BY <2>3, <2>4
  <1> QED
    BY <1>2, <1>5, <1>6, <1>7, <1>9, <1>11, OneWorkerInv DEF WebhookInv

\* attempt_delivery reads the configuration.
LEMMA LoadConfigInv ==
  ASSUME WebhookInv, NEW p \in Process, LoadConfig(p)
  PROVE  WebhookInv'
  <1> DEFINE c == IF config[WebhookOf[Current(p).id]] = "on" THEN "send" ELSE "unwanted"
             w == [worker[p] EXCEPT !.pc = c]
  <1>1. /\ worker[p].pc = "next" /\ worker[p].todo # <<>> /\ worker' = [worker EXCEPT ![p] = w]
        /\ UNCHANGED <<delivery, received, made, muddled>>
    BY DEF LoadConfig
  <1>2. worker[p] \in Worker /\ worker \in [Process -> Worker] /\ WorkerOK(worker[p], delivery, received)
    BY DEF WebhookInv
  <1>3. c \in {"send", "unwanted"}
    OBVIOUS
  <1> HIDE DEF c
  <1>4. w \in Worker
    BY <1>2, <1>3, Zenon DEF Worker, Outcome
  <1>5. w.todo = worker[p].todo /\ w.pc = c
    BY <1>2 DEF Worker
  <1> HIDE DEF w
  <1>6. worker'[p] = w /\ \A q \in Process \ {p} : worker'[q] = worker[q]
    BY <1>1, <1>2
  <1>7. WorkerOK(w, delivery, received)
    BY <1>1, <1>2, <1>3, <1>5 DEF WorkerOK
  <1>8. ASSUME NEW d \in Delivery \ muddled PROVE Untouched(d, worker', delivery', made')
    <2>1. Untouched(d, worker, delivery, made)
      BY DEF WebhookInv
    <2>2. ~InTry(worker'[p], d) /\ ~InTry(worker[p], d)
      BY <1>1, <1>3, <1>5, <1>6 DEF InTry
    <2>3. \A q \in Process : worker'[q].todo = worker[q].todo
      BY <1>5, <1>6
    <2>4. (\E q \in Process : InTry(worker'[q], d)) <=> (\E q \in Process : InTry(worker[q], d))
      BY <1>6, <2>2
    <2>5. made'[d] = delivery[d].attempts + IF \E q \in Process : InTry(worker'[q], d) THEN 1 ELSE 0
      BY <1>1, <2>1, <2>4 DEF Untouched
    <2>6. delivery' = delivery
      BY <1>1
    <2> QED
      BY <2>1, <2>3, <2>5, <2>6, SameLists
  <1> QED
    BY <1>1, <1>4, <1>7, <1>8, OneWorkerInv DEF WebhookInv

\* Of an unmuddled delivery there is one copy, the one in hand.
LEMMA OnlyCopy ==
  ASSUME WebhookInv, NEW p \in Process, worker[p].todo # <<>>, Current(p).id \notin muddled
  PROVE  LET d == Current(p).id
         IN  /\ Current(p).attempts = delivery[d].attempts
             /\ \A q \in Process : \A i \in 1 .. Len(worker[q].todo) :
                  worker[q].todo[i].id = d => q = p /\ i = 1
             /\ \A q \in Process : InTry(worker[q], d) => q = p
             /\ made[d] = delivery[d].attempts + IF InTry(worker[p], d) THEN 1 ELSE 0
  <1> DEFINE d == Current(p).id
  <1>1. /\ 1 \in 1 .. Len(worker[p].todo) /\ worker[p].todo[1].id = d /\ d \in Delivery \ muddled
        /\ Current(p).attempts = worker[p].todo[1].attempts
    BY CurrentFacts
  <1>2. Untouched(d, worker, delivery, made)
    BY <1>1 DEF WebhookInv
  <1> HIDE DEF d
  <1>3. \A q \in Process : \A i \in 1 .. Len(worker[q].todo) :
          worker[q].todo[i].id = d => q = p /\ i = 1
    BY <1>1, <1>2 DEF Untouched
  <1>4. ASSUME NEW q \in Process, InTry(worker[q], d) PROVE q = p
    <2>1. 1 \in 1 .. Len(worker[q].todo) /\ worker[q].todo[1].id = d
      BY <1>4, TryHas DEF InTry
    <2> QED
      BY <1>3, <2>1
  <1>5. (\E q \in Process : InTry(worker[q], d)) <=> InTry(worker[p], d)
    BY <1>4
  <1>6. worker[p].todo[1].attempts = delivery[d].attempts
    BY <1>1, <1>2 DEF Untouched
  <1>7. made[d] = delivery[d].attempts + IF InTry(worker[p], d) THEN 1 ELSE 0
    BY <1>2, <1>5 DEF Untouched
  <1> QED
    BY <1>1, <1>3, <1>4, <1>6, <1>7 DEF d

\* The request: from here on the attempt is one that was made.
LEMMA SendRequestInv ==
  ASSUME WebhookInv, NEW p \in Process, SendRequest(p)
  PROVE  /\ WebhookInv'
         /\ \/ received' = received
            \/ \E d \in Delivery : delivery[d].status # "none" /\ received' = received \cup {d}
  <1>1. PICK o \in {"ok", "retryable", "fatal"}, took \in BOOLEAN :
          /\ o = "ok" => took
          /\ worker' = [worker EXCEPT ![p].pc = o]
          /\ received' = IF took THEN received \cup {Current(p).id} ELSE received
    BY DEF SendRequest
  <1> DEFINE w == [worker[p] EXCEPT !.pc = o]
             d == Current(p).id
  <1>2. /\ worker[p] \in Worker /\ worker \in [Process -> Worker]
        /\ WorkerOK(worker[p], delivery, received) /\ worker[p].pc = "send"
        /\ UNCHANGED <<delivery, muddled>> /\ made \in [Delivery -> Nat]
        /\ made' = IF d \in muddled THEN made ELSE [made EXCEPT ![d] = @ + 1]
    BY DEF WebhookInv, SendRequest
  <1>3. worker[p].todo # <<>>
    BY <1>2 DEF WorkerOK
  <1>4. d \in Delivery /\ worker[p].todo[1].id = d /\ delivery[d].status # "none"
    BY <1>3, CurrentFacts
  <1>5. w \in Worker
    BY <1>1, <1>2, Zenon DEF Worker, Outcome
  <1>6. w.todo = worker[p].todo /\ w.pc = o /\ worker' = [worker EXCEPT ![p] = w]
    BY <1>1, <1>2 DEF Worker
  <1> HIDE DEF w
  <1>7. worker'[p] = w /\ \A q \in Process \ {p} : worker'[q] = worker[q]
    BY <1>2, <1>6
  <1>8. made' \in [Delivery -> Nat]
    BY <1>2, <1>4
  <1>9. received \subseteq received' /\ received' \subseteq Delivery /\ (o = "ok" => d \in received')
    BY <1>1, <1>4 DEF WebhookInv
  <1>10. WorkerOK(w, delivery, received')
    BY <1>2, <1>3, <1>4, <1>6, <1>9 DEF WorkerOK
  <1>11. \A q \in Process : worker'[q].todo = worker[q].todo
    BY <1>6, <1>7
  <1>12. ASSUME NEW x \in Delivery \ muddled PROVE Untouched(x, worker', delivery', made')
    <2>1. Untouched(x, worker, delivery, made)
      BY DEF WebhookInv
    <2>2. CASE x = d
      <3>1. ~InTry(worker[p], d) /\ InTry(worker'[p], d)
        BY <1>1, <1>2, <1>4, <1>6, <1>7 DEF InTry
      <3>2. made[d] = delivery[d].attempts + 0
        BY <1>3, <2>2, <3>1, OnlyCopy
      <3>3. made'[d] = delivery[d].attempts + 1
        <4>1. made'[d] = made[d] + 1 /\ delivery[d].attempts \in Nat
          BY <1>2, <1>4, <2>2 DEF WebhookInv, Row
        <4> QED
          BY <3>2, <4>1
      <3>4. \E q \in Process : InTry(worker'[q], d)
        BY <3>1
      <3> QED
        BY <1>2, <1>11, <2>1, <2>2, <3>3, <3>4, SameLists
    <2>3. CASE x # d
      <3>1. ~InTry(worker[p], x) /\ ~InTry(worker'[p], x)
        BY <1>2, <1>4, <1>6, <1>7, <2>3 DEF InTry
      <3>2. (\E q \in Process : InTry(worker'[q], x)) <=> (\E q \in Process : InTry(worker[q], x))
        BY <1>7, <3>1
      <3>3. made'[x] = made[x]
        BY <1>2, <2>3
      <3>4. made'[x] = delivery[x].attempts + IF \E q \in Process : InTry(worker'[q], x) THEN 1 ELSE 0
        BY <2>1, <3>2, <3>3 DEF Untouched
      <3> QED
        BY <1>2, <1>11, <2>1, <3>4, SameLists
    <2> QED
      BY <2>2, <2>3
  <1>13. WebhookInv'
    BY <1>2, <1>5, <1>6, <1>8, <1>9, <1>10, <1>12, OneWorkerInv DEF WebhookInv
  <1> QED
    BY <1>1, <1>4, <1>13

\* The worker moves on to the next delivery of its list.
LEMMA ProceedsFacts ==
  ASSUME WebhookInv, NEW p \in Process, worker[p].todo # <<>>, Proceeds(p),
         NEW rows, NEW got, \A d \in Delivery : delivery[d].status # "none" => rows[d].status # "none"
  PROVE  \E w \in Worker :
           /\ worker' = [worker EXCEPT ![p] = w] /\ worker'[p] = w /\ w.pc = "next"
           /\ \A q \in Process \ {p} : worker'[q] = worker[q]
           /\ \A i \in 1 .. Len(w.todo) : i + 1 \in 1 .. Len(worker[p].todo) /\ w.todo[i] = worker[p].todo[i + 1]
           /\ WorkerOK(w, rows, got)
  <1> DEFINE t == Tail(worker[p].todo)
             w == [todo |-> t, pc |-> "next"]
  <1>1. /\ worker[p] \in Worker /\ worker \in [Process -> Worker]
        /\ WorkerOK(worker[p], delivery, received) /\ worker' = [worker EXCEPT ![p] = w]
    BY DEF WebhookInv, Proceeds
  <1>2. worker[p].todo \in Seq(Copy) /\ DOMAIN worker[p].todo = 1 .. Len(worker[p].todo)
    BY <1>1, WorkerFacts
  <1>3. t \in Seq(Copy) /\ \A n \in DOMAIN t : n + 1 \in DOMAIN worker[p].todo /\ t[n] = worker[p].todo[n + 1]
    BY <1>2, TailFacts
  <1>4. DOMAIN t = 1 .. Len(t)
    BY <1>3, SeqFacts
  <1> HIDE DEF t
  <1>5. w \in Worker
    BY <1>3 DEF Worker, Copy
  <1>6. w.todo = t /\ w.pc = "next"
    OBVIOUS
  <1> HIDE DEF w
  <1>7. \A i \in 1 .. Len(w.todo) : i + 1 \in 1 .. Len(worker[p].todo) /\ w.todo[i] = worker[p].todo[i + 1]
    BY <1>2, <1>3, <1>4, <1>6
  <1>8. WorkerOK(w, rows, got)
    <2>1. ASSUME NEW i \in 1 .. Len(w.todo)
          PROVE  w.todo[i].attempts < WebhookMaxAttempts /\ rows[w.todo[i].id].status # "none"
      <3>1. i + 1 \in 1 .. Len(worker[p].todo) /\ w.todo[i] = worker[p].todo[i + 1]
        BY <1>7
      <3>2. worker[p].todo[i + 1].id \in Delivery
        BY <1>1, <3>1, WorkerFacts
      <3> QED
        BY <1>1, <3>1, <3>2 DEF WorkerOK
    <2> QED
      BY <1>6, <2>1 DEF WorkerOK
  <1>9. worker'[p] = w /\ \A q \in Process \ {p} : worker'[q] = worker[q]
    BY <1>1
  <1> QED
    BY <1>1, <1>5, <1>6, <1>7, <1>8, <1>9

\* succeed, fail_delivery and dead_letter keep the limit on attempts.
LEMMA AfterFacts ==
  ASSUME NEW copy, copy.attempts \in Nat, copy.attempts < WebhookMaxAttempts, NEW o \in Outcome
  PROVE  /\ After(copy, o) \in Row /\ RowOK(After(copy, o))
         /\ After(copy, o).status \in {"Failed", "Succeeded", "DeadLetter"}
         /\ After(copy, o).status = "Succeeded" => o = "ok"
         /\ After(copy, o).attempts = copy.attempts + IF o = "unwanted" THEN 0 ELSE 1
  <1> DEFINE n == IF o = "unwanted" THEN copy.attempts ELSE copy.attempts + 1
             st == IF o = "ok" THEN "Succeeded"
                   ELSE IF o = "retryable" /\ n < WebhookMaxAttempts THEN "Failed" ELSE "DeadLetter"
  <1>1. n \in 0 .. WebhookMaxAttempts /\ n = copy.attempts + IF o = "unwanted" THEN 0 ELSE 1
    BY WebhookAssumption
  <1>2. /\ st \in {"Failed", "Succeeded", "DeadLetter"} /\ (st = "Failed" => n < WebhookMaxAttempts)
        /\ st = "Succeeded" => o = "ok"
    OBVIOUS
  <1>3. After(copy, o) = [attempts |-> n, status |-> st]
    BY DEF After
  <1> HIDE DEF n, st
  <1> QED
    BY <1>1, <1>2, <1>3 DEF Row, RowOK, Status

\* The other deliveries of a worker that moves on.
LEMMA ProceedsFrame ==
  ASSUME WebhookInv, NEW p \in Process, worker[p].todo # <<>>,
         worker'[p].pc = "next",
         \A q \in Process \ {p} : worker'[q] = worker[q],
         \A i \in 1 .. Len(worker'[p].todo) :
            i + 1 \in 1 .. Len(worker[p].todo) /\ worker'[p].todo[i] = worker[p].todo[i + 1],
         NEW d \in Delivery \ muddled, d # Current(p).id, delivery'[d] = delivery[d], made'[d] = made[d]
  PROVE  Untouched(d, worker', delivery', made')
  <1>1. Untouched(d, worker, delivery, made)
    BY DEF WebhookInv
  <1>2. ~InTry(worker[p], d) /\ ~InTry(worker'[p], d)
    BY CurrentFacts DEF InTry
  <1> QED
    BY <1>1, <1>2, UntouchedFrame

\* save_delivery: the copy, which was as good as the row, replaces it.
LEMMA SaveDeliveryInv ==
  ASSUME WebhookInv, NEW p \in Process, SaveDelivery(p)
  PROVE  /\ WebhookInv' /\ UNCHANGED received
         /\ \E d \in Delivery :
              /\ delivery[d].status # "none"
              /\ delivery'[d].status \in {"Failed", "Succeeded", "DeadLetter"}
              /\ delivery'[d].status = "Succeeded" => d \in received
              /\ \A x \in Delivery \ {d} : delivery'[x] = delivery[x]
  <1> DEFINE d == Current(p).id
             r == After(Current(p), worker[p].pc)
  <1>1. /\ worker[p] \in Worker /\ worker[p].pc \in Outcome /\ WorkerOK(worker[p], delivery, received)
        /\ delivery \in [Delivery -> Row]
        /\ delivery' = [delivery EXCEPT ![d] = r] /\ Proceeds(p)
        /\ received' = received /\ made' = made /\ muddled' = muddled
    BY DEF SaveDelivery, WebhookInv
  <1>2. worker[p].todo # <<>>
    BY <1>1 DEF WorkerOK, Outcome
  <1>3. /\ d \in Delivery /\ worker[p].todo[1].id = d /\ delivery[d].status # "none"
        /\ Current(p).attempts \in Nat /\ Current(p).attempts < WebhookMaxAttempts
    BY <1>2, CurrentFacts
  <1>4. /\ r \in Row /\ RowOK(r) /\ r.status \in {"Failed", "Succeeded", "DeadLetter"}
        /\ r.status = "Succeeded" => worker[p].pc = "ok"
        /\ r.attempts = Current(p).attempts + IF worker[p].pc = "unwanted" THEN 0 ELSE 1
    BY <1>1, <1>3, AfterFacts
  <1> HIDE DEF r
  <1>5. delivery' \in [Delivery -> Row] /\ delivery'[d] = r /\ \A x \in Delivery \ {d} : delivery'[x] = delivery[x]
    BY <1>1, <1>3, <1>4
  <1>6. \A x \in Delivery : RowOK(delivery'[x]) /\ (delivery[x].status # "none" => delivery'[x].status # "none")
    BY <1>4, <1>5 DEF WebhookInv
  <1>7. r.status = "Succeeded" => d \in received
    BY <1>1, <1>3, <1>4 DEF WorkerOK
  <1>8. PICK w \in Worker :
           /\ worker' = [worker EXCEPT ![p] = w] /\ worker'[p] = w /\ w.pc = "next"
           /\ \A q \in Process \ {p} : worker'[q] = worker[q]
           /\ \A i \in 1 .. Len(w.todo) : i + 1 \in 1 .. Len(worker[p].todo) /\ w.todo[i] = worker[p].todo[i + 1]
           /\ WorkerOK(w, delivery', received')
    BY <1>1, <1>2, <1>6, ProceedsFacts
  <1>9. ASSUME NEW x \in Delivery \ muddled PROVE Untouched(x, worker', delivery', made')
    <2>1. CASE x # d
      <3>1. worker'[p].pc = "next" /\ \A q \in Process \ {p} : worker'[q] = worker[q]
        BY <1>8
      <3>2. \A i \in 1 .. Len(worker'[p].todo) :
              i + 1 \in 1 .. Len(worker[p].todo) /\ worker'[p].todo[i] = worker[p].todo[i + 1]
        BY <1>8
      <3>3. delivery'[x] = delivery[x] /\ made'[x] = made[x]
        BY <1>1, <1>5, <2>1
      <3> QED
        BY <1>2, <2>1, <3>1, <3>2, <3>3, ProceedsFrame
    <2>2. CASE x = d
      <3>1. /\ Current(p).attempts = delivery[d].attempts
            /\ \A q \in Process : \A i \in 1 .. Len(worker[q].todo) :
                 worker[q].todo[i].id = d => q = p /\ i = 1
            /\ \A q \in Process : InTry(worker[q], d) => q = p
            /\ made[d] = delivery[d].attempts + IF InTry(worker[p], d) THEN 1 ELSE 0
        BY <1>2, <2>2, OnlyCopy
      <3>2. InTry(worker[p], d) <=> worker[p].pc # "unwanted"
        BY <1>1, <1>3 DEF InTry, Outcome
      <3>3. made'[d] = delivery'[d].attempts + 0
        BY <1>1, <1>3, <1>4, <1>5, <3>1, <3>2
      <3>4. \A q \in Process : \A i \in 1 .. Len(worker'[q].todo) : worker'[q].todo[i].id # d
        <4> SUFFICES ASSUME NEW q \in Process, NEW i \in 1 .. Len(worker'[q].todo)
                     PROVE  worker'[q].todo[i].id # d
          OBVIOUS
        <4>1. CASE q = p
          BY <1>8, <3>1, <4>1
        <4>2. CASE q # p
          BY <1>8, <3>1, <4>2
        <4> QED
          BY <4>1, <4>2
      <3>5. \A q \in Process : ~InTry(worker'[q], d)
        BY <1>8, <3>1 DEF InTry
      <3> QED
        BY <2>2, <3>3, <3>4, <3>5 DEF Untouched
    <2> QED
      BY <2>1, <2>2
  <1>10. WebhookInv'
    BY <1>1, <1>5, <1>6, <1>8, <1>9, OneWorkerInv DEF WebhookInv
  <1> QED
    BY <1>1, <1>3, <1>4, <1>5, <1>7, <1>10

\* The attempt is not recorded, and the delivery is one that is muddled.
LEMMA UnrecordedInv ==
  ASSUME WebhookInv, NEW p \in Process, worker[p].todo # <<>>, Proceeds(p), Muddles({Current(p).id}),
         delivery' = delivery, received \subseteq received', received' \subseteq Delivery
  PROVE  WebhookInv'
  <1>1. worker[p].todo # <<>> /\ Proceeds(p) /\ Muddles({Current(p).id}) /\ delivery' = delivery
    OBVIOUS
  <1>2. PICK w \in Worker :
           /\ worker' = [worker EXCEPT ![p] = w] /\ worker'[p] = w /\ w.pc = "next"
           /\ \A q \in Process \ {p} : worker'[q] = worker[q]
           /\ \A i \in 1 .. Len(w.todo) : i + 1 \in 1 .. Len(worker[p].todo) /\ w.todo[i] = worker[p].todo[i + 1]
           /\ WorkerOK(w, delivery', received')
    BY <1>1, ProceedsFacts
  <1>3. /\ made' \in [Delivery -> Nat]
        /\ \A d \in Delivery \ muddled' :
             d \in Delivery \ muddled /\ d \notin {Current(p).id} /\ made'[d] = made[d]
    BY <1>1, MuddlesFacts
  <1>4. ASSUME NEW d \in Delivery \ muddled' PROVE Untouched(d, worker', delivery', made')
    <2>1. worker'[p].pc = "next" /\ \A q \in Process \ {p} : worker'[q] = worker[q]
      BY <1>2
    <2>2. \A i \in 1 .. Len(worker'[p].todo) :
            i + 1 \in 1 .. Len(worker[p].todo) /\ worker'[p].todo[i] = worker[p].todo[i + 1]
      BY <1>2
    <2>3. d \in Delivery \ muddled /\ d # Current(p).id /\ delivery'[d] = delivery[d] /\ made'[d] = made[d]
      BY <1>1, <1>3
    <2> QED
      BY <1>1, <2>1, <2>2, <2>3, ProceedsFrame
  <1> QED
    BY <1>1, <1>2, <1>3, <1>4, OneWorkerInv DEF WebhookInv

LEMMA AttemptFailsInv ==
  ASSUME WebhookInv, NEW p \in Process, AttemptFails(p)
  PROVE  WebhookInv' /\ UNCHANGED <<delivery, received>>
  <1>1. /\ worker[p].todo # <<>> /\ Proceeds(p) /\ Muddles({Current(p).id})
        /\ delivery' = delivery /\ received' = received
    BY DEF AttemptFails
  <1>2. received \subseteq Delivery
    BY DEF WebhookInv
  <1> QED
    BY <1>1, <1>2, UnrecordedInv

\* An error that is too long: the receiver may have the request.
LEMMA SendRefusedInv ==
  ASSUME WebhookInv, NEW p \in Process, SendRefused(p)
  PROVE  /\ WebhookInv'
         /\ \/ received' = received
            \/ \E d \in Delivery : delivery[d].status # "none" /\ received' = received \cup {d}
  <1>1. /\ worker[p].pc = "send" /\ Proceeds(p) /\ Muddles({Current(p).id}) /\ delivery' = delivery
        /\ received' = received \/ received' = received \cup {Current(p).id}
    BY DEF SendRefused
  <1>2. worker[p].todo # <<>> /\ received \subseteq Delivery
    BY <1>1 DEF WebhookInv, WorkerOK
  <1>3. Current(p).id \in Delivery /\ delivery[Current(p).id].status # "none"
    BY <1>2, CurrentFacts
  <1>4. received \subseteq received' /\ received' \subseteq Delivery
    BY <1>1, <1>2, <1>3
  <1>5. WebhookInv'
    BY <1>1, <1>2, <1>4, UnrecordedInv
  <1> QED
    BY <1>1, <1>3, <1>5

\* The process stops: the deliveries it had are muddled.
LEMMA ForgetDeliveriesInv ==
  ASSUME WebhookInv, NEW p \in Process, ForgetDeliveries(p), UNCHANGED <<delivery, received>>
  PROVE  WebhookInv'
  <1>1. /\ worker' = [worker EXCEPT ![p] = Waiting] /\ Muddles({d \in Delivery : Has(p, d)})
        /\ delivery' = delivery /\ received' = received /\ worker \in [Process -> Worker]
    BY DEF ForgetDeliveries, WebhookInv
  <1>2. Waiting \in Worker /\ WorkerOK(Waiting, delivery', received') /\ Len(Waiting.todo) = 0 /\ Waiting.pc = "next"
    BY DEF Waiting, Worker, WorkerOK
  <1>3. worker'[p] = Waiting /\ \A q \in Process \ {p} : worker'[q] = worker[q]
    BY <1>1
  <1>4. /\ made' \in [Delivery -> Nat]
        /\ \A d \in Delivery \ muddled' :
             d \in Delivery \ muddled /\ d \notin {x \in Delivery : Has(p, x)} /\ made'[d] = made[d]
    BY <1>1, MuddlesFacts
  <1>5. ASSUME NEW d \in Delivery \ muddled' PROVE Untouched(d, worker', delivery', made')
    <2>1. Untouched(d, worker, delivery, made) /\ delivery'[d] = delivery[d] /\ made'[d] = made[d] /\ ~Has(p, d)
      BY <1>1, <1>4 DEF WebhookInv
    <2>2. ~InTry(worker[p], d) /\ ~InTry(worker'[p], d)
      <3>1. ~InTry(worker[p], d)
        BY <2>1, TryHas
      <3> QED
        BY <1>2, <1>3, <3>1 DEF InTry
    <2>3. \A i \in 1 .. Len(worker'[p].todo) : FALSE
      BY <1>2, <1>3
    <2> QED
      BY <1>3, <2>1, <2>2, <2>3, UntouchedFrame
  <1> QED
    BY <1>1, <1>2, <1>4, <1>5, OneWorkerInv DEF WebhookInv

LEMMA WebhookStays ==
  ASSUME WebhookInv, UNCHANGED webhookVars
  PROVE  WebhookInv'
  BY DEF WebhookInv, webhookVars

LEMMA WebhookNextInv ==
  ASSUME WebhookInv, WebhookNext
  PROVE  WebhookInv'
  <1>1. CASE \E v \in Webhook : CreateWebhook(v) \/ DeleteWebhook(v) \/ \E c \in {"on", "off"} : UpdateWebhook(v, c)
    BY <1>1, ConfigInv DEF CreateWebhook, DeleteWebhook, UpdateWebhook
  <1>2. CASE \E d \in Delivery : Trigger(d) \/ Replay(d) \/ BackoffEnds(d)
    BY <1>2, QueuedInv, ConfigInv DEF Trigger, Replay, BackoffEnds
  <1>3. CASE \E p \in Process : WorkerStep(p) \/ AttemptFails(p)
    BY <1>3, ProcessPendingInv, LoadConfigInv, SendRequestInv, SendRefusedInv, SaveDeliveryInv, AttemptFailsInv
       DEF WorkerStep
  <1> QED
    BY <1>1, <1>2, <1>3 DEF WebhookNext

-----------------------------------------------------------------------------
\* An event is written once, by append, as one that is neither published nor failed.
NewRows == \A e \in Event : ~entry[e].there => entry[e] = NoEntry

LEMMA NewRowsInv ==
  ASSUME OutboxInv, NewRows, OutboxNext
  PROVE  NewRows'
  <1>1. ASSUME NEW e \in Event, AppendEntry(e) PROVE NewRows'
    <2>1. /\ entry \in [Event -> Entry] /\ entry' \in [Event -> Entry]
          /\ entry' = [entry EXCEPT ![e] = [entry[e] EXCEPT !.there = TRUE]]
      BY <1>1, AppendEntryInv DEF OutboxInv, AppendEntry
    <2>2. entry'[e].there /\ \A f \in Event \ {e} : entry'[f] = entry[f]
      BY <2>1 DEF Entry
    <2> QED
      BY <2>2 DEF NewRows
  <1>2. ASSUME NEW p \in Process, Record(p) PROVE NewRows'
    BY <1>2, RecordFacts DEF NewRows
  <1> QED
    BY <1>1, <1>2 DEF OutboxNext, RelayStep, RecordFails, ReadPending, Publish, NewRows

DeliveriesInv == OutboxInv /\ WebhookInv /\ NewRows

LEMMA DeliveriesInitInv ==
  ASSUME DeliveriesInit
  PROVE  DeliveriesInv
  <1>1. OutboxInv
    <2>1. NoEntry \in Entry /\ EntryOK(NoEntry)
      BY OutboxAssumption DEF NoEntry, Entry, EntryOK
    <2> QED
      BY <2>1, RestingOK DEF DeliveriesInit, OutboxInit, OutboxInv
  <1>2. WebhookInv
    <2>1. NoRow \in Row /\ RowOK(NoRow) /\ NoRow.attempts = 0
      BY WebhookAssumption DEF NoRow, Row, Status, RowOK
    <2>2. Waiting \in Worker /\ Len(Waiting.todo) = 0 /\ Waiting.pc = "next" /\ \A rows, got : WorkerOK(Waiting, rows, got)
      BY DEF Waiting, Worker, WorkerOK
    <2>3. \A p \in Process : worker[p] = Waiting
      BY DEF DeliveriesInit, WebhookInit
    <2>4. \A d \in Delivery : delivery[d] = NoRow /\ made[d] = 0
      BY DEF DeliveriesInit, WebhookInit
    <2>5. \A d \in Delivery : Untouched(d, worker, delivery, made)
      BY <2>1, <2>2, <2>3, <2>4 DEF Untouched, InTry
    <2> QED
      BY <2>1, <2>2, <2>5 DEF DeliveriesInit, WebhookInit, WebhookInv
  <1>3. NewRows
    BY DEF NewRows, DeliveriesInit, OutboxInit
  <1> QED
    BY <1>1, <1>2, <1>3 DEF DeliveriesInv

LEMMA DeliveriesNextInv ==
  ASSUME DeliveriesInv, [DeliveriesNext]_deliveryVars
  PROVE  DeliveriesInv'
  <1>1. CASE OutboxNext
    BY <1>1, OutboxNextInv, NewRowsInv, WebhookStays DEF OutboxNext, DeliveriesInv
  <1>2. CASE WebhookNext
    BY <1>2, WebhookNextInv, OutboxStays DEF WebhookNext, DeliveriesInv, NewRows, outboxVars
  <1>3. ASSUME NEW p \in Process, Stop(p) PROVE DeliveriesInv'
    BY <1>3, ForgetBatchInv, ForgetDeliveriesInv DEF Stop, DeliveriesInv, NewRows
  <1>4. CASE UNCHANGED deliveryVars
    BY <1>4, OutboxStays, WebhookStays DEF deliveryVars, DeliveriesInv, NewRows, outboxVars
  <1> QED
    BY <1>1, <1>2, <1>3, <1>4 DEF DeliveriesNext

LEMMA DeliveriesInvariance == DeliveriesSpec => []DeliveriesInv
  <1>1. DeliveriesInit => DeliveriesInv
    BY DeliveriesInitInv
  <1>2. DeliveriesInv /\ [DeliveriesNext]_deliveryVars => DeliveriesInv'
    BY DeliveriesNextInv
  <1> QED
    BY <1>1, <1>2, PTL DEF DeliveriesSpec

LEMMA AttemptsFollow ==
  ASSUME DeliveriesInv
  PROVE  AttemptsCounted
  <1> SUFFICES ASSUME NEW d \in Delivery \ muddled
               PROVE  made[d] = delivery[d].attempts + IF InAttempt(d) = {} THEN 0 ELSE 1
    BY DEF AttemptsCounted
  <1>1. ASSUME NEW p \in Process
        PROVE  p \in InAttempt(d) <=> InTry(worker[p], d)
    <2>1. CASE worker[p].pc \in {"ok", "retryable", "fatal"}
      <3>1. worker[p].todo # <<>>
        BY <2>1 DEF DeliveriesInv, WebhookInv, WorkerOK
      <3>2. Current(p) = worker[p].todo[1]
        BY <3>1, CurrentFacts DEF DeliveriesInv
      <3> QED
        BY <3>2 DEF InAttempt, InTry
    <2>2. CASE worker[p].pc \notin {"ok", "retryable", "fatal"}
      BY <2>2 DEF InAttempt, InTry
    <2> QED
      BY <2>1, <2>2
  <1>2. InAttempt(d) # {} <=> \E p \in Process : InTry(worker[p], d)
    <2>1. InAttempt(d) \subseteq Process
      BY DEF InAttempt
    <2> QED
      BY <1>1, <2>1
  <1>3. Untouched(d, worker, delivery, made)
    BY DEF DeliveriesInv, WebhookInv
  <1> QED
    BY <1>2, <1>3 DEF Untouched

\* max_attempts bounds the requests: as long as no two workers had a delivery at
\* once and no attempt went unrecorded (attempt_delivery, save_delivery), the row
\* counts every attempt but the one under way.
THEOREM AttemptsAreCounted == DeliveriesSpec => []AttemptsCounted
  <1>1. DeliveriesInv => AttemptsCounted
    BY AttemptsFollow
  <1> QED
    BY <1>1, DeliveriesInvariance, PTL

RequestsWithinLimit == \A d \in Delivery \ muddled : made[d] <= WebhookMaxAttempts

\* The receiver gets a delivery that is not muddled max_attempts times at most,
\* whatever the outcomes, the order of the workers and the changes of the
\* configuration (attempt_delivery, handle_send_failure).
THEOREM RequestsBounded == DeliveriesSpec => []RequestsWithinLimit
  <1>1. ASSUME DeliveriesInv PROVE RequestsWithinLimit
    <2> SUFFICES ASSUME NEW d \in Delivery \ muddled PROVE made[d] <= WebhookMaxAttempts
      BY DEF RequestsWithinLimit
    <2>1. Untouched(d, worker, delivery, made) /\ delivery[d] \in Row
      BY <1>1 DEF DeliveriesInv, WebhookInv
    <2>2. delivery[d].attempts \in 0 .. WebhookMaxAttempts
      BY <2>1 DEF Row
    <2>3. CASE \E p \in Process : InTry(worker[p], d)
      <3>1. PICK p \in Process : InTry(worker[p], d)
        BY <2>3
      <3>2. 1 \in 1 .. Len(worker[p].todo) /\ worker[p].todo[1].id = d
        BY <1>1, <3>1, TryHas DEF DeliveriesInv, InTry
      <3>3. worker[p].todo[1].attempts < WebhookMaxAttempts
        BY <1>1, <3>2 DEF DeliveriesInv, WebhookInv, WorkerOK
      <3>4. delivery[d].attempts < WebhookMaxAttempts /\ made[d] = delivery[d].attempts + 1
        BY <2>1, <2>3, <3>2, <3>3 DEF Untouched
      <3> QED
        BY <2>2, <3>4, WebhookAssumption
    <2>4. CASE ~\E p \in Process : InTry(worker[p], d)
      BY <2>1, <2>2, <2>4, WebhookAssumption DEF Untouched
    <2> QED
      BY <2>3, <2>4
  <1> QED
    BY <1>1, DeliveriesInvariance, PTL

-----------------------------------------------------------------------------
\* The promise of AtLeastOnce.

Says == {"none", "waiting", "delivered", "dropped"}

\* What a row may say of an event next.
EventMoves(from, to, there) ==
  \/ from = to
  \/ from = "none" /\ to = "waiting"
  \/ from \in {"waiting", "dropped"} /\ to = "delivered" /\ there
  \/ from = "waiting" /\ to = "dropped"
  \/ from = "dropped" /\ to = "waiting"

\* What a row may say of a delivery next: success may be written over.
DeliveryMoves(from, to, there) ==
  \/ EventMoves(from, to, there)
  \/ from = "delivered" /\ to \in {"waiting", "dropped"}

StatusOf == [i \in Item |-> IF i[2] = "outbox" THEN OutboxStatus(i[1]) ELSE WebhookStatus(i[1])]

Reached == (bus \X {"outbox"}) \cup (received \X {"webhook"})

LEMMA StatusType ==
  ASSUME DeliveriesInv
  PROVE  /\ \A e \in Event : OutboxStatus(e) \in Says
         /\ \A d \in Delivery : WebhookStatus(d) \in Says
         /\ \A d \in Delivery : delivery[d].status # "none" => WebhookStatus(d) # "none"
  <1>1. \A e \in Event : OutboxStatus(e) \in Says
    BY DEF OutboxStatus, Says
  <1>2. \A d \in Delivery : delivery[d].status \in Status
    BY DEF DeliveriesInv, WebhookInv, Row
  <1> QED
    BY <1>1, <1>2 DEF WebhookStatus, Says, Status

LEMMA ItemFacts ==
  ASSUME NEW i \in Item
  PROVE  \/ i[1] \in Event /\ i[2] = "outbox" /\ i = <<i[1], "outbox">>
         \/ i[1] \in Delivery /\ i[2] = "webhook" /\ i = <<i[1], "webhook">>
  BY DEF Item

\* A transaction that writes rows.
LEMMA Writes ==
  ASSUME DeliveriesInv, DeliveriesInv', UNCHANGED <<bus, received>>,
         \A e \in Event : EventMoves(OutboxStatus(e), OutboxStatus(e)', e \in bus),
         \A d \in Delivery : DeliveryMoves(WebhookStatus(d), WebhookStatus(d)', d \in received)
  PROVE  Abstract!Write
  <1>1. /\ \A e \in Event : OutboxStatus(e)' \in Says
        /\ \A d \in Delivery : WebhookStatus(d)' \in Says
    <2>1. \A e \in Event : OutboxStatus(e)' \in Says
      BY DEF OutboxStatus, Says
    <2>2. \A d \in Delivery : delivery'[d].status \in Status
      BY DEF DeliveriesInv, WebhookInv, Row
    <2> QED
      BY <2>1, <2>2 DEF WebhookStatus, Says, Status
  <1>2. StatusOf' \in [Item -> Says]
    BY <1>1, ItemFacts DEF StatusOf
  <1>3. ASSUME NEW i \in Item PROVE Abstract!MayMove(i, StatusOf[i], StatusOf'[i])
    <2>1. CASE i[1] \in Event /\ i[2] = "outbox" /\ i = <<i[1], "outbox">>
      <3>1. StatusOf[i] = OutboxStatus(i[1]) /\ StatusOf'[i] = OutboxStatus(i[1])'
        BY <2>1 DEF StatusOf
      <3>2. EventMoves(OutboxStatus(i[1]), OutboxStatus(i[1])', i[1] \in bus)
        BY <2>1
      <3>3. i[1] \in bus => i \in Reached
        BY <2>1 DEF Reached
      <3> QED
        BY <3>1, <3>2, <3>3 DEF EventMoves, Abstract!MayMove, Reached
    <2>2. CASE i[1] \in Delivery /\ i[2] = "webhook" /\ i = <<i[1], "webhook">>
      <3>1. StatusOf[i] = WebhookStatus(i[1]) /\ StatusOf'[i] = WebhookStatus(i[1])'
        BY <2>2 DEF StatusOf
      <3>2. DeliveryMoves(WebhookStatus(i[1]), WebhookStatus(i[1])', i[1] \in received)
        BY <2>2
      <3>3. i[1] \in received => i \in Reached
        BY <2>2 DEF Reached
      <3>4. i \notin Event \X {"outbox"}
        BY <2>2
      <3> QED
        BY <3>1, <3>2, <3>3, <3>4 DEF DeliveryMoves, EventMoves, Abstract!MayMove, Reached
    <2> QED
      BY <2>1, <2>2, ItemFacts
  <1>4. UNCHANGED Reached
    BY DEF Reached
  <1> QED
    BY <1>2, <1>3, <1>4 DEF Abstract!Write, StatusOf, Reached, Says

\* The receiver, or the bus, takes something that has a row.
LEMMA Reaches ==
  ASSUME NEW i \in Item, StatusOf[i] # "none", Reached' = Reached \cup {i}, UNCHANGED StatusOf
  PROVE  Abstract!Reach(i)
  BY DEF Abstract!Reach, StatusOf, Reached

LEMMA OutboxPromise ==
  ASSUME DeliveriesInv, DeliveriesInv', OutboxNext
  PROVE  Abstract!AbstractNext \/ UNCHANGED <<StatusOf, Reached>>
  <1>0. /\ UNCHANGED <<delivery, received>> /\ \A d \in Delivery : WebhookStatus(d)' = WebhookStatus(d)
    BY DEF OutboxNext, webhookVars, WebhookStatus
  <1>00. \A d \in Delivery : DeliveryMoves(WebhookStatus(d), WebhookStatus(d)', d \in received)
    BY <1>0 DEF DeliveryMoves, EventMoves
  <1>1. ASSUME NEW e \in Event, AppendEntry(e) PROVE Abstract!AbstractNext
    <2>1. /\ entry \in [Event -> Entry] /\ entry[e] = NoEntry /\ bus' = bus
          /\ entry' = [entry EXCEPT ![e] = [entry[e] EXCEPT !.there = TRUE]]
      BY <1>1 DEF OutboxInv, AppendEntry, DeliveriesInv, NewRows
    <2>2. /\ entry'[e].there /\ ~entry'[e].published /\ ~entry'[e].failed
          /\ \A f \in Event \ {e} : entry'[f] = entry[f]
      BY <2>1 DEF NoEntry
    <2>3. OutboxStatus(e) = "none" /\ OutboxStatus(e)' = "waiting"
      BY <2>1, <2>2 DEF OutboxStatus, NoEntry
    <2>4. \A f \in Event \ {e} : OutboxStatus(f)' = OutboxStatus(f)
      BY <2>2 DEF OutboxStatus
    <2>5. \A f \in Event : EventMoves(OutboxStatus(f), OutboxStatus(f)', f \in bus)
      BY <2>3, <2>4 DEF EventMoves
    <2> QED
      BY <1>0, <1>00, <2>1, <2>5, Writes DEF Abstract!AbstractNext
  <1>2. ASSUME NEW p \in Process, Record(p) PROVE Abstract!AbstractNext
    <2>1. ASSUME NEW e \in Event PROVE EventMoves(OutboxStatus(e), OutboxStatus(e)', e \in bus)
      <3>1. /\ entry'[e].there = entry[e].there /\ (entry[e].published => entry'[e].published)
            /\ entry'[e].published => entry[e].published \/ e \in bus
        BY <1>2, RecordFacts DEF DeliveriesInv
      <3>2. {entry[e], entry'[e]} \subseteq Entry
        BY DEF DeliveriesInv, OutboxInv
      <3>3. CASE ~entry[e].there
        BY <3>1, <3>2, <3>3 DEF OutboxStatus, EventMoves, Entry
      <3>4. CASE entry[e].there /\ entry[e].published
        BY <3>1, <3>2, <3>4 DEF OutboxStatus, EventMoves, Entry
      <3>5. CASE entry[e].there /\ ~entry[e].published
        BY <3>1, <3>2, <3>5 DEF OutboxStatus, EventMoves, Entry
      <3> QED
        BY <3>3, <3>4, <3>5
    <2>2. bus' = bus
      BY <1>2 DEF Record
    <2> QED
      BY <1>0, <1>00, <2>1, <2>2, Writes DEF Abstract!AbstractNext
  <1>3. ASSUME NEW p \in Process, Publish(p)
        PROVE  Abstract!AbstractNext \/ UNCHANGED <<StatusOf, Reached>>
    <2>1. UNCHANGED StatusOf
      <3>1. entry' = entry
        BY <1>3 DEF Publish
      <3> QED
        BY <1>0, <3>1 DEF StatusOf, OutboxStatus, WebhookStatus
    <2>2. CASE bus' = bus
      BY <1>0, <2>1, <2>2 DEF Reached
    <2>3. ASSUME NEW e \in Event, entry[e].there, bus' = bus \cup {e} PROVE Abstract!AbstractNext
      <3>1. <<e, "outbox">> \in Item /\ StatusOf[<<e, "outbox">>] = OutboxStatus(e)
        BY DEF Item, StatusOf
      <3>2. OutboxStatus(e) # "none"
        BY <2>3 DEF OutboxStatus
      <3>3. Reached' = Reached \cup {<<e, "outbox">>}
        BY <1>0, <2>3 DEF Reached
      <3> QED
        BY <2>1, <3>1, <3>2, <3>3, Reaches DEF Abstract!AbstractNext
    <2> QED
      BY <1>3, <2>2, <2>3, PublishInv DEF DeliveriesInv
  <1>4. ASSUME UNCHANGED <<entry, bus>> PROVE UNCHANGED <<StatusOf, Reached>>
    BY <1>0, <1>4 DEF StatusOf, OutboxStatus, WebhookStatus, Reached
  <1> QED
    BY <1>1, <1>2, <1>3, <1>4 DEF OutboxNext, RelayStep, RecordFails, ReadPending

LEMMA WebhookPromise ==
  ASSUME DeliveriesInv, DeliveriesInv', WebhookNext
  PROVE  Abstract!AbstractNext \/ UNCHANGED <<StatusOf, Reached>>
  <1>0. /\ UNCHANGED <<entry, bus>> /\ \A e \in Event : OutboxStatus(e)' = OutboxStatus(e)
    BY DEF WebhookNext, outboxVars, OutboxStatus
  <1>00. \A e \in Event : EventMoves(OutboxStatus(e), OutboxStatus(e)', e \in bus)
    BY <1>0 DEF EventMoves
  <1>1. ASSUME NEW d \in Delivery, Queued(d), UNCHANGED received PROVE Abstract!AbstractNext
    <2>1. /\ delivery \in [Delivery -> Row] /\ delivery[d] = NoRow
          /\ delivery' = [delivery EXCEPT ![d] = [delivery[d] EXCEPT !.status = "Pending"]]
      BY <1>1 DEF WebhookInv, Queued, DeliveriesInv
    <2>2. delivery'[d].status = "Pending" /\ \A x \in Delivery \ {d} : delivery'[x] = delivery[x]
      BY <2>1 DEF NoRow
    <2>3. WebhookStatus(d) = "none" /\ WebhookStatus(d)' = "waiting"
      BY <2>1, <2>2 DEF WebhookStatus, NoRow
    <2>4. \A x \in Delivery \ {d} : WebhookStatus(x)' = WebhookStatus(x)
      BY <2>2 DEF WebhookStatus
    <2>5. \A x \in Delivery : DeliveryMoves(WebhookStatus(x), WebhookStatus(x)', x \in received)
      BY <2>3, <2>4 DEF DeliveryMoves, EventMoves
    <2> QED
      BY <1>0, <1>00, <1>1, <2>5, Writes DEF Abstract!AbstractNext
  <1>2. ASSUME NEW p \in Process, SaveDelivery(p) PROVE Abstract!AbstractNext
    <2>1. /\ UNCHANGED received
          /\ \E d \in Delivery :
              /\ delivery[d].status # "none"
              /\ delivery'[d].status \in {"Failed", "Succeeded", "DeadLetter"}
              /\ delivery'[d].status = "Succeeded" => d \in received
              /\ \A x \in Delivery \ {d} : delivery'[x] = delivery[x]
      BY <1>2, SaveDeliveryInv DEF DeliveriesInv
    <2>2. PICK d \in Delivery :
              /\ delivery[d].status # "none"
              /\ delivery'[d].status \in {"Failed", "Succeeded", "DeadLetter"}
              /\ delivery'[d].status = "Succeeded" => d \in received
              /\ \A x \in Delivery \ {d} : delivery'[x] = delivery[x]
      BY <2>1
    <2>3. WebhookStatus(d) \in {"waiting", "delivered", "dropped"}
      BY <2>2, StatusType DEF Says
    <2>4. /\ WebhookStatus(d)' \in {"waiting", "delivered", "dropped"}
          /\ WebhookStatus(d)' = "delivered" => d \in received
      BY <2>2 DEF WebhookStatus
    <2>5. \A x \in Delivery \ {d} : WebhookStatus(x)' = WebhookStatus(x)
      BY <2>2 DEF WebhookStatus
    <2>6. \A x \in Delivery : DeliveryMoves(WebhookStatus(x), WebhookStatus(x)', x \in received)
      BY <2>3, <2>4, <2>5 DEF DeliveryMoves, EventMoves
    <2> QED
      BY <1>0, <1>00, <2>1, <2>6, Writes DEF Abstract!AbstractNext
  <1>3. ASSUME NEW p \in Process, SendRequest(p) \/ SendRefused(p)
        PROVE  Abstract!AbstractNext \/ UNCHANGED <<StatusOf, Reached>>
    <2>1. UNCHANGED StatusOf
      <3>1. delivery' = delivery
        BY <1>3 DEF SendRequest, SendRefused
      <3> QED
        BY <1>0, <3>1 DEF StatusOf, OutboxStatus, WebhookStatus
    <2>2. CASE received' = received
      BY <1>0, <2>1, <2>2 DEF Reached
    <2>3. ASSUME NEW d \in Delivery, delivery[d].status # "none", received' = received \cup {d}
          PROVE  Abstract!AbstractNext
      <3>1. <<d, "webhook">> \in Item /\ StatusOf[<<d, "webhook">>] = WebhookStatus(d)
        BY DEF Item, StatusOf
      <3>2. WebhookStatus(d) # "none"
        BY <2>3, StatusType
      <3>3. Reached' = Reached \cup {<<d, "webhook">>}
        BY <1>0, <2>3 DEF Reached
      <3> QED
        BY <2>1, <3>1, <3>2, <3>3, Reaches DEF Abstract!AbstractNext
    <2> QED
      BY <1>3, <2>2, <2>3, SendRequestInv, SendRefusedInv DEF DeliveriesInv
  <1>4. ASSUME UNCHANGED <<delivery, received>> PROVE UNCHANGED <<StatusOf, Reached>>
    BY <1>0, <1>4 DEF StatusOf, OutboxStatus, WebhookStatus, Reached
  <1> QED
    BY <1>1, <1>2, <1>3, <1>4
       DEF WebhookNext, CreateWebhook, DeleteWebhook, UpdateWebhook, Trigger, Replay, BackoffEnds,
           WorkerStep, ProcessPending, LoadConfig, AttemptFails

\* Both workers keep the promise of AtLeastOnce: what is reported delivered has
\* reached its receiver, and a published event stays published, with any number
\* of relays and workers that hold older copies (record_results, attempt_delivery).
THEOREM DeliversWhatItReports == DeliveriesSpec => DeliversAtLeastOnce
  <1>1. DeliveriesInit => Abstract!AbstractInit
    <2> SUFFICES ASSUME DeliveriesInit PROVE Abstract!AbstractInit
      OBVIOUS
    <2>1. \A e \in Event : OutboxStatus(e) = "none"
      BY DEF DeliveriesInit, OutboxInit, NoEntry, OutboxStatus
    <2>2. \A d \in Delivery : WebhookStatus(d) = "none"
      BY DEF DeliveriesInit, WebhookInit, NoRow, WebhookStatus
    <2>3. StatusOf = [i \in Item |-> "none"] /\ Reached = {}
      BY <2>1, <2>2, ItemFacts DEF StatusOf, Reached, DeliveriesInit, OutboxInit, WebhookInit
    <2> QED
      BY <2>3 DEF Abstract!AbstractInit, StatusOf, Reached
  <1>2. ASSUME DeliveriesInv, DeliveriesInv', [DeliveriesNext]_deliveryVars
        PROVE  [Abstract!AbstractNext]_<<StatusOf, Reached>>
    <2>1. ASSUME UNCHANGED <<entry, bus, delivery, received>> PROVE UNCHANGED <<StatusOf, Reached>>
      BY <2>1 DEF StatusOf, OutboxStatus, WebhookStatus, Reached
    <2> QED
      BY <1>2, <2>1, OutboxPromise, WebhookPromise
         DEF DeliveriesNext, Stop, deliveryVars, outboxVars, webhookVars
  <1>3. DeliveriesInv /\ DeliveriesInv' /\ [DeliveriesNext]_deliveryVars
          => [Abstract!AbstractNext]_(Abstract!abstractVars)
    BY <1>2 DEF Abstract!abstractVars, StatusOf, Reached
  <1> QED
    BY <1>1, <1>3, DeliveriesInvariance, PTL
       DEF DeliveriesSpec, DeliversAtLeastOnce, Abstract!AbstractSpec
=============================================================================
