----------------------------- MODULE OutboxRelay -----------------------------
(***************************************************************************)
(* The outbox and its relays, one in each process (outbox_relay.rs,        *)
(* event_service.rs, the outbox of the storages). A relay reads a batch in *)
(* one transaction, publishes its events one by one without a transaction  *)
(* and records the results in a second one. Nothing claims an entry, so    *)
(* several relays may have it.                                             *)
(***************************************************************************)
EXTENDS DeliveryProcess, FiniteSets, Sequences, SequencesExt

CONSTANTS
  NumEvents,          \* events, numbered by occurred_at
  BatchSize,          \* entries of a batch
  OutboxMaxAttempts   \* MAX_ATTEMPTS

ASSUME OutboxAssumption == {NumEvents, BatchSize, OutboxMaxAttempts} \subseteq Nat \ {0}

VARIABLES
  entry,   \* rows of outbox_events
  relay,   \* the batch of each relay and the results so far
  bus      \* events the message bus has taken

outboxVars == <<entry, relay, bus>>

Event == 1 .. NumEvents

Entry == [there : BOOLEAN, published : BOOLEAN, failed : BOOLEAN, attempts : 0 .. OutboxMaxAttempts]

NoEntry == [there |-> FALSE, published |-> FALSE, failed |-> FALSE, attempts |-> 0]

Resting == [batch |-> <<>>, results |-> <<>>]

OutboxInit ==
  /\ entry = [e \in Event |-> NoEntry]
  /\ relay = [p \in Process |-> Resting]
  /\ bus = {}

\* append, in the transaction of whoever makes the event.
AppendEntry(e) ==
  /\ ~entry[e].there
  /\ entry' = [entry EXCEPT ![e].there = TRUE]
  /\ UNCHANGED <<relay, bus, faults>>

\* The condition of pending but for next_attempt_at.
Open(e) == entry[e].there /\ ~entry[e].published /\ ~entry[e].failed

\* next_attempt_at: an event that failed before is due some time later.
DueSets == {D \in SUBSET Event : /\ D # {} /\ \A e \in D : Open(e)
                                /\ \A e \in Event \ D : Open(e) => entry[e].attempts > 0}

\* pending: the first of the due events, in their order.
FirstOf(D) ==
  LET size == IF BatchSize < Cardinality(D) THEN BatchSize ELSE Cardinality(D)
  IN  {s \in [1 .. size -> D] : /\ \A m, n \in 1 .. size : m < n => s[m] < s[n]
                                /\ \A e \in D \ ToSet(s) : \A n \in 1 .. size : s[n] < e}

\* read_pending, the first transaction of run_once: the relay keeps the events
\* with the attempts they have.
ReadPending(p) ==
  /\ relay[p] = Resting
  /\ \E D \in DueSets : \E s \in FirstOf(D) :
       relay' = [relay EXCEPT ![p].batch =
                   [n \in DOMAIN s |-> [event |-> s[n], attempts |-> entry[s[n]].attempts]]]
  /\ UNCHANGED <<entry, bus, faults>>

\* publish_events. A publication that fails may have reached the bus.
Publish(p) ==
  LET n == Len(relay[p].results) + 1
  IN  /\ n <= Len(relay[p].batch)
      /\ \E ok \in BOOLEAN, took \in BOOLEAN :
           /\ ok => took
           /\ relay' = [relay EXCEPT ![p].results = Append(@, ok)]
           /\ bus' = IF took THEN bus \cup {relay[p].batch[n].event} ELSE bus
      /\ UNCHANGED <<entry, faults>>

\* Mutant: an event that failed for the last time counts as published.
MarkedAtLast(row, copy, ok) ==
  IF ok \/ copy.attempts + 1 >= OutboxMaxAttempts THEN [row EXCEPT !.published = TRUE]
  ELSE [row EXCEPT !.attempts = copy.attempts + 1]

\* Mutant: mark_failed keeps the attempts.
MarkedUncounted(row, copy, ok) == IF ok THEN [row EXCEPT !.published = TRUE] ELSE row

\* mark_published and mark_failed. The attempts are those of the copy that the
\* relay has, and the row is updated whatever has become of it.
Marked(row, copy, ok) ==
  IF ok THEN [row EXCEPT !.published = TRUE]
  ELSE [row EXCEPT !.attempts = copy.attempts + 1, !.failed = copy.attempts + 1 >= OutboxMaxAttempts]

\* record_results, the second transaction.
Record(p) ==
  LET r == relay[p]
  IN  /\ r # Resting /\ Len(r.results) = Len(r.batch)
      /\ entry' = [e \in Event |->
                     IF \E n \in DOMAIN r.batch : r.batch[n].event = e
                     THEN LET n == CHOOSE k \in DOMAIN r.batch : r.batch[k].event = e
                          IN  Marked(entry[e], r.batch[n], r.results[n])
                     ELSE entry[e]]
      /\ relay' = [relay EXCEPT ![p] = Resting]
      /\ UNCHANGED <<bus, faults>>

ForgetBatch(p) == relay' = [relay EXCEPT ![p] = Resting]

\* The second transaction fails and run_once returns.
RecordFails(p) ==
  /\ relay[p] # Resting /\ Len(relay[p].results) = Len(relay[p].batch)
  /\ Fault /\ ForgetBatch(p)
  /\ UNCHANGED <<entry, bus>>

RelayStep(p) == ReadPending(p) \/ Publish(p) \/ Record(p)

OutboxTypeOK ==
  /\ entry \in [Event -> Entry] /\ bus \subseteq Event
  /\ \A p \in Process : Len(relay[p].results) <= Len(relay[p].batch)

\* What the row says of an event.
OutboxStatus(e) ==
  IF ~entry[e].there THEN "none"
  ELSE IF entry[e].published THEN "delivered"
  ELSE IF entry[e].failed THEN "dropped" ELSE "waiting"
=============================================================================
