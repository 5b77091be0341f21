--------------------------- MODULE CascadeReports ---------------------------
(***************************************************************************)
(* The reports a link holds back for the upstream platform                 *)
(* (cascade/report.rs): alarms in a queue, and one snapshot per device and *)
(* kind for presence and position, of which only the last one counts. Both *)
(* share one bound, MaxReports. A store of reports is a record of the two  *)
(* sequences, oldest first.                                                *)
(***************************************************************************)
EXTENDS Naturals, Sequences, SequencesExt

CONSTANTS
  Alarm,       \* alarms, all different
  Snapshot,    \* merge keys of presence and position reports
  MaxReports   \* report_max_queue_size

ASSUME ReportsAssumption == MaxReports \in Nat /\ Alarm \cap Snapshot = {}

Store == [snaps : Seq(Snapshot), queue : Seq(Alarm)]

NoReports == [snaps |-> <<>>, queue |-> <<>>]

Smaller(m, n) == IF m < n THEN m ELSE n

\* Without the oldest n elements.
DropOldest(s, n) == SubSeq(s, 1 + Smaller(n, Len(s)), Len(s))

Excess(st) == IF Len(st.snaps) + Len(st.queue) > MaxReports
              THEN Len(st.snaps) + Len(st.queue) - MaxReports ELSE 0

\* Mutant: the queue gives way first.
BoundsQueueFirst(st) ==
  LET q == DropOldest(st.queue, Excess(st))
  IN  [snaps |-> DropOldest(st.snaps, Excess([st EXCEPT !.queue = q])), queue |-> q]

\* enforce_bounds: snapshots give way to alarms.
Bounded(st) ==
  LET kept == DropOldest(st.snaps, Excess(st))
  IN  [snaps |-> kept, queue |-> DropOldest(st.queue, Excess([st EXCEPT !.snaps = kept]))]

\* push_to_queue of an alarm: the front of a full queue makes room.
Pushed(q, a) == Append(IF Len(q) >= MaxReports /\ q # <<>> THEN Tail(q) ELSE q, a)

EnqueueAlarm(st, a) == Bounded([st EXCEPT !.queue = Pushed(@, a)])

\* The order of the snapshots without the place of key k.
Without(s, k) == IF k \in ToSet(s) THEN RemoveAt(s, CHOOSE i \in DOMAIN s : s[i] = k) ELSE s

\* A newer snapshot replaces the one with the same key and goes to the back.
EnqueueSnapshot(st, k) == Bounded([st EXCEPT !.snaps = Append(Without(@, k), k)])

\* prune_expired, which never looks at alarms. A snapshot is good for a fixed
\* time (STATE_REPORT_TTL_SECONDS), so that the oldest ones expire first.
Pruned(st, n) == [st EXCEPT !.snaps = DropOldest(@, n)]

\* flush of a registered link: the snapshots that fit follow the alarms into
\* the queue, and everything in it is sent.
Flushed(st) ==
  LET moved == Smaller(Len(st.snaps), MaxReports - Smaller(Len(st.queue), MaxReports))
  IN  [snaps |-> DropOldest(st.snaps, moved), queue |-> <<>>]
=============================================================================
