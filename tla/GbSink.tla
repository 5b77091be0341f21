------------------------------- MODULE GbSink -------------------------------
(***************************************************************************)
(* Admission of GB28181 events (gb_event_sink/mod.rs, the coalescer, the   *)
(* backlog controller and the dead-letter queue of cheetah-signal-types).  *)
(* Events of one device and, as alarms, those of all others share one      *)
(* bounded channel.                                                        *)
(*                                                                         *)
(* A sink is a record: the channel, the dead letters, whether the device's *)
(* keepalive key is tracked, and the counter that stands for the depth of  *)
(* the channel. Every operator is what one caller does under the lock.     *)
(***************************************************************************)
EXTENDS Naturals, Sequences

CONSTANTS
  QueueDepth,    \* capacity of the channel
  DlqCapacity    \* capacity of the dead-letter queue

ASSUME SinkAssumption == QueueDepth \in Nat \ {0} /\ DlqCapacity \in Nat \ {0}

EventKind == {"Registered", "Unregistered", "Online", "Offline", "Keepalive", "Alarm"}

Event == [kind : EventKind, seq : Nat]

NoSeq(k) == [kind |-> k, seq |-> 0]

\* classify_event: a keepalive is coalescible and of low priority. Positions
\* are treated like keepalives, everything else like alarms.
Low(e) == e.kind = "Keepalive"

Sink == [queue : Seq(Event), dlq : Seq(Event), key : BOOLEAN, pending : Nat]

EmptySink == [queue |-> <<>>, dlq |-> <<>>, key |-> FALSE, pending |-> 0]

Least(m, n) == IF m < n THEN m ELSE n

\* The watermarks of spawn.
HighMark == IF QueueDepth = 1 THEN 1 ELSE (QueueDepth * 4) \div 5

LowMark == HighMark \div 2

Batch == Least(64, QueueDepth)

\* BacklogController::observe: what it may say of a depth. Between the marks that
\* depends on which of them was passed last, which is left open.
Overload(depth) == {o \in BOOLEAN : (o => depth > LowMark) /\ (~o => depth < HighMark)}

\* DeadLetterQueue::push_entry: the oldest entry makes room.
DeadLettered(d, e) == Append(IF Len(d) >= DlqCapacity THEN Tail(d) ELSE d, e)

\* Mutant: a keepalive that is shed keeps its key.
AdmittedKeepsKey(s, e, overloaded) ==
  LET t == [s EXCEPT !.key = @ \/ Low(e)]
  IN  IF Low(e) /\ (s.key \/ overloaded) THEN t
      ELSE IF Len(s.queue) < QueueDepth
           THEN [t EXCEPT !.queue = Append(@, e), !.pending = @ + 1]
           ELSE IF Low(e) THEN t ELSE [t EXCEPT !.dlq = DeadLettered(@, e)]

\* AdmissionState::admit. A keepalive whose key is tracked is dropped, and so is
\* one that finds the channel overloaded or full, which gives its key back; any
\* other event that finds it full is dead-lettered.
Admitted(s, e, overloaded) ==
  IF Low(e) /\ (s.key \/ overloaded) THEN s
  ELSE IF Len(s.queue) < QueueDepth
       THEN [s EXCEPT !.queue = Append(@, e), !.pending = @ + 1, !.key = @ \/ Low(e)]
       ELSE IF Low(e) THEN s ELSE [s EXCEPT !.dlq = DeadLettered(@, e)]

\* Mutant: the batch is drained whatever the channel has room for.
RedrivenPastCapacity(s) ==
  LET n == Least(Batch, Len(s.dlq))
      fit == Least(n, QueueDepth - Len(s.queue))
  IN  [s EXCEPT !.queue = @ \o SubSeq(s.dlq, 1, fit),
                !.dlq = SubSeq(@, n + 1, Len(@)),
                !.pending = @ + fit]

\* AdmissionState::redrive: as many dead letters as the channel has room for go
\* to its back, so that sending them cannot fail.
Redriven(s) ==
  LET n == Least(Least(Batch, QueueDepth - Len(s.queue)), Len(s.dlq))
  IN  [s EXCEPT !.queue = @ \o SubSeq(s.dlq, 1, n),
                !.dlq = SubSeq(@, n + 1, Len(@)),
                !.pending = @ + n]

\* The worker's two critical sections around the processing of an event.
Received(s) == Redriven([s EXCEPT !.pending = IF @ = 0 THEN 0 ELSE @ - 1])

Released(s, e) == Redriven([s EXCEPT !.key = @ /\ ~Low(e)])
=============================================================================
