-------------------------- MODULE RuntimeAdmission --------------------------
(***************************************************************************)
(* The admission policy of the device runtime: overload with hysteresis,   *)
(* shedding of low priority, coalescing and dead letters. Every operator   *)
(* is what one caller does to the policy under its lock. Whether the rate  *)
(* limiter has a token is left open.                                       *)
(***************************************************************************)
EXTENDS Naturals, Sequences, FiniteSets

CONSTANTS
  Message,          \* messages that callers admit
  DeviceOf,         \* the device of a message or a timer
  Class,            \* the traffic class of a message
  HighWatermark,
  LowWatermark,
  MaxTracked,       \* coalescing keys that are tracked
  LetterCapacity,   \* dead letters that are kept
  MaxRedrive        \* attempts after which a dead letter is dropped

ASSUME AdmissionAssumption ==
  /\ {HighWatermark, MaxTracked, LetterCapacity, MaxRedrive} \subseteq Nat \ {0}
  /\ LowWatermark \in 0 .. HighWatermark

\* TrafficClass::priority and is_coalescible.
LowPriority(m) == Class[m] \in {"Keepalive", "Position", "Location"}

Coalescible(m) == Class[m] \in {"Keepalive", "Position"}

KeyOf(m) == <<DeviceOf[m], Class[m]>>

EmptyPolicy == [overloaded |-> FALSE, keys |-> {}, letters |-> <<>>]

\* BacklogController::observe.
Observe(p, depth) ==
  [p EXCEPT !.overloaded = IF @ THEN depth > LowWatermark ELSE depth >= HighWatermark]

\* Coalescer::observe: a key that cannot be tracked is admitted all the same.
Track(p, m) ==
  IF Coalescible(m) /\ Cardinality(p.keys) < MaxTracked
  THEN [p EXCEPT !.keys = @ \cup {KeyOf(m)}] ELSE p

Release(p, m) == [p EXCEPT !.keys = @ \ {KeyOf(m)}]

\* AdmissionPolicy::pre_admit: the policy after it and what the caller does next.
PreAdmit(p, m, depth, limited) ==
  LET q == Observe(p, depth) IN
  CASE q.overloaded /\ LowPriority(m) -> [policy |-> q, act |-> "shed"]
    [] ~(q.overloaded /\ LowPriority(m)) /\ limited -> [policy |-> q, act |-> "limit"]
    [] ~(q.overloaded /\ LowPriority(m)) /\ ~limited /\ Coalescible(m) /\ KeyOf(m) \in q.keys ->
         [policy |-> q, act |-> "coalesce"]
    [] OTHER -> [policy |-> Track(q, m), act |-> "admit"]

\* DeadLetterQueue::push_entry: the oldest entry makes room.
PushLetter(p, entry) ==
  [p EXCEPT !.letters = Append(IF Len(@) >= LetterCapacity THEN Tail(@) ELSE @, entry)]

\* Mutant: the message in the dead letters keeps its key.
DeadLetterKeepsKey(p, m, full) == PushLetter(p, [msg |-> m, attempts |-> 0])

\* AdmissionPolicy::dead_letter: a message that passed pre_admit gives its key back.
DeadLetter(p, m, full) ==
  LET q == PushLetter(p, [msg |-> m, attempts |-> 0])
  IN  IF full /\ Coalescible(m) THEN Release(q, m) ELSE q

\* requeue_failed_redrive.
Requeue(p, entry) ==
  IF entry.attempts + 1 >= MaxRedrive THEN p
  ELSE PushLetter(p, [entry EXCEPT !.attempts = @ + 1])
=============================================================================
