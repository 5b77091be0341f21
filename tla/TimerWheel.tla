----------------------------- MODULE TimerWheel -----------------------------
(***************************************************************************)
(* The timer wheel of the device runtime: timers that wait for their       *)
(* deadline, and those that are due and found the mailbox of their shard   *)
(* full. Which deadlines have passed is left open. What a tick does with   *)
(* the mailboxes is in DeviceRuntime.                                      *)
(***************************************************************************)
EXTENDS Naturals, SequencesExt

CONSTANTS
  Timer,            \* timers, which have an id that is used once
  MailboxCapacity,
  MaxPending        \* timers that wait for room in a mailbox

ASSUME WheelAssumption == MailboxCapacity \in Nat \ {0} /\ MaxPending \in Nat \ {0}

Full(box) == Len(box) >= MailboxCapacity

\* What of a queue is in a set, in the same order.
Keep(queue, S) ==
  LET kept[i \in 0 .. Len(queue)] ==
        IF i = 0 THEN <<>>
        ELSE IF queue[i] \in S THEN Append(kept[i - 1], queue[i]) ELSE kept[i - 1]
  IN  kept[Len(queue)]

\* In a tick the wheel expires timers, and then takes those that wait for room into
\* rest, to try each again.
EmptyWheel == [up |-> TRUE, pc |-> "select", set |-> {}, pending |-> <<>>, rest |-> <<>>]

\* enforce_limit: the oldest timers are dropped.
EnforceLimit(pending) ==
  IF Len(pending) > MaxPending THEN SubSeq(pending, Len(pending) - MaxPending + 1, Len(pending)) ELSE pending

\* Mutant: a timer that waits for room is not found.
CancelWaiting(w, t) == [w EXCEPT !.set = @ \ {t}]

\* process_command.
Schedule(w, t) == [w EXCEPT !.set = @ \cup {t}]

Cancel(w, t) ==
  [w EXCEPT !.set = @ \ {t}, !.pending = EnforceLimit(Keep(@, Timer \ {t}))]
=============================================================================
