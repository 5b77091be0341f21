----------------------------- MODULE GbPresence -----------------------------
(***************************************************************************)
(* Whether a GB28181 device is online, from the SIP request to the row of  *)
(* the device: the registration table of Gb28181Access, the tasks of the   *)
(* driver that carry out what it decided, the event sink, and its worker,  *)
(* which keeps the row.                                                    *)
(*                                                                         *)
(* The table changes under one lock; the events of the change are emitted  *)
(* after it, by the task that made it, so those of two tasks may be        *)
(* emitted in the other order. The worker takes an event from the channel  *)
(* before it takes the lock of the sink. Every transaction is a step.      *)
(* Requests that are rejected change nothing and are no actions, and a     *)
(* tick finds any registration expired or silent.                          *)
(***************************************************************************)
EXTENDS GbSink, SequencesExt

CONSTANTS
  Conn,        \* receive loops of sockets and connections
  Stream,      \* those that are TCP connections
  Ticker,      \* the task that ticks
  MaxSeq,      \* bound on registration sequence numbers
  MaxExtra     \* bound on alarms, failures, restarts and retirements together

ASSUME PresenceAssumption ==
  /\ Stream \subseteq Conn /\ Ticker \notin Conn
  /\ {MaxSeq, MaxExtra} \subseteq Nat

VARIABLES
  reg,     \* the device's entry in the registration table
  next,    \* next_sequence of the table
  out,     \* the events each task has still to emit
  sink,    \* the event sink
  worker,  \* the worker of the sink and the event it has
  row,     \* connectivity of the device's row
  boots,   \* registration sequences whose bootstrap queries are submitted
  extra,   \* alarms, failures, restarts and retirements so far
  turn,    \* history, until a mishap: tasks with events to emit, by their changes
  mishap   \* history: an event was lost or overtaken

presenceVars == <<reg, next, out, sink, worker, row, boots, extra, turn, mishap>>

Task == Conn \cup {Ticker}

NotRegistered == [st |-> "none", seq |-> 0]

Registration == [st : {"none", "online", "offline"}, seq : Nat]

NoEvent == NoSeq("none")

Idle == [pc |-> "idle", ev |-> NoEvent]

Worker == [pc : {"idle", "got", "work", "mark", "boot", "after"}, ev : Event \cup {NoEvent}]

Row == {"none", "Unknown", "Online", "Offline"}

PresenceInit ==
  /\ reg = NotRegistered /\ next = 0
  /\ out = [t \in Task |-> <<>>]
  /\ sink = EmptySink /\ worker = Idle
  /\ row = "none" /\ boots = {}
  /\ extra = 0
  /\ turn = <<>> /\ mishap = FALSE

-----------------------------------------------------------------------------
\* The registration table and the tasks of the driver.

Produces(t, actions) ==
  /\ out[t] = <<>>
  /\ out' = [out EXCEPT ![t] = actions]
  /\ turn' = IF mishap THEN turn ELSE Append(turn, t)

\* RegistrationTable::upsert: a device that comes back gets a new number.
NextSequence == IF reg.st = "online" THEN reg.seq ELSE next + 1

\* process_register and register_accepted.
Register(t) ==
  /\ NextSequence <= MaxSeq
  /\ reg' = [st |-> "online", seq |-> NextSequence]
  /\ next' = IF NextSequence > next THEN NextSequence ELSE next
  /\ Produces(t, <<[kind |-> "Registered", seq |-> NextSequence]>>)
  /\ UNCHANGED <<sink, worker, row, boots, extra, mishap>>

\* A REGISTER with expires 0, whether or not the device is registered.
Unregister(t) ==
  /\ reg' = NotRegistered
  /\ Produces(t, <<NoSeq("Unregistered")>>)
  /\ UNCHANGED <<next, sink, worker, row, boots, extra, mishap>>

\* Mutant: the entry is touched and nobody is told.
MessageTouchesOnly(t, k) ==
  /\ reg.st # "none"
  /\ IF k = "Alarm" THEN extra < MaxExtra /\ extra' = extra + 1 ELSE UNCHANGED extra
  /\ reg' = [reg EXCEPT !.st = "online"]
  /\ Produces(t, <<NoSeq(k)>>)
  /\ UNCHANGED <<next, sink, worker, row, boots, mishap>>

\* process_message_body of a registered device, with touch. The events come
\* before the response, which is left out.
Message(t, k) ==
  /\ reg.st # "none"
  /\ IF k = "Alarm" THEN extra < MaxExtra /\ extra' = extra + 1 ELSE UNCHANGED extra
  /\ reg' = [reg EXCEPT !.st = "online"]
  /\ Produces(t, IF reg.st = "offline" THEN <<NoSeq("Online"), NoSeq(k)>> ELSE <<NoSeq(k)>>)
  /\ UNCHANGED <<next, sink, worker, row, boots, mishap>>

Keepalive(t) == Message(t, "Keepalive")

\* tick: the registration has expired.
TickExpired ==
  /\ reg.st # "none"
  /\ reg' = NotRegistered
  /\ Produces(Ticker, <<NoSeq("Unregistered")>>)
  /\ UNCHANGED <<next, sink, worker, row, boots, extra, mishap>>

\* tick: nothing was heard for the heartbeat timeout.
TickSilent ==
  /\ reg.st = "online"
  /\ reg' = [reg EXCEPT !.st = "offline"]
  /\ Produces(Ticker, <<NoSeq("Offline")>>)
  /\ UNCHANGED <<next, sink, worker, row, boots, extra, mishap>>

\* The response to a REGISTER is written before its event is emitted. A failed
\* write ends the connection, and the event is never emitted.
WriteFails(t) ==
  /\ out[t] # <<>> /\ Head(out[t]).kind \in {"Registered", "Unregistered"}
  /\ extra < MaxExtra
  /\ out' = [out EXCEPT ![t] = <<>>]
  /\ turn' = <<>> /\ extra' = extra + 1 /\ mishap' = TRUE
  /\ UNCHANGED <<reg, next, sink, worker, row, boots>>

\* An event that the sink takes before an older one, or that displaces one.
Overtakes(t, e) ==
  \/ Head(turn) # t
  \/ sink.dlq # <<>> /\ Len(sink.queue) < QueueDepth
  \/ ~Low(e) /\ Len(sink.queue) = QueueDepth /\ Len(sink.dlq) = DlqCapacity

\* emit.
Emit(t) ==
  /\ out[t] # <<>>
  /\ \E o \in Overload(sink.pending) : sink' = Admitted(sink, Head(out[t]), o)
  /\ out' = [out EXCEPT ![t] = Tail(@)]
  /\ mishap' = (mishap \/ Overtakes(t, Head(out[t])))
  /\ turn' = IF mishap' THEN <<>> ELSE IF Len(out[t]) = 1 THEN Tail(turn) ELSE turn
  /\ UNCHANGED <<reg, next, worker, row, boots, extra>>

-----------------------------------------------------------------------------
\* The worker.

At(pc) == worker.pc = pc

Goes(pc) == worker' = [worker EXCEPT !.pc = pc]

\* rx.recv, outside the lock.
Receive ==
  /\ At("idle") /\ sink.queue # <<>>
  /\ worker' = [pc |-> "got", ev |-> Head(sink.queue)]
  /\ sink' = [sink EXCEPT !.queue = Tail(@)]
  /\ UNCHANGED <<reg, next, out, row, boots, extra, turn, mishap>>

Lock ==
  /\ At("got") /\ Goes("work")
  /\ sink' = Received(sink)
  /\ UNCHANGED <<reg, next, out, row, boots, extra, turn, mishap>>

Forced == worker.ev.kind \in {"Registered", "Online"}

AfterOnline == IF worker.ev.kind = "Registered" THEN "boot" ELSE "after"

\* Mutant: a keepalive only concerns devices that are new.
EnsureOnlineNew ==
  /\ worker.ev.kind \in {"Registered", "Online", "Keepalive"}
  /\ IF row = "none" /\ Forced THEN row' = "Unknown" /\ Goes("mark")
     ELSE IF row \in {"none", "Online"} \/ ~Forced THEN Goes(AfterOnline) /\ UNCHANGED row
     ELSE row' = "Online" /\ Goes(AfterOnline)
  /\ UNCHANGED boots

\* ensure_online: a keepalive does not create a device.
EnsureOnline ==
  /\ worker.ev.kind \in {"Registered", "Online", "Keepalive"}
  /\ IF row = "none" /\ Forced THEN row' = "Unknown" /\ Goes("mark")
     ELSE IF row \in {"none", "Online"} THEN Goes(AfterOnline) /\ UNCHANGED row
     ELSE row' = "Online" /\ Goes(AfterOnline)
  /\ UNCHANGED boots

\* mark_offline.
MarkOffline ==
  /\ worker.ev.kind \in {"Unregistered", "Offline"}
  /\ row' = IF row = "none" THEN row ELSE "Offline"
  /\ Goes("after") /\ UNCHANGED boots

\* append_gb_event.
AppendEvent ==
  /\ worker.ev.kind = "Alarm"
  /\ Goes("after") /\ UNCHANGED <<row, boots>>

\* The device was created; a second transaction marks it online.
MarkOnline == row # "none" /\ row' = "Online" /\ Goes(AfterOnline) /\ UNCHANGED boots

\* submit_bootstrap_queries; the key makes the same sequence a no-op.
Bootstrap ==
  /\ boots' = IF row = "none" THEN boots ELSE boots \cup {worker.ev.seq}
  /\ Goes("after") /\ UNCHANGED row

\* process_event.
Process ==
  /\ \/ At("work") /\ (EnsureOnline \/ MarkOffline \/ AppendEvent)
     \/ At("mark") /\ MarkOnline
     \/ At("boot") /\ Bootstrap
  /\ UNCHANGED <<reg, next, out, sink, extra, turn, mishap>>

\* A statement fails, or conflicts with another writer of the row. The error
\* is logged and the event is gone.
ProcessFails ==
  /\ worker.pc \in {"work", "mark", "boot"}
  /\ extra < MaxExtra \/ (At("mark") /\ row = "none")
  /\ extra' = Least(extra + 1, MaxExtra)
  /\ mishap' = TRUE /\ turn' = <<>>
  /\ Goes("after")
  /\ UNCHANGED <<reg, next, out, sink, row, boots>>

Unlock ==
  /\ At("after")
  /\ sink' = Released(sink, worker.ev)
  /\ worker' = Idle
  /\ UNCHANGED <<reg, next, out, row, boots, extra, turn, mishap>>

\* The redrive interval, when the worker waits for an event. With a channel no
\* larger than a batch it finds nothing that fits.
RedriveTick ==
  /\ At("idle")
  /\ sink' = Redriven(sink)
  /\ UNCHANGED <<reg, next, out, worker, row, boots, extra, turn, mishap>>

WorkerStep == Receive \/ Lock \/ Process \/ Unlock \/ RedriveTick

-----------------------------------------------------------------------------
\* retire_device: the row is marked deleted and not found any more.
Retire ==
  /\ row # "none" /\ extra < MaxExtra
  /\ row' = "none" /\ boots' = {}
  /\ extra' = extra + 1 /\ mishap' = TRUE /\ turn' = <<>>
  /\ UNCHANGED <<reg, next, out, sink, worker>>

\* The process stops and starts again.
Restart ==
  /\ extra < MaxExtra
  /\ reg' = NotRegistered /\ next' = 0
  /\ out' = [t \in Task |-> <<>>] /\ turn' = <<>>
  /\ sink' = EmptySink /\ worker' = Idle
  /\ extra' = extra + 1 /\ mishap' = TRUE
  /\ UNCHANGED <<row, boots>>

PresenceNext ==
  \/ \E t \in Conn : Register(t) \/ Unregister(t) \/ Keepalive(t) \/ Message(t, "Alarm")
  \/ TickExpired \/ TickSilent
  \/ \E t \in Stream : WriteFails(t)
  \/ \E t \in Task : Emit(t)
  \/ WorkerStep \/ ProcessFails \/ Retire \/ Restart

\* Tasks and the worker go on, and a registered device sends keepalives.
PresenceFairness ==
  /\ WF_presenceVars(WorkerStep)
  /\ \A t \in Task : WF_presenceVars(Emit(t))
  /\ \E t \in Conn : WF_presenceVars(Keepalive(t))

PresenceSpec == PresenceInit /\ [][PresenceNext]_presenceVars /\ PresenceFairness

-----------------------------------------------------------------------------
\* The variables keep their types, and the channel and the dead letters their
\* bounds.
PresenceTypeOK ==
  /\ reg \in Registration /\ next \in 0 .. MaxSeq /\ reg.seq <= next
  /\ \A t \in Task : ToSet(out[t]) \subseteq Event
  /\ sink \in Sink
  /\ Len(sink.queue) <= QueueDepth /\ Len(sink.dlq) <= DlqCapacity
  /\ worker \in Worker /\ row \in Row /\ boots \subseteq 1 .. MaxSeq

InHand == IF At("idle") THEN <<>> ELSE <<worker.ev>>

\* The places of the keepalives among the events s, and those of the others.
Keepalives(s) == {i \in DOMAIN s : Low(s[i])}

Others(s) == DOMAIN s \ Keepalives(s)

\* A tracked keepalive key belongs to exactly one keepalive on its way, so that
\* keepalives are never coalesced with one that is gone, and the depth that the
\* backlog controller sees is that of the channel, but for an event the worker
\* has just taken (admit, shed_event, the worker loop).
AdmissionAccounted ==
  /\ Cardinality(Keepalives(sink.queue \o InHand)) = IF sink.key THEN 1 ELSE 0
  /\ sink.pending = Len(sink.queue) + IF At("got") THEN 1 ELSE 0

Waiting == Cardinality(Others(sink.queue \o sink.dlq))
             + IF At("got") /\ ~Low(worker.ev) THEN 1 ELSE 0

\* An event that is no keepalive waits until the worker takes it up, unless a
\* full dead-letter queue displaces it or the process stops ("never silently
\* lost", gb_event_sink/mod.rs).
EventsKept ==
  [][ \/ Waiting' >= Waiting
      \/ At("got") /\ worker'.pc = "work" /\ Waiting' = Waiting - 1
      \/ sink' = EmptySink /\ reg' = NotRegistered ]_presenceVars

Quiet == (\A t \in Task : out[t] = <<>>) /\ sink.queue = <<>> /\ sink.dlq = <<>> /\ At("idle")

\* When nothing is under way and no event was lost or overtaken, the row says
\* what the registration table says, and the bootstrap queries of the present
\* registration are submitted.
RowFollowsTable ==
  Quiet /\ ~mishap => /\ row = "Online" <=> reg.st = "online"
                      /\ reg.st = "online" => reg.seq \in boots

\* Whatever was lost or overtaken, a device that stays registered and sends
\* keepalives is shown online in the end, if it has a row.
OnlineInTheEnd == (reg.st = "online" /\ row # "none") ~> (row \in {"Online", "none"} \/ reg.st # "online")
=============================================================================
