----------------------------- MODULE Operations -----------------------------
(***************************************************************************)
(* One operation from its submission to its end. API calls, deadlines and  *)
(* takeovers change its row; dispatch workers, woken by the submission     *)
(* event, send its command to the owner of the device.                     *)
(*                                                                         *)
(* Every actor reads the row, changes its copy and saves it; the save is a *)
(* compare-and-swap on the revision. The event is delivered at least once, *)
(* also while an earlier delivery is still being handled. A worker may     *)
(* stop between any two statements.                                        *)
(***************************************************************************)
EXTENDS Naturals, Sequences

CONSTANTS
  Worker,      \* dispatch tasks, one delivery at a time each
  Client,      \* API calls, deadline passes and takeovers in flight
  Msg,         \* copies of the submission event that the relay may publish
  NoMsg,       \* absence of a copy
  MaxDeliver,  \* deliveries of one copy before the bus drops it
  MaxCrashes   \* bound on workers that stop half way

ASSUME OperationsAssumption ==
  /\ NoMsg \notin Msg
  /\ MaxDeliver \in Nat
  /\ MaxCrashes \in Nat

VARIABLES
  op,       \* the row: status, revision and dispatch attempts
  events,   \* outbox of the operation: revision and status of each event
  bus,      \* the copies of the submission event on the message bus
  task,     \* what each worker is doing, with its copy of the row
  call,     \* the copy of the row each client works on
  sent,     \* commands put on the command bus
  crashes   \* workers that stopped so far

opVars == <<op, events, bus, task, call, sent, crashes>>

-----------------------------------------------------------------------------
\* The row.

Terminal == {"Succeeded", "Failed", "Cancelled", "TimedOut"}

Status == {"none", "Pending", "Running"} \cup Terminal

AttemptStatus == {"Pending", "Sent", "Nacked"}

Row == [status : Status, rev : Nat, att : Seq(AttemptStatus)]

NoRow == [status |-> "none", rev |-> 0, att |-> <<>>]

IsTerminal(r) == r.status \in Terminal

HasSentAttempt(r) == \E i \in DOMAIN r.att : r.att[i] = "Sent"

\* Mutant: attempts of earlier dispatches are not looked for.
IgnoresPendingAttempt(r) == FALSE

HasPendingAttempt(r) == \E i \in DOMAIN r.att : r.att[i] = "Pending"

\* The attempt in progress: the latest pending one.
PendingAttempt(r) ==
  CHOOSE i \in DOMAIN r.att :
    r.att[i] = "Pending" /\ \A j \in DOMAIN r.att : r.att[j] = "Pending" => j <= i

\* A change of the aggregate bumps its revision.
Bumped(r) == [r EXCEPT !.rev = @ + 1]

WithStatus(r, s) == Bumped([r EXCEPT !.status = s])

WithAttempt(r) == Bumped([r EXCEPT !.att = Append(@, "Pending")])

Marked(r, s) == Bumped([r EXCEPT !.att[PendingAttempt(r)] = s])

\* Mutant: the save has no WHERE clause.
SavesAlways(r) == TRUE

\* OperationRepository::save: UPDATE ... WHERE revision = new revision - 1.
Saves(r) == op.rev + 1 = r.rev

Save(r) == Saves(r) /\ op' = r

\* A save with the event of the transition, in one transaction.
SaveAndTell(r) ==
  Save(r) /\ events' = Append(events, [rev |-> r.rev, status |-> r.status])

-----------------------------------------------------------------------------
\* Workers.

Pc == {"idle", "start", "record", "send", "sent", "nack", "fail"}

Task == [pc : Pc, msg : Msg \cup {NoMsg}, row : Row]

IdleTask == [pc |-> "idle", msg |-> NoMsg, row |-> NoRow]

Goto(w, pc, r) == task' = [task EXCEPT ![w].pc = pc, ![w].row = r]

Finish(w) == task' = [task EXCEPT ![w] = IdleTask]

Ack(m) == bus' = [bus EXCEPT ![m].live = FALSE]

\* dispatch returned an error: the worker naks, and the copy stays on the bus.
Abandon(w, r) ==
  /\ ~Saves(r)
  /\ Finish(w)
  /\ UNCHANGED <<op, events, bus, call, sent, crashes>>

-----------------------------------------------------------------------------
\* OperationService::submit_operation: row and event in one transaction.
Submit ==
  /\ op = NoRow
  /\ op' = [status |-> "Pending", rev |-> 0, att |-> <<>>]
  /\ events' = <<[rev |-> 0, status |-> "Pending"]>>
  /\ UNCHANGED <<bus, task, call, sent, crashes>>

\* The outbox relay publishes the submission event, again when it could not
\* record that it had done so.
Publish(m) ==
  /\ op # NoRow
  /\ bus[m].count = 0 /\ ~bus[m].live
  /\ bus' = [bus EXCEPT ![m].live = TRUE]
  /\ UNCHANGED <<op, events, task, call, sent, crashes>>

\* Mutant: a running operation counts as sent.
DeliverRunningDone(w, m) ==
  /\ task[w].pc = "idle"
  /\ bus[m].live /\ bus[m].count < MaxDeliver
  /\ bus' = [bus EXCEPT ![m].count = @ + 1, ![m].live = (op.status = "Pending")]
  /\ task' = IF op.status # "Pending" THEN task
             ELSE [task EXCEPT ![w] = [pc |-> "start", msg |-> m, row |-> op]]
  /\ UNCHANGED <<op, events, call, sent, crashes>>

\* A delivery and the read at the start of dispatch. Terminal operations and
\* sent commands need nothing more.
Deliver(w, m) ==
  /\ task[w].pc = "idle"
  /\ bus[m].live /\ bus[m].count < MaxDeliver
  /\ LET done == IsTerminal(op) \/ (op.status = "Running" /\ HasSentAttempt(op))
     IN  /\ bus' = [bus EXCEPT ![m].count = @ + 1, ![m].live = ~done]
         /\ task' = IF done THEN task
                    ELSE [task EXCEPT ![w] =
                            [pc |-> IF op.status = "Pending" THEN "start" ELSE "record",
                             msg |-> m, row |-> op]]
  /\ UNCHANGED <<op, events, call, sent, crashes>>

\* Pending to Running, committed before any I/O.
Start(w) ==
  LET r == WithStatus(task[w].row, "Running")
  IN  /\ task[w].pc = "start"
      /\ \/ /\ SaveAndTell(r)
            /\ Goto(w, "record", r)
            /\ UNCHANGED <<bus, call, sent, crashes>>
         \/ Abandon(w, r)

\* Mutant: the attempt is recorded only after the send.
RecordLater(w) ==
  /\ task[w].pc = "record"
  /\ Goto(w, "send", WithAttempt(task[w].row))
  /\ UNCHANGED <<op, events, bus, call, sent, crashes>>

\* A pending attempt of an earlier dispatch is used again, otherwise a new one
\* is recorded; the row is saved in both cases.
Record(w) ==
  LET old == task[w].row
      r == IF HasPendingAttempt(old) THEN old ELSE WithAttempt(old)
  IN  /\ task[w].pc = "record"
      /\ \/ /\ Save(r)
            /\ Goto(w, "send", r)
            /\ UNCHANGED <<events, bus, call, sent, crashes>>
         \/ Abandon(w, r)

\* The owner is resolved and the command sent: no current owner, an error with
\* nothing sent, an error although the command was sent, or success.
Send(w) ==
  /\ task[w].pc = "send"
  /\ \/ Goto(w, "sent", task[w].row) /\ sent' = sent + 1
     \/ Goto(w, "nack", task[w].row) /\ sent' = sent + 1
     \/ Goto(w, "nack", task[w].row) /\ UNCHANGED sent
  /\ UNCHANGED <<op, events, bus, call, crashes>>

\* mark_dispatch_attempt_sent.
SaveSent(w) ==
  LET r == Marked(task[w].row, "Sent")
  IN  /\ task[w].pc = "sent"
      /\ \/ /\ Save(r)
            /\ Ack(task[w].msg)
            /\ Finish(w)
            /\ UNCHANGED <<events, call, sent, crashes>>
         \/ Abandon(w, r)

\* Mutant: a refused attempt does not end the operation.
SaveNackedOnly(w) ==
  LET r == Marked(task[w].row, "Nacked")
  IN  /\ task[w].pc = "nack"
      /\ \/ /\ Save(r)
            /\ Finish(w)
            /\ UNCHANGED <<events, bus, call, sent, crashes>>
         \/ Abandon(w, r)

\* mark_dispatch_attempt_nacked ...
SaveNacked(w) ==
  LET r == Marked(task[w].row, "Nacked")
  IN  /\ task[w].pc = "nack"
      /\ \/ /\ Save(r)
            /\ Goto(w, "fail", r)
            /\ UNCHANGED <<events, bus, call, sent, crashes>>
         \/ Abandon(w, r)

\* ... and then complete_operation with a failure, in a second transaction.
SaveFailed(w) ==
  LET r == WithStatus(task[w].row, "Failed")
  IN  /\ task[w].pc = "fail"
      /\ \/ /\ SaveAndTell(r)
            /\ Ack(task[w].msg)
            /\ Finish(w)
            /\ UNCHANGED <<call, sent, crashes>>
         \/ Abandon(w, r)

\* The worker's process stops, or a statement of the database fails and the
\* worker naks; the copy it held is delivered again.
Crash(w) ==
  /\ task[w].pc # "idle"
  /\ crashes < MaxCrashes
  /\ crashes' = crashes + 1
  /\ Finish(w)
  /\ UNCHANGED <<op, events, bus, call, sent>>

-----------------------------------------------------------------------------
\* Clients.

\* The statuses a client may give an operation it has read: a cancellation, an
\* elapsed deadline, a takeover, and the device's result once it is running.
Outcomes(r) ==
  CASE r.status = "Pending" -> {"Cancelled", "TimedOut", "Failed"}
    [] r.status = "Running" -> Terminal
    [] OTHER -> {}

ClientRead(c) ==
  /\ call[c] = NoRow
  /\ op.status \in {"Pending", "Running"}
  /\ call' = [call EXCEPT ![c] = op]
  /\ UNCHANGED <<op, events, bus, task, sent, crashes>>

\* The transition on the copy, saved with its event, or a conflict.
ClientSave(c) ==
  /\ call[c] # NoRow
  /\ \E s \in Outcomes(call[c]) :
       LET r == WithStatus(call[c], s)
       IN  \/ SaveAndTell(r)
           \/ ~Saves(r) /\ UNCHANGED <<op, events>>
  /\ call' = [call EXCEPT ![c] = NoRow]
  /\ UNCHANGED <<bus, task, sent, crashes>>

-----------------------------------------------------------------------------
OpInit ==
  /\ op = NoRow
  /\ events = <<>>
  /\ bus = [m \in Msg |-> [live |-> FALSE, count |-> 0]]
  /\ task = [w \in Worker |-> IdleTask]
  /\ call = [c \in Client |-> NoRow]
  /\ sent = 0
  /\ crashes = 0

\* The steps of dispatch after its first read.
Dispatch(w) ==
  Start(w) \/ Record(w) \/ Send(w) \/ SaveSent(w) \/ SaveNacked(w) \/ SaveFailed(w)

OpNext ==
  \/ Submit
  \/ \E m \in Msg : Publish(m)
  \/ \E w \in Worker : Dispatch(w) \/ Crash(w) \/ \E m \in Msg : Deliver(w, m)
  \/ \E c \in Client : ClientRead(c) \/ ClientSave(c)

\* The relay publishes the event, the bus delivers what is not acknowledged and
\* a worker that does not stop finishes its dispatch. Nobody has to call.
OpSpec ==
  /\ OpInit
  /\ [][OpNext]_opVars
  /\ WF_opVars((\A m \in Msg : ~bus[m].live) /\ \E m \in Msg : Publish(m))
  /\ WF_opVars(\E w \in Worker, m \in Msg : Deliver(w, m))
  /\ \A w \in Worker : WF_opVars(Dispatch(w))

-----------------------------------------------------------------------------
\* Properties.

\* The types of the code.
OpTypeOK ==
  /\ op \in Row
  /\ \A i \in DOMAIN events : events[i] \in [rev : Nat, status : Status]
  /\ bus \in [Msg -> [live : BOOLEAN, count : 0..MaxDeliver]]
  /\ task \in [Worker -> Task]
  /\ call \in [Client -> Row]
  /\ sent \in Nat
  /\ crashes \in 0..MaxCrashes

\* An operation has at most one attempt that is not refused, whatever copies of
\* the event are handled at the same time: all but the last were nacked.
AttemptsSequential ==
  \A i \in 1..(Len(op.att) - 1) : op.att[i] = "Nacked"

\* An acknowledged event is never a lost operation: when a dispatch worker has
\* acked a copy, the operation has ended or its command is recorded as sent.
AckMeansSettled ==
  \A m \in Msg : bus[m].count > 0 /\ ~bus[m].live => IsTerminal(op) \/ HasSentAttempt(op)

\* Commands reach the bus only under a committed attempt: as many as the row
\* records, so that a crash after the send is always visible in the row.
SendsAreRecorded == sent <= Len(op.att)

\* Readers of the status and of the events see one life cycle.
Life == INSTANCE OperationLifecycle
          WITH status <- op.status,
               told <- [i \in DOMAIN events |-> events[i].status]

LifeCycle == Life!LifeSpec

\* As long as no worker stops half way, a submitted operation ends or is sent,
\* in spite of deliveries that overlap and saves that conflict.
Dispatched ==
  (op.status = "Pending") ~> (IsTerminal(op) \/ HasSentAttempt(op) \/ crashes > 0)

\* Claim of the comment on CommandDispatcher::dispatch: a dispatch that finds a
\* pending attempt of a crashed one, with nobody else at work, sends again.
PendingAttemptIsResent ==
  [][\A w \in Worker :
       /\ task[w].pc = "record" /\ task'[w].pc # "record"
       /\ HasPendingAttempt(task[w].row)
       /\ op = task[w].row
       /\ \A v \in Worker \ {w} : task[v].pc = "idle"
       /\ crashes' = crashes
       => task'[w].pc = "send"]_opVars
=============================================================================
