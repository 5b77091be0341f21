--------------------------- MODULE DeviceRuntime ---------------------------
(***************************************************************************)
(* The runtime of device actors (cheetah-runtime-tokio): shard workers     *)
(* with bounded mailboxes, the timer wheel, callers that admit messages,   *)
(* the redrive of dead letters, drain and shutdown, and the application    *)
(* that reads the outputs. A step is what a task does between two awaits,  *)
(* or under a lock, or with one channel. Times are left open: when a timer *)
(* is due, when an actor is idle, when a wait times out.                   *)
(*                                                                         *)
(* What an actor does is left open too: it fails or has an output, and it  *)
(* may schedule or cancel timers before, for which it waits for room in    *)
(* the channel of the wheel. The application releases the coalescing key   *)
(* of a message when it reads its output.                                  *)
(***************************************************************************)
EXTENDS RuntimeAdmission, TimerWheel

CONSTANTS
  Device,           \* devices, numbered in the order of their keys
  Shard,            \* shards, numbered
  Route,            \* ShardRouter::route: the shard of each device
  Direct,           \* messages that callers pass to send_message, not to admit
  Earlier,          \* of messages that are alike, those whose callers come first
  OutputCapacity,
  CommandCapacity,  \* commands to the timer wheel
  MaxCalls,         \* calls to the timer wheel that an actor makes for a message
  MaxPoll,          \* max_messages_per_poll
  MaxConsecutive,   \* max_consecutive_per_device
  RedriveBatch,     \* dead letters of one redrive
  Shutdown          \* RuntimeMessage::Shutdown

ASSUME RuntimeAssumption ==
  /\ {OutputCapacity, CommandCapacity, MaxCalls, MaxPoll, MaxConsecutive, RedriveBatch} \subseteq Nat \ {0}
  /\ Device \subseteq Nat /\ Shard \subseteq Nat
  /\ Route \in [Device -> Shard] /\ \A x \in Message \cup Timer : DeviceOf[x] \in Device
  /\ Message \cap Timer = {} /\ Shutdown \notin Message \cup Timer

VARIABLES
  mailbox,   \* the channel of each shard
  shard,     \* what each shard worker is doing, its queues and its actors
  wheel,     \* the timer wheel
  commands,  \* commands on their way to it
  output,    \* outputs that the application has not read
  policy,    \* the admission policy
  call,      \* what the caller of each message is doing
  batch,     \* dead letters that are being redriven
  untold,    \* shards that are not told to shut down
  draining,  \* new work is refused
  owed,      \* history: what entered the mailbox for a device before Shutdown and its
             \* actor has not got
  orphan,    \* history: tracked keys of messages that have no output
  issued,    \* history: timers that were scheduled
  fired,     \* history: timers that entered a mailbox
  cancelled  \* history: timers that the wheel was told to cancel before

shardVars == <<mailbox, shard, owed, orphan>>

wheelVars == <<wheel, commands, issued, fired, cancelled>>

stopVars == <<untold, draining>>

callVars == <<policy, call, batch>>

runtimeVars == <<mailbox, shard, wheel, commands, output, policy, call, batch, untold, draining,
                 owed, orphan, issued, fired, cancelled>>

Item == Message \cup Timer

\* What of a queue is for a device.
For(d, queue) == Keep(queue, {x \in Item : DeviceOf[x] = d})

ShardOf(x) == Route[DeviceOf[x]]

NewShard == [pc |-> "recv", ready |-> [d \in Device |-> <<>>], round |-> {}, left |-> MaxPoll,
             streak |-> 0, hand |-> <<>>, calls |-> <<>>, actors |-> {}, down |-> FALSE]

RuntimeInit ==
  /\ mailbox = [s \in Shard |-> <<>>] /\ shard = [s \in Shard |-> NewShard]
  /\ wheel = EmptyWheel /\ commands = <<>> /\ output = <<>>
  /\ policy = EmptyPolicy /\ call = [m \in Message |-> "new"]
  /\ batch = <<>> /\ untold = Shard /\ draining = FALSE
  /\ owed = [d \in Device |-> <<>>] /\ orphan = {}
  /\ issued = {} /\ fired = {} /\ cancelled = {}

-----------------------------------------------------------------------------
\* Channels.

Stopped(s) == shard[s].pc = "stopped"

Closed == {s \in Shard : Stopped(s)}

\* Shutdown has entered the mailbox.
Told(s) == shard[s].down \/ Shutdown \in Range(mailbox[s])

\* try_send of an item whose shard has room.
Put(x) ==
  /\ mailbox' = [mailbox EXCEPT ![ShardOf(x)] = Append(@, x)]
  /\ owed' = [owed EXCEPT ![DeviceOf[x]] = IF Told(ShardOf(x)) THEN @ ELSE Append(@, x)]

\* Runtime::shard_mailbox_depths.
Depth == FoldFunction(LAMBDA box, n : Len(box) + n, 0, mailbox)

-----------------------------------------------------------------------------
\* Callers of admit and send_message.

Goes(m, pc) == call' = [call EXCEPT ![m] = pc]

\* Both refuse a message while the runtime drains, and nothing changes; admit then
\* reads the depth and asks the policy.
Offer(m) ==
  /\ call[m] = "new" /\ ~draining
  /\ \A n \in Earlier[m] : call[n] # "new"
  /\ \/ m \in Direct /\ Goes(m, "direct") /\ UNCHANGED policy
     \/ /\ m \notin Direct
        /\ \E limited \in BOOLEAN :
             LET r == PreAdmit(policy, m, Depth, limited) IN
               /\ policy' = r.policy
               /\ Goes(m, CASE r.act = "admit" -> "send" [] r.act = "coalesce" -> "done" [] OTHER -> "letter")
  /\ UNCHANGED <<shardVars, wheelVars, stopVars, output, batch>>

\* route_send. A message that finds the mailbox full is refused by send_message and
\* dead-lettered by admit; one that finds it closed is refused by both.
Send(m) ==
  /\ call[m] \in {"send", "direct"}
  /\ IF ~Stopped(ShardOf(m)) /\ ~Full(mailbox[ShardOf(m)])
     THEN Put(m) /\ Goes(m, "done")
     ELSE /\ Goes(m, IF Stopped(ShardOf(m)) \/ call[m] = "direct" THEN "done" ELSE "full")
          /\ UNCHANGED <<mailbox, owed>>
  /\ UNCHANGED <<shard, orphan, wheelVars, stopVars, output, policy, batch>>

Letter(m) ==
  /\ call[m] \in {"letter", "full"}
  /\ policy' = DeadLetter(policy, m, call[m] = "full")
  /\ Goes(m, "done")
  /\ UNCHANGED <<shardVars, wheelVars, stopVars, output, batch>>

\* redrive: it does not look at the draining flag.
Redrive ==
  /\ batch = <<>> /\ ~policy.overloaded /\ policy.letters # <<>>
  /\ LET n == IF RedriveBatch < Len(policy.letters) THEN RedriveBatch ELSE Len(policy.letters) IN
       /\ batch' = SubSeq(policy.letters, 1, n)
       /\ policy' = [policy EXCEPT !.letters = SubSeq(@, n + 1, Len(@))]
  /\ UNCHANGED <<shardVars, wheelVars, stopVars, output, call>>

\* One entry of the batch; a closed mailbox ends the redrive and with it the batch.
RedriveOne ==
  /\ batch # <<>>
  /\ LET m == Head(batch).msg IN
     \/ Stopped(ShardOf(m)) /\ batch' = <<>> /\ UNCHANGED <<policy, mailbox, owed>>
     \/ /\ ~Stopped(ShardOf(m)) /\ batch' = Tail(batch)
        /\ IF Full(mailbox[ShardOf(m)])
           THEN policy' = Requeue(policy, Head(batch)) /\ UNCHANGED <<mailbox, owed>>
           ELSE Put(m) /\ UNCHANGED policy
  /\ UNCHANGED <<shard, orphan, wheelVars, stopVars, output, call>>

-----------------------------------------------------------------------------
\* A shard worker.

Ready(sh) == {d \in Device : sh.ready[d] # <<>>}

\* Mutant: Shutdown ends the loop at once.
SortAndLeave(sh, x) ==
  IF x = Shutdown THEN [sh EXCEPT !.pc = "closing", !.down = TRUE]
  ELSE [sh EXCEPT !.pc = "drain", !.ready[DeviceOf[x]] = Append(@, x)]

\* Where a received item goes.
Sort(sh, x) ==
  IF x = Shutdown THEN [sh EXCEPT !.pc = "drain", !.down = TRUE]
  ELSE [sh EXCEPT !.pc = "drain", !.ready[DeviceOf[x]] = Append(@, x)]

\* recv and the loop of try_recv: everything in the mailbox goes to the ready
\* queues of its devices before anything is processed.
Receive(s) ==
  /\ shard[s].pc \in {"recv", "drain"} /\ mailbox[s] # <<>>
  /\ shard' = [shard EXCEPT ![s] = Sort(@, Head(mailbox[s]))]
  /\ mailbox' = [mailbox EXCEPT ![s] = Tail(@)]
  /\ UNCHANGED <<owed, orphan, wheelVars, stopVars, callVars, output>>

Received(s) ==
  /\ shard[s].pc = "drain" /\ mailbox[s] = <<>>
  /\ shard' = [shard EXCEPT ![s].pc = "poll"]
  /\ UNCHANGED <<mailbox, owed, orphan, wheelVars, stopVars, callVars, output>>

\* process_ready_queue: whose turn it is, the least of the devices that the round
\* has not come to the end of. A round begins with the devices that are ready; a call
\* handles MaxPoll messages, of one device MaxConsecutive in a row and a round, and
\* begins a round.
Turn(sh) ==
  LET over == sh.round # {} /\ (sh.streak >= MaxConsecutive \/ sh.ready[Min(sh.round)] = <<>>)
      round == IF over THEN sh.round \ {Min(sh.round)} ELSE sh.round
  IN  CASE sh.left = 0 -> [sh EXCEPT !.left = MaxPoll, !.streak = 0, !.round = Ready(sh)]
        [] sh.left > 0 /\ round = {} -> [sh EXCEPT !.streak = 0, !.round = Ready(sh)]
        [] OTHER -> [sh EXCEPT !.round = round, !.streak = IF over THEN 0 ELSE @]

Finished(sh) == [sh EXCEPT !.pc = "poll", !.left = @ - 1, !.streak = @ + 1, !.hand = <<>>]

\* The keys of items that have no output, which nobody will release.
Orphans(S) == {KeyOf(m) : m \in S \cap Message} \cap policy.keys

\* The calls of schedule_timer and cancel_timer that an actor makes for a message. A
\* timer that left the wheel is not cancelled: that does nothing.
Calls(d) == BoundedSeq({t \in Timer \ (fired \cup cancelled) : DeviceOf[t] = d}, MaxCalls)

\* The next message is given to DeviceActor::handle.
Handle(s) ==
  /\ shard[s].pc = "poll" /\ Ready(shard[s]) # {}
  /\ LET sh == Turn(shard[s])
         d == Min(sh.round)
         x == Head(sh.ready[d])
         taken == [sh EXCEPT !.hand = <<x>>, !.ready[d] = Tail(@), !.actors = @ \cup {d}] IN
     /\ owed' = [owed EXCEPT ![d] = IF @ # <<>> /\ Head(@) = x THEN Tail(@) ELSE @]
     /\ \E calls \in Calls(d) : shard' = [shard EXCEPT ![s] = [taken EXCEPT !.pc = "handle", !.calls = calls]]
  /\ UNCHANGED <<mailbox, orphan, wheelVars, stopVars, callVars, output>>

\* A call of the actor, which waits for room in the channel of the wheel, and the
\* worker with it; the call fails when the wheel has stopped.
Command(s) ==
  /\ shard[s].pc = "handle" /\ shard[s].calls # <<>>
  /\ LET t == Head(shard[s].calls) IN
     \/ ~wheel.up /\ UNCHANGED <<commands, issued>>
     \/ /\ wheel.up /\ Len(commands) < CommandCapacity
        /\ commands' = Append(commands, [t |-> t, cancel |-> t \in issued])
        /\ issued' = issued \cup {t}
  /\ shard' = [shard EXCEPT ![s].calls = Tail(@)]
  /\ UNCHANGED <<mailbox, owed, orphan, wheel, fired, cancelled, stopVars, callVars, output>>

\* The actor returns an output or an error.
Return(s) ==
  /\ shard[s].pc = "handle" /\ shard[s].calls = <<>>
  /\ \/ shard' = [shard EXCEPT ![s].pc = "output"] /\ UNCHANGED orphan
     \/ /\ shard' = [shard EXCEPT ![s] = Finished(@)]
        /\ orphan' = orphan \cup Orphans(Range(shard[s].hand))
  /\ UNCHANGED <<mailbox, owed, wheelVars, stopVars, callVars, output>>

\* An actor that cannot be created: what waits for the device is dropped.
CreateFails(s) ==
  /\ shard[s].pc = "poll" /\ Ready(shard[s]) # {}
  /\ LET sh == Turn(shard[s])
         d == Min(sh.round) IN
     /\ d \notin sh.actors
     /\ shard' = [shard EXCEPT ![s] = [sh EXCEPT !.ready[d] = <<>>, !.round = @ \ {d}, !.streak = 0]]
     /\ owed' = [owed EXCEPT ![d] = SubSeq(@, Len(sh.ready[d]) + 1, Len(@))]
     /\ orphan' = orphan \cup Orphans(Range(sh.ready[d]))
  /\ UNCHANGED <<mailbox, wheelVars, stopVars, callVars, output>>

\* The worker waits for room in the output channel.
Emit(s) ==
  /\ shard[s].pc = "output" /\ Len(output) < OutputCapacity
  /\ output' = Append(output, Head(shard[s].hand))
  /\ shard' = [shard EXCEPT ![s] = Finished(@)]
  /\ UNCHANGED <<mailbox, owed, orphan, wheelVars, stopVars, callVars>>

\* evict_idle, which comes after everything received was processed, and what the
\* worker does next.
EvictIdle(s) ==
  /\ shard[s].pc = "poll" /\ Ready(shard[s]) = {}
  /\ \E idle \in SUBSET shard[s].actors :
       shard' = [shard EXCEPT ![s].pc = IF shard[s].down THEN "closing" ELSE "recv",
                              ![s].actors = @ \ idle,
                              ![s].round = {}, ![s].left = MaxPoll, ![s].streak = 0]
  /\ UNCHANGED <<mailbox, owed, orphan, wheelVars, stopVars, callVars, output>>

\* shutdown_all, actor by actor.
ShutdownActor(s) ==
  /\ shard[s].pc = "closing" /\ shard[s].actors # {}
  /\ LET d == Min(shard[s].actors) IN
     /\ shard' = [shard EXCEPT ![s].actors = @ \ {d}]
     /\ \/ UNCHANGED output
        \/ Len(output) < OutputCapacity /\ output' = Append(output, Shutdown)
  /\ UNCHANGED <<mailbox, owed, orphan, wheelVars, stopVars, callVars>>

\* The end of the worker drops its receiver and what it has not received.
Exit(s) ==
  /\ shard[s].pc = "closing" /\ shard[s].actors = {}
  /\ shard' = [shard EXCEPT ![s] = [NewShard EXCEPT !.pc = "stopped"]]
  /\ mailbox' = [mailbox EXCEPT ![s] = <<>>]
  /\ UNCHANGED <<owed, orphan, wheelVars, stopVars, callVars, output>>

-----------------------------------------------------------------------------
\* The timer wheel.

WheelCommand ==
  /\ wheel.up /\ wheel.pc = "select" /\ commands # <<>>
  /\ LET t == Head(commands).t IN
     IF Head(commands).cancel
     THEN /\ wheel' = Cancel(wheel, t)
          /\ cancelled' = IF t \in fired THEN cancelled ELSE cancelled \cup {t}
     ELSE wheel' = Schedule(wheel, t) /\ UNCHANGED cancelled
  /\ commands' = Tail(commands)
  /\ UNCHANGED <<shardVars, stopVars, callVars, output, issued, fired>>

\* Mutant: a closed mailbox counts as a full one.
DispatchLater(t, w, pending) ==
  LET s == ShardOf(t) IN
  IF Stopped(s) \/ Full(mailbox[s])
  THEN wheel' = [w EXCEPT !.pending = pending] /\ UNCHANGED <<mailbox, owed, fired>>
  ELSE Put(t) /\ wheel' = w /\ fired' = fired \cup {t}

\* dispatch of a timer that left the wheel, which is then w; pending is what waits
\* when the mailbox is full. A timer of a shard that has stopped is gone.
Dispatch(t, w, pending) ==
  LET s == ShardOf(t) IN
  \/ Stopped(s) /\ wheel' = w /\ UNCHANGED <<mailbox, owed, fired>>
  \/ /\ ~Stopped(s) /\ Full(mailbox[s])
     /\ wheel' = [w EXCEPT !.pending = pending] /\ UNCHANGED <<mailbox, owed, fired>>
  \/ ~Stopped(s) /\ ~Full(mailbox[s]) /\ Put(t) /\ wheel' = w /\ fired' = fired \cup {t}

\* process_expired, one timer that is due. Workers go on between two of a tick; a tick
\* that finds nothing to do is left out.
Expire ==
  /\ wheel.up /\ wheel.pc \in {"select", "expire"}
  /\ \E t \in wheel.set :
       Dispatch(t, [wheel EXCEPT !.pc = "expire", !.set = @ \ {t}], EnforceLimit(Append(wheel.pending, t)))
  /\ UNCHANGED <<shard, orphan, commands, stopVars, callVars, output, issued, cancelled>>

\* process_pending_dispatch, after the timers that are due.
TakePending ==
  /\ wheel.up /\ wheel.pc \in {"select", "expire"} /\ (wheel.pc = "expire" \/ wheel.pending # <<>>)
  /\ wheel' = [wheel EXCEPT !.pc = "retry", !.rest = wheel.pending, !.pending = <<>>]
  /\ UNCHANGED <<shardVars, commands, stopVars, callVars, output, issued, fired, cancelled>>

RetryPending ==
  /\ wheel.up /\ wheel.pc = "retry" /\ wheel.rest # <<>>
  /\ Dispatch(Head(wheel.rest), [wheel EXCEPT !.rest = Tail(@)], Append(wheel.pending, Head(wheel.rest)))
  /\ UNCHANGED <<shard, orphan, commands, stopVars, callVars, output, issued, cancelled>>

TickDone ==
  /\ wheel.up /\ wheel.pc = "retry" /\ wheel.rest = <<>>
  /\ wheel' = [wheel EXCEPT !.pc = "select", !.pending = EnforceLimit(@)]
  /\ UNCHANGED <<shardVars, commands, stopVars, callVars, output, issued, fired, cancelled>>

-----------------------------------------------------------------------------
\* Runtime::drain and Runtime::shutdown, which nobody has to call. A drain waits for
\* empty mailboxes until its deadline: how long is left open. A drain that comes when no
\* caller is left whom it would refuse is left out.

Drain ==
  /\ ~draining /\ \E m \in Message : call[m] = "new"
  /\ draining' = TRUE
  /\ UNCHANGED <<shardVars, wheelVars, untold, callVars, output>>

\* Shards are told one after the other; a mailbox that stays full for too long ends
\* the call, and a later call begins anew.
SendShutdown ==
  /\ untold # {}
  /\ LET s == Min(untold) IN
     \/ Stopped(s) /\ untold' = untold \ {s} /\ UNCHANGED mailbox
     \/ /\ ~Stopped(s) /\ ~Full(mailbox[s])
        /\ untold' = untold \ {s} /\ mailbox' = [mailbox EXCEPT ![s] = Append(@, Shutdown)]
     \/ ~Stopped(s) /\ Full(mailbox[s]) /\ untold' = Shard /\ UNCHANGED mailbox
  /\ UNCHANGED <<shard, owed, orphan, wheelVars, draining, callVars, output>>

\* Then the wheel is told; it ends, and with it the channel of its commands.
StopWheel ==
  /\ untold = {} /\ wheel.up /\ wheel.pc = "select"
  /\ wheel' = [EmptyWheel EXCEPT !.up = FALSE] /\ commands' = <<>>
  /\ UNCHANGED <<shardVars, stopVars, callVars, output, issued, fired, cancelled>>

\* Another call, after the first one has waited for the workers and the wheel.
StopAgain ==
  /\ untold = {} /\ ~wheel.up /\ Closed = Shard
  /\ untold' = Shard
  /\ UNCHANGED <<shardVars, wheelVars, draining, callVars, output>>

\* The application reads an output and calls release_coalescible for its message.
ReadOutput ==
  /\ output # <<>>
  /\ output' = Tail(output)
  /\ policy' = IF Head(output) \in Message THEN Release(policy, Head(output)) ELSE policy
  /\ orphan' = orphan \cap policy'.keys
  /\ UNCHANGED <<mailbox, shard, owed, wheelVars, stopVars, call, batch>>

-----------------------------------------------------------------------------
CallerStep(m) == Offer(m) \/ Send(m) \/ Letter(m)

ShardStep(s) ==
  \/ Receive(s) \/ Received(s) \/ Handle(s) \/ Command(s) \/ Return(s) \/ CreateFails(s)
  \/ Emit(s) \/ EvictIdle(s) \/ ShutdownActor(s) \/ Exit(s)

WheelTick == Expire \/ TakePending \/ RetryPending \/ TickDone

RuntimeNext ==
  \/ \E m \in Message : CallerStep(m)
  \/ \E s \in Shard : ShardStep(s)
  \/ Redrive \/ RedriveOne
  \/ WheelCommand \/ WheelTick
  \/ Drain \/ SendShutdown \/ StopWheel \/ StopAgain \/ ReadOutput

\* The workers and the wheel are scheduled, deadlines pass and the application reads.
\* The wheel chooses at random between a tick and a command when it has both, so that
\* a command that comes again and again to its turn is taken, also while ticks try the
\* same timers over and over. Nobody has to send, redrive, drain or shut down, nor to
\* finish it.
RuntimeFairness ==
  /\ \A s \in Shard : WF_runtimeVars(ShardStep(s))
  /\ WF_runtimeVars(WheelTick) /\ SF_runtimeVars(WheelCommand) /\ WF_runtimeVars(ReadOutput)

RuntimeSpec == RuntimeInit /\ [][RuntimeNext]_runtimeVars /\ RuntimeFairness

-----------------------------------------------------------------------------
\* Properties.

\* An actor gets what entered the mailbox of its shard for it, messages and timers,
\* once and in that order, whatever batches the worker takes it in and however often
\* the actor is evicted: what it is owed comes first in the ready queue and then in
\* the mailbox. A worker that stops owes nothing that was sent before its Shutdown.
InOrder ==
  \A d \in Device :
    IF Stopped(Route[d]) THEN owed[d] = <<>>
    ELSE IsPrefix(owed[d], shard[Route[d]].ready[d] \o For(d, mailbox[Route[d]]))

\* A message is on its way between its admission and the application.
InFlight(m) ==
  LET s == ShardOf(m) IN
  \/ call[m] \in {"send", "full"} \/ m \in Range(output)
  \/ m \in Range(mailbox[s]) \/ m \in Range(shard[s].hand) \/ m \in Range(shard[s].ready[DeviceOf[m]])

\* A coalescing key is tracked only while a message with it is on its way, so that no
\* later report is coalesced into nothing. The exceptions are those of the code: an
\* actor that failed with a message or could not be created, and a worker that stopped.
KeysInFlight ==
  \A k \in policy.keys : \E m \in Message :
    KeyOf(m) = k /\ (InFlight(m) \/ k \in orphan \/ Stopped(ShardOf(m)))

Occurs(t, queue) == Cardinality({i \in DOMAIN queue : queue[i] = t})

\* A timer is in one place at most: on its way to the wheel, waiting for its
\* deadline or for room, or delivered. One that the wheel was told to cancel before
\* it entered a mailbox is in none, also when it was due already.
TimersAccounted ==
  \A t \in Timer :
    LET sent == Occurs([t |-> t, cancel |-> FALSE], commands)
        waits == (IF t \in wheel.set THEN 1 ELSE 0) + Occurs(t, wheel.pending) + Occurs(t, wheel.rest)
        gone == IF t \in fired THEN 1 ELSE 0
    IN  /\ Occurs(t, owed[DeviceOf[t]]) <= gone
        /\ sent + waits + gone <= (IF t \in issued \ cancelled THEN 1 ELSE 0)

\* Nothing waits: neither in a shard that goes on nor in the wheel, nor a command or an
\* output. A shard that was told to shut down has stopped.
Idle ==
  /\ \A s \in Shard : Stopped(s) \/ (mailbox[s] = <<>> /\ shard[s].pc = "recv" /\ ~shard[s].down)
  /\ wheel.set = {} /\ wheel.pending = <<>> /\ wheel.rest = <<>>
  /\ commands = <<>> /\ output = <<>>

\* The workers, which wait for the application and, in an actor, for the wheel, and the
\* wheel, which waits for the mailboxes of the workers, come to the end of any finite load; the timers that wait for room
\* are not kept there, and Shutdown ends a worker whatever else it has to do.
RuntimeSettles == <>[]Idle
=============================================================================
