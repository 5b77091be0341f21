# Cheetah Signaling: models of the control plane

Cheetah Signaling is a signaling server for video surveillance devices (GB28181,
ONVIF). Several nodes share one database and one message bus. Each device is
owned by one node at a time; commands for a device become operations, are
dispatched to the owner's subject on the bus and are executed by the owner's
protocol driver; media sessions run on media nodes, devices and upper platforms
speak GB28181. This directory holds TLA+ models of these parts, the TLC
configurations that check them and TLAPS proofs of the results that matter most.

`PROJECT.json` lists components, runs, theorems, hazards and, for each
definition, the source lines it stands for.

## 1. Inventory

| Component | State | Operations | Interacts with |
|---|---|---|---|
| Owner leases (`cheetah-cluster-ownership`, `device_owners`) | owner node, epoch and expiry of each device | acquire, renew, release, set, clear | everything that resolves an owner |
| Node registry (`cheetah-cluster-registry`, `cluster_nodes`) | instance, lease and draining flag of each node | register, heartbeat, mark draining | leases (liveness of the owner), assignment |
| Takeover service | owner and time read at its start | takeover, failing the operations of the old owner | leases, operations |
| Assignment service | owner and time read at its start, chosen node, rate limiter | assign | leases, registry, migration |
| Owner reconciler | sessions of this process with their epoch | reconcile, find missing | leases, protocol drivers |
| Drain migration | node, device and previous owner in progress | drain node, migrate device | leases, assignment |
| Operation aggregate and service | status, revision, attempts; outbox events | submit, start, complete, cancel, time out | outbox, dispatcher |
| Command dispatcher and worker | its copy of the operation | dispatch, ack or nak | owner resolver, command bus |
| Owner resolver cache | cached owners with their age | resolve, expire, evict | dispatcher, inbox |
| Command inbox | `processed_messages` record, open transaction | receive, forward, process | bus, resolver, driver |
| Outbox relay, event service | outbox rows with attempts and next try | read, publish, record | bus |
| Webhooks | configuration, deliveries with attempts | create, update, delete, trigger, replay, deliver | receivers |
| Message bus (NATS JetStream) | messages with delivery counts | publish, deliver, ack, nak, term | all workers |
| Media sessions and services | session, binding, remote stream | start, stop, reconcile | media nodes, operations |
| Media registry, scheduler, event consumer | nodes, reservations, affinity, cursors | register, heartbeat, reserve, release, consume | media services |
| SIP transactions and dialogs | tables of server and client transactions with their timers, dialogs | receive, answer, send, tick, evict | GB28181 driver |
| GB28181 access and driver | registration table, receive loops of sockets and connections, ticker | register, unregister, message, command, tick | event sink, SIP |
| GB28181 event sink, device rows | channel, dead letters, coalescing keys, connectivity | admit, redrive, process | device service, outbox, operations |
| GB28181 cascade, platform links | registration with an upper platform, bridges, subscriptions, reports, control | register, keep alive, invite, subscribe, report, tick | application, upper platform |
| Protocol sessions | session state, owner epoch, expiry | open, refresh, close, reap | drivers, leases |
| Device actor runtime (`cheetah-runtime-tokio`, `cheetah-runtime-api`) | admission policy, mailboxes of shards, ready queues and actors, timer wheel | admit, redrive, process, schedule, cancel, evict, drain, shut down | application (outputs), actors |
| Plugin host, ONVIF, HTTP and gRPC, tools | see `PROJECT.json` | | |

What is hard here:

* several processes act on one row between each other's statements, with a time
  and an owner they read earlier;
* a restarted node registers under the same node id while its old process may
  still be running;
* delivery is at least once, and overlaps: a message that takes longer than
  `ack_wait` is handled by two workers;
* a process may stop between two transactions, or between a transaction and the
  send it announces;
* caches of owners are out of date when they are used;
* a call of a media node may fail after the node acted, and what the node reports
  arrives late, twice or from an instance that is gone;
* state changes under a lock and is told after it, by several tasks;
* workers act on copies of rows that nobody claimed;
* queues and tables are bounded, and what they drop must be what may be dropped;
* a request arrives in copies, in several receive loops at once, long after it was
  answered, and its answer may be lost.

What correctness means, per component: owners change only when the old one is
gone and each change takes a new epoch (leases); no device is left without an
owner as long as the storage works (migration); one life cycle per operation, told once, and every operation
ends or is sent (operations); a command is executed only by the owner for whose
epoch it was issued, is lost in no other way than by the deduplication of the bus and
is not repeated once recorded (inbox); a media session has one live binding at most and
stays ended, and a reservation that failed is undone (media); the application hears the
truth about an upstream link, every bridge ends, alarms are not lost to snapshots
(cascade); the row of a device says what the registration table says (presence); a
request is handed over once however often it is sent, a lost answer is given again, and
the tables empty in the end (SIP); what is reported delivered was delivered, and every
delivery whose errors can be recorded comes to an end (outbox, webhooks); an actor gets what was queued
for it once and in order, and a drain or a full channel neither loses nor repeats it
(runtime).

The `hazards` of `PROJECT.json` list these points at their lines, with the
properties that cover them or the reason why none does yet.

## 2. Modules

| Module | Models | Kind |
|---|---|---|
| `Ownership` | one device row, the node registry, takeover, assignment, renewal, reconciliation | component |
| `DrainMigration` | migrations off draining nodes, on top of `Ownership` | composition |
| `OperationLifecycle` | what readers of an operation's status and events see | abstract specification |
| `Operations` | operation row, outbox, dispatch workers, clients, redelivery | component |
| `CommandInbox` | command copies on the bus, inbox workers, resolver caches, inbox record | component |
| `MediaNodes` | media node rows, their copy in memory, reservations of the scheduler | component |
| `MediaSessions` | a media session, its bindings, commands, callbacks, reconciliation; on top of `MediaNodes` | composition |
| `CascadeBridges`, `CascadeReports` | the media bridges and the report store of an upstream link, as operators | components |
| `Cascade` | the machine of a link and the manager, over both | composition |
| `GbSink` | admission to the GB28181 event sink, as operators | component |
| `GbPresence` | registration table, driver tasks, sink worker, device row | composition |
| `SipTransactions`, `SipDialogs` | the transaction state machines with timers and tables; the dialog table; as operators | components |
| `SipDriver` | receive loops, commands and ticker over both, peers and their copies | composition |
| `AtLeastOnce` | what delivery workers promise | abstract specification |
| `DeliveryProcess` | the processes and the bound on faults the next two share | |
| `OutboxRelay`, `Webhooks` | outbox and relays; webhooks, their deliveries and workers | components |
| `Deliveries` | both, in processes that stop | composition |
| `RuntimeAdmission`, `TimerWheel` | the admission policy with its dead letters; the timer wheel; as operators | components |
| `DeviceRuntime` | callers, redrive, shard workers with their actors, the wheel, drain and shutdown, over both | composition |
| `MC...` | instances for TLC | |
| `OwnershipProofs` | theorems about `Ownership` and `DrainMigration` | proofs |
| `OperationsProofs` | theorems about `Operations`, with the implementation of `OperationLifecycle` | proofs |
| `InboxProofs` | theorems about `CommandInbox` | proofs |
| `MediaProofs` | theorems about `MediaSessions` and `MediaNodes` | proofs |
| `SignallingProofs` | theorems about `Cascade` with `CascadeBridges` and `CascadeReports`, and about `SipDriver` with `SipTransactions` and `SipDialogs` | proofs |
| `GbProofs` | theorems about `GbPresence` and `GbSink` | proofs |
| `DeliveriesProofs` | theorems about `Deliveries`, with the implementation of `AtLeastOnce` | proofs |
| `RuntimeProofs` | theorems about `DeviceRuntime`, `RuntimeAdmission` and `TimerWheel` | proofs |

A definition that starts with "Mutant:" in its comment is a wrong version of the
definition after it. It takes part in no specification; it shows that the
properties notice that mistake.

### Ownership

One step is one SQL statement or one transaction. `row` is the row of
`device_owners`, `NoOwner` its absence; `nodes` is `cluster_nodes`. A process in
`Proc` is one incarnation of the service: it registers once, under the node id
`NodeOf[p]`, so that a restart is a second process with the same node, and the
old one (a zombie) may run on. `work[p]` holds what a handler has read before an
await: the time (`now`), the owner (`seen`) and the chosen node (`cand`).

* `Register`, `Heartbeat`, `Shutdown`: `NodeLeaseService`. Only the instance on
  record extends the lease or marks the node draining. A graceful shutdown stops
  the workers and leaves lease and owner rows as they are; `Exit` ends a process
  at any point.
* `Renew`: the renew worker; the statement asks for node id and an unexpired
  lease, not for epoch or instance.
* `TakeoverRead`, `TakeoverAcquire`: `TakeoverService::takeover`. The transaction
  checks again, with the time fixed at the start, whether the owner is gone.
* `AssignRead`, `AssignKeep`, `AssignSelect`, `AssignRefuse`, `AcquireRow`:
  `DeviceAssignmentService::assign`. The stable hash and the load are left open:
  any eligible node may be chosen, any assignment may be refused (capacity, rate
  limit). `AcquireBegin` is the direct use of `OwnerLeaseService::acquire`.
* `Acquirable`, `Grant`: the WHERE clause and the SET clause of the upsert. The
  repository's acquire and the unit of work's acquire use the same statement, in
  both databases.
* `Reconcile`, `FindMissing`: `OwnerReconciler`. `session[p]` is the epoch under
  which the process has opened its device session.

The service does not start a worker for takeover and reconciliation at this
commit (the health worker only ticks); the models check them as the services
they are, callable at any time. The lease worker registers nodes without contract
versions, so that no node is eligible for a named protocol; `Supports` keeps both
cases.

### DrainMigration

Extends `Ownership` with `mig[p]`, the migration of a process, statement by
statement: list draining peers, get the node, mark it, list its devices (in the
step of the mark), read node and owner, clear, assign (the steps of `Ownership`),
read the result back, put the previous owner back when assignment failed. Any of these
statements may fail in a process of `Failing`: before the clear the migration just ends
(`MigrateFails`), a clear that reports an error may have deleted the row
(`MigrateClearUnsure`), a failed assignment or read back leads to the restore
(`AssignFails`, `MigrateConfirm`), and a failed `set` is logged and ends the migration
with the row deleted (`MigrateRestoreFails`, rolling_upgrade.rs lines 239-251).
`Release` is `OwnerLeaseService::release`, which has no caller outside the tests and is
left to the processes of `Releasing`. `last` and `lost` are history variables: the last
owner, and whether the row is gone for good because of a release, a process that stopped
between clear and assign, or a storage that failed in clear or restore. Sessions are
opened by takeovers only; reconciliation reads the row and is left to `Ownership`.

### Operations and OperationLifecycle

`op` is the row of one operation with one step; `att` its dispatch attempts.
Workers and clients keep their own copies; `Saves` is the WHERE clause of the
save (`revision = new revision - 1`). `bus` holds the copies of the submission
event, more than one when the relay publishes again. `Start`, `Record`, `Send`,
`SaveSent`, `SaveNacked` and `SaveFailed` are the statements of `dispatch` in
their order; a conflict is `Abandon`, which naks. `Send` is nondeterministic over
what resolver and bus may answer, including an error after the command went out.
A failing storage statement has the effect of `Crash`: the delivery ends and the
copy stays on the bus. Clients stand for cancel, complete, time out and the
operations a takeover fails.

`OperationLifecycle` is the promise to readers: none, Pending, Running, one
terminal status; each change is announced once, in order. `LifeCycle` states that
`Operations` implements it, with the status of the row and the statuses of the
outbox events as refinement mapping.

### CommandInbox

One command. `copies` are the messages on the bus, each on the subject of a node;
`owner` is the row, `cache[p]` what the resolver of a process has cached, of any
age. `Receive` decides as `handle_delivery` does: terminate (own node, other
epoch), process, forward, or nak when the owner cannot be resolved. `Insert`,
`Handle`, `Commit`, `Acknowledge` follow `process`: the record is inserted in an
open transaction (`holder`), the command goes to the driver, the record is
committed, the delivery is acknowledged. A second worker waits for the first
one's transaction, or gives up and naks. The bus deduplicates: while it remembers the
message id (`window`, until `WindowPasses`) a second publication under it, on any
subject, is stored nowhere. A forward publishes under the id of what it forwards and does
not look at the duplicate flag of the answer, so `Forward` within the window acknowledges
the last copy; `dropped` remembers that. `WorkerEnds` is the inbox worker that returns
for good when its subscription fails (`over`); nothing starts it again. Owner changes raise the epoch, as proved
in `OwnershipProofs`; a migration that deletes the row breaks that premise (see
the finding of run `drain_epoch`).

### MediaNodes and MediaSessions

A step is one transaction, one call of a media node or one call of the scheduler.
`row` and the memory of the registry are separate: a handler writes the row, awaits
and writes memory, so a late heartbeat overwrites a newer registration. `ses`, `bnd`
and `ops` are the rows of the session, its bindings and the operations of its
commands; `api` and `pass` hold the copies that requests and reconciliation passes
work with; `SavesS` is the compare-and-swap on the revision. A reservation is two steps:
`ReserveLocal` counts it in the scheduler, `ReserveRemote` is the answer of the registry,
which refuses when the node drained, left or filled up meanwhile or the statement fails;
the local part is then undone and another node is tried, `MaxAttempts` times. The limit on
reservations is shared with other sessions, so it may be reached at any time, as a fault.
A call of a node may
fail with or without effect. Media nodes report starts and ends as events; the
consumer applies those of the epoch its stream was opened with, in order of their
sequence, and keeps a cursor. A pass reads session and bindings, asks the node what
runs, and verifies, releases, fails or migrates, as `media_service_reconciliation.rs`
and `media_service_reconnect.rs` do. An identity of a binding is used once; the
bindings are numbers in the order in which they are created.

### Cascade

`Gb28181Cascade` does no I/O; an action is one input it processes, and the outputs
that matter are kept as what the application was told: `told` (connected or not),
`open` (media requested and not stopped) and `dialog` (acknowledged by the upper
platform). A tick finds an arbitrary set of deadlines passed. `CascadeBridges` gives
for each bridge state and input the next state, the messages and the event;
`CascadeReports` the bounded store of snapshots and alarms. The BYE of a call in `NoBye`
(one whose Call-ID has an '@', which the branch made of it must not have) cannot be built:
`on_media_stop` then has removed the bridge and tells nobody (`lost`), `on_ack` puts a
closing bridge back, and from the deadline of an active one (`Stuck`) every tick returns
early (`TickFails`): what the tick had already taken out is lost, and the rest of it,
registration and reports included, is not reached. `ActiveExpires` is FALSE for an active
timeout of 0, which disables that deadline. `ups` and `control` are
the manager's. `MaxAttempt` bounds how often an upper platform may call a nonce
stale, which the code does not.

### GbSink and GbPresence

`reg` is the device's entry in the registration table, `out[t]` what a task of the
driver still has to emit after it released the table, `sink` the record of channel,
dead letters, keepalive key and depth, `worker` the worker with the event it took.
The operators of `GbSink` are the critical sections of the sink. Receiving is outside
of them, so that a newer event may take the place a dead letter was waiting for. The
worker's transactions are steps: creating a device, marking it online and submitting
its bootstrap queries are three. `mishap` remembers that an event was lost or
overtaken. While the channel is open `redrive` drains only what fits, so its failed
send and its stale branch cannot happen, and with a channel no larger than a batch
the redrive interval finds nothing to do.

### SipTransactions, SipDialogs and SipDriver

`SipTransactions` gives for the state of a transaction and an input (request,
answer of the transaction user, response, timer) the next state, the timers armed
and disarmed, what is sent and whether the input is delivered; a timer is the time
that is left. `Absorb` is what the manager's entry does with it, `Reclaim` and
`Victims` are the expiry of idle entries and the choice of an entry to evict. `Present`
says that an entry is in the table. `TickServer` and `TickClient` fire the timers that
are due one after the other (`FireServer`, `FireClient`); one that an earlier timer of
the same tick disarmed does not fire.
`SipDialogs` is the dialog table of the UAS side. `SipDriver` has the two transaction
tables (`server`, `client`), the dialogs and the receive loops: `loop[l].pc` says
which lock a loop takes next. `HandleCopy`, `HandleNew` and `HandleStateless` are the
section of the transaction table, `RouteDialog` that of the dialogs, `Access` that of
the access machine, `Establish` and `Provide` those of each answer. The ticker ticks
dialogs and the tables of UDP and TCP under a lock each, so each is a step.

Outside are the access machine, which may answer in any way or not at all, and the
peers. A peer sends copies until its request times out or it hears a final response;
copies on their way arrive for T4 more, so the last one may come up to Timeout + T4 after
the request began. `age` is the time since the first copy arrived, from which timers H and
J run; a request of which a copy came more than Timeout after it is `late`: its transaction
may be over, and the copy starts another. `air` holds responses until `Advance`, which
loses them. The driver only logs responses and failures of client transactions
(shared.rs lines 208-211 and 437-443), so nothing counts them as told to anybody; the
client tables matter for their end. `finals`, `handed`, `late` and `evicted` are history
variables. A
handler awaits nothing but locks, so time passes only in a `Pause`. `SipAssumption` says
what peers owe the code: two requests have one branch and CSeq method only when one is
the ACK of a failure of the other (`Acknowledges`), as RFC 3261 has it.

### Deliveries

A relay reads a batch, publishes it event by event and records all results in one
transaction; `Marked` is what `mark_published` and `mark_failed` do to the row,
with the attempts of the relay's copy. A webhook worker reads deliveries, then the
configuration, sends, and saves its copy over the row (`After`). Neither claims what
it reads. How long something that failed has to wait is left open, which includes every
backoff and the circuit breaker; `BackoffEnds` ends the wait of a delivery. `DueLists` has
the order and the limit of the query: deliveries that were never tried first, by their
ids, then those that failed and are due (`due`). A request to a webhook of `LongUrl` may
fail with an error that is too long to be recorded, again and again (`SendRefused`): the
row stays as it is, uncounted and due. Any other failure of `AttemptFails` (the
configuration cannot be read, the save fails) is a fault. `Stop` ends a process with both its workers.
`AtLeastOnce` is the promise: what is reported delivered was received. Its `Reach` is
one item's arrival, its `Write` a transaction about any number of items, since a relay
records a batch at once. Only for the
outbox is that the last word, because a webhook worker with an older copy may write
Failed or DeadLetter over Succeeded. `DeliversAtLeastOnce` states that `Deliveries`
implements it.

### RuntimeAdmission, TimerWheel and DeviceRuntime

A step is what a task does between two awaits, under the lock of the admission policy,
or with one channel. `policy` is the record of overload flag, coalescing keys and dead
letters; `Observe`, `PreAdmit`, `DeadLetter` and `Requeue` are its critical sections.
`Offer`, `Send` and `Letter` are the three parts of `admit`, between which others run;
`Redrive` takes a batch of dead letters and `RedriveOne` tries them one by one.
`shard[s]` is a worker: `Receive` and `Received` fill the ready queues with `Sort`,
`Handle` hands one message to its actor, which calls `schedule_timer` and `cancel_timer`
(`calls`, at most `MaxCalls`): `Command` waits for a place in the channel of the wheel, with
the worker, and fails once the wheel has stopped; `Return` ends the call. `CreateFails` and
`Emit` are the other ends of a message, `Emit` waits for a place in the output channel.
`EvictIdle` drops actors, `ShutdownActor` and `Exit` end the worker.
`WheelCommand` and `WheelTick` are the branches of the wheel's loop. A tick is not one
step, because the workers run on while the wheel visits one timer after the other:
`Expire` dispatches a timer that is due, `TakePending`, `RetryPending` and `TickDone` try
those again that found a mailbox full (`wheel.rest` is what is still to be tried).
`Route` is the shard of each device. A drain that nobody is left to notice is left out.
`Drain`, `SendShutdown`, `StopWheel` and `StopAgain`
follow `drain` and `shutdown` of the runtime.

Times are open: when a timer is due, an actor is idle, a wait times out or a token
bucket is empty. What an actor does is open as well: it schedules and cancels timers of its
device, and fails or has an output. The application is external: it reads the outputs and
releases their coalescing keys, as the documentation of `release_coalescible` has it. `owed`,
`orphan`, `issued`, `fired` and `cancelled` are history variables. The service uses
only the metrics of the runtime at this commit; the model is about the crate's own
promises.

## 3. Runs

| Run | Instance | Shows |
|---|---|---|
| `ownership` | two incarnations of node n1, one of n2; TTLs 1, clock to 1, epochs to 3, two tasks in flight; symmetric incarnations | fencing, handover only from lapsed owners |
| `drain` | one process of n1, which may release, two of n2; every statement of a migration may fail; clock to 1, one epoch per row, three tasks | migrations leave no device behind, and one that was cleared gets an owner again, unless the storage fails when the owner is put back |
| `drain_epoch` | one process each of n1 and n2, no expiry, no failing statement, no release, epochs to 2 | finding: epochs restart after a migration |
| `operations` | two workers, a client, two copies of the event, three deliveries each, one crash | life cycle, attempts, acknowledgement, progress |
| `dispatch_recovery` | as `operations`, two deliveries | finding: a pending attempt is never sent again |
| `inbox` | two workers of n1 and one of n2, two copies, two deliveries each, one change of owner, one crash or worker that ends | fencing by epoch, nothing lost but by deduplication, no repetition, progress |
| `media` | two media nodes, two bindings, two attempts to reserve, one pass, two requests, one fault; symmetric nodes | one live binding, reservations counted or undone, ends are final |
| `cascade` | one link; two calls for two bridges, one of them without a BYE; two subscriptions for one place, an alarm and a snapshot for one place; one retry, two keepalive failures | bridges accounted for and ended, alarms kept, the application told |
| `gb_presence` | one device on one TCP connection and the ticker; a channel of one, one dead letter; two registration sequences; one alarm, failure, restart or retirement | sink accounting, the row follows the table, keepalives repair it |
| `sip` | two loops; two of eight requests (a call with both ACKs, re-INVITE, BYE and CANCEL, requests over TCP, one without a key) or two commands; tables of one; T1 = T4 = 1, T2 = Timeout = 2, idle after 3; one eviction, one dialog | requests handed over once, lost answers repeated, dialogs backed by an answer, tables empty in the end |
| `deliveries` | two processes, either one event or two deliveries, of two webhooks, of which one has a long URL and is changed and deleted; batches of two, two attempts of each, one fault | at least once, attempts counted, everything settles |
| `runtime` | one shard, two devices; two keepalives with one coalescing key, a command that bypasses admission, a timer; every channel and queue of one, two calls of the wheel per message, two messages per poll, one in a row per device, two redrives, watermarks 1 and 0 | actors get what was queued once and in order, coalescing keys and timers accounted for, any finite load ends |

Deadlock is checked in `sip`, whose ticker always ticks. In the other runs it is not:
with bounded clocks, epochs, deliveries and a finished operation they reach states
where nothing is left to do.

Bounds. With TTLs of 1 and a clock of two values each lease granted at 0 is
expired at 1 and each one granted at 1 is valid, so a handler that fixed its time
before the tick works with an outdated view, which is what the properties need.
Two tasks are a race; a third process is the owner they race for. `MaxEpoch`
limits how often the device changes hands; in `drain` the limit of 1 still allows
any number of owners because clearing the row resets the epoch. Two copies and
two or three deliveries make overlapping and repeated handling, and the exhaustion of
deliveries, happen within a run. In `inbox` a forward finds no free copy when both
are used: the command is then nakked. A worker that ends is one of the crashes.

Fairness. `Ownership` assumes none. `DrainSpec`: the statements of a migration and
of a takeover follow one another in one task, which goes on unless the process
stops; starting one is never required, and a failing statement ends it like one that
succeeds. `OpSpec`: the relay publishes the event
once, the bus delivers what is not acknowledged, a worker finishes its dispatch.
Clients owe nothing. `InboxSpec`: the bus delivers to a worker whose subscription is
intact, a worker finishes a delivery.
Crashes, ticks, owner changes and cache expiry are never required.

Two bindings are one migration. `media` runs one pass against requests, callbacks and
a fault; two passes at the same time are beyond the instance, the theorems of
`MediaProofs` hold for any number of them. In `cascade` one call ends with a BYE and
the other cannot, side by side; reports and subscriptions have a capacity one below
what asks for it, so that eviction and refusal happen. A second link has no machine in
the model and only takes part in the manager's table, about which the theorems speak
for any number. In `gb_presence` a channel and a dead-letter queue of one are full
with two events, which is when shedding, dead letters and overtaking happen; one
connection and the ticker are two tasks that emit in either order. `deliveries` is
about two workers that have the same rows, each other's older copies, the end of the
attempts, and a delivery that never ends next to one that must. Relay and webhook
worker share only the process that stops, so a behaviour of the run has events or
deliveries (`Mixed`), and only the webhook with the long URL is changed (`Managed`);
`DeliveriesProofs` has neither bound, and batches of any size.

In `sip` two requests are a request with its copies against another one: a call and
its ACK, CANCEL, BYE or re-INVITE, or two transactions for one place in a table. Server
and client transactions share nothing but the ticker, so a behaviour has requests or
commands. The intervals keep the order of the real ones (T4 below Timeout, Timeout
below the idle time) and let a retransmission double once before it is capped at T2.

In `runtime` everything has a capacity of one, so that each try_send may find its
channel full; the two keepalives are coalesced, shed or dead-lettered, depending on
which caller is between its two critical sections. Two calls of one message fill the
channel of the wheel, so that the worker waits for the wheel while the wheel has a timer for
its full mailbox. The keepalives are alike, so the caller of the
first one comes first (`Earlier`). With one timer the wheel never drops a pending one.

Fairness of the other modules. `MediaSessions` assumes none. `Cascade`: ticks come, and a deadline that has
passed is found by one of them, as long as no bridge is stuck; nothing is assumed of ticks
that fail. `PresenceFairness`: tasks emit, the worker of the
sink goes on, and a registered device sends keepalives over one connection.
`DeliveriesFairness`: the loops of relays and workers go on and a backoff ends; nobody has
to use the API. `SipFairness`: a loop goes on with the request it has, the ticker ticks, and there
is always another pause in which time passes (`[]<>Pause`: finitely many messages are
handled in a finite time). No peer has to send and no response has to arrive.
`RuntimeFairness`: shard workers go on, the wheel ticks, the application reads outputs;
nobody has to admit, redrive, drain or shut down. The commands of the wheel are taken with
strong fairness: `select!` chooses at random among the branches that are ready, so a
command that is there again and again is taken, and weak fairness would let ticks and
retries of a timer without room go first for ever while its worker waits. Faults are bounded everywhere and never required.

## 4. Findings

1. `drain_epoch`: `runbooks/owner_jitter.md` says that epochs of a device increase.
   `migrate_device` deletes the row with `clear`, and the next acquire starts at epoch 1:
   in the trace n1 owns the device with epoch 1, is drained, and n2 owns it with epoch 1.
   The same epoch may name different nodes over time.
2. `dispatch_recovery`: the comment on `CommandDispatcher::dispatch` promises that
   a pending attempt left by a crash is sent again. On that path the row is saved
   without a new revision, the save conflicts, and the worker naks until the bus
   gives up; the operation stays Running. `Dispatched` therefore holds only until a
   worker crashes.

Met while modelling, without a run of their own (see `hazards`):

* A failed `set` after a failed reassignment is only logged (`rolling_upgrade.rs`, lines
  239-251), and the device is left without an owner.
* A forward is published under the `Nats-Msg-Id` of the message it forwards, and the
  duplicate flag of the answer is ignored (`bus.rs`, lines 204-224): within the
  deduplication window of the stream the command is stored nowhere, and the inbox
  acknowledges the original. `NoLostCommand` excepts it.
* An inbox worker returns on the first error of its subscription and is not started again
  (`inbox.rs`, lines 212-218); its node then takes no commands. `CommandSettles` has this
  case.
* A call whose Call-ID has an '@' gets no BYE, because the branch made of it is no token:
  the application is not told that the media may stop, and once such a bridge has passed
  its deadline every tick of its link fails, registration and reports included.
* A copy of a request that arrives more than Timeout after the first one may find its
  transaction gone, since timers H and J run from the first copy, and is handed over again.
* The comment on `CommandHandler::handle` (`inbox.rs`, lines 150-151) says that the
  inbox processes a command only once. It reaches the driver before the record
  commits, so a crash in between repeats it. What does hold is `RecordedNotRepeated`.
* The key of a transaction has the method of the CSeq, which is ACK in the ACK of a
  failed INVITE. It matches no transaction, and the failure is sent again until timer
  H ends it. `MCSip` has such an ACK and one that would match.
* A copy of an INVITE that comes after the 2xx starts a new transaction, is handed
  over again and may be offered a second dialog; `HandedOverOnce` excepts it.
* A re-INVITE answered after the BYE establishes the dialog anew, and a dialog that
  replaces one of its own id still evicts another one when the table is full. Both
  end with the idle time of the dialog.
* An answer for a transaction that was evicted is dropped, the dialog of its 2xx
  stays (`DialogBacked`).
* `media_service_callback.rs` makes two transitions of an Active session that
  stopped and saves once; the save asks for one revision more than it read and
  fails, and the event is not tried again. Reconciliation ends the session.
* `save_delivery` has no revision: of two webhook workers the slower one may reopen a
  delivery, so that more than `max_attempts` requests are made.
* A webhook error of more than 1024 bytes is refused by `WebhookDelivery::fail`; the
  attempt is then neither counted nor delayed. For a URL of that length, which the error
  contains, this happens at every attempt, and as many such deliveries as a batch has
  places keep all others out of it. With `WebhookLimit = 1` and without that exception
  TLC finds the starvation in a few seconds.
* With PostgreSQL, `save_webhook_config` inserts a webhook again that was deleted
  after the update had read it.
* After a restart registration sequences begin at 1 again while the owner epoch
  stays, so the bootstrap queries of a new registration carry the idempotency keys
  of earlier ones (`bootstrap.rs` expects fresh ones).
* In the cascade a REGISTER, a keepalive and a NOTIFY are matched with their
  responses by Call-ID only; reports are sent without waiting for an answer; a
  bridge that expires between 200 and ACK ends without a BYE.
* The overload flag of the runtime's admission is updated by `pre_admit` only: when
  traffic stops during an overload, `redrive` keeps finding it and the dead letters stay
  until somebody admits a message.
* `redrive` does not look at the draining flag, and what enters a mailbox after the
  worker's last `try_recv` is accepted and lost (`InOrder` speaks of what came before
  the shutdown).
* A message whose actor cannot be created, or fails, has no output, so its coalescing
  key is never released and later messages of the key are coalesced into nothing.
  Likewise, between a key's tracking and a full mailbox others are coalesced into a
  message that is only dead-lettered.
* A timer that has just become due overtakes one that waits for a place in the mailbox.
* The worker receives until its mailbox is empty before it processes, and the rotation
  of `max_consecutive_per_device` starts at the first device in each poll: neither
  bounds how long a device waits while others send (`RuntimeSettles` is about a finite
  load).

## 5. Proofs

Each proof module extends its component, states the inductive invariant as a
conjunction of named parts, proves that the initial states have it and that each
action keeps it (one lemma per action or per kind of action, `Invariance`), and
derives the theorems. The theorems hold for all sets of processes, nodes, workers,
copies, calls or connections, all capacities and all bounds; the assumptions on
constants give their types and say that markers of absence are no values, with the
additions named below.

| Module | Theorem | States |
|---|---|---|
| `OwnershipProofs` | `TypeCorrect`, `Fencing`, `Handover` | `[]TypeOK`, `[]EpochNamesOneNode`, `OnlyLapsedOwnersReplaced` |
| | `DrainKeepsDevice` | `[]NoDeviceLeftBehind` |
| `OperationsProofs` | `OneAttemptAtATime`, `NoAckUnsettled`, `SentUnderAttempt`, `ImplementsLifeCycle` | `[]AttemptsSequential`, `[]AckMeansSettled`, `[]SendsAreRecorded`, `LifeCycle` |
| `InboxProofs` | `InboxFencing`, `InboxKeeps`, `InboxRecorded` | `[]OnlyIssuedOwnerExecutes`, `[]NoLostCommand`, `RecordedNotRepeated` |
| `MediaProofs` | `OneBindingLives`, `EndStays`, `AffinityIsCounted` | `[]OneLiveBinding`, `EndIsKept`, `[]AffinityCounted` |
| `SignallingProofs` | `BridgesInAccount`, `LinkAnnounced`, `ControlByLinks`, `AlarmsWait`, `CascadeBounded` | `[]BridgesAccounted`, `[]LinkTold`, `[]ControlHasLink`, `AlarmsKept`, limits of bridges and reports |
| | `HandedOnce`, `DialogsOffered`, `CopiesAnswered` | `[]HandedOverOnce`, `[]DialogBacked`, `CopiesReplayed` |
| `GbProofs` | `KeysAccounted`, `RowAgrees`, `EventsStay` | `[]AdmissionAccounted`, `[]RowFollowsTable`, `EventsKept` |
| `DeliveriesProofs` | `AttemptsAreCounted`, `RequestsBounded`, `DeliversWhatItReports` | `[]AttemptsCounted`, at most `max_attempts` requests, `DeliversAtLeastOnce` |
| `RuntimeProofs` | `RuntimeTypeCorrect`, `ItemsInOrder`, `KeysAccounted`, `TimersOnce` | `[]RuntimeTypeOK`, `[]InOrder`, `[]KeysInFlight`, `[]TimersAccounted` |

**Ownership** (`OwnershipAssumption`). `EpochNamesOneNode` is not inductive. `IInv`
adds: `OwnerNamed` (a row with an epoch names a node), `CandidatesNamed` (a task that
is about to acquire has a node), `SessionsBehind` (no session is ahead of the row) and
`TimesPast` (no task works with a time in the future). A new epoch is above every
session because of `SessionsBehind`, hence it is shared with nobody; an adopted epoch
is the row's and belongs to the row's node. `Handover` needs `TimesPast`: the upsert
compares the leases with the time of the task, so what had run out then has run out
now.

**Drain migration** (`DrainAssumption`). The property says that a device that was assigned
is not left without an owner, but for the ways of `lost`; a failing statement in any other
place is covered. `OrphanHeld` says why: such a device is held by a migration
(`Holds`) that has an owner to put back and whose assignment has read no owner,
because an assignment that had read one would take the device for assigned and
return. `MigrationOK` keeps that up: the process of a migration remembers no owner
before it clears the row.

**Operations.** Every worker and client works on a copy of the row. `CopyOf` says
that a copy is as old as its revision, and of the present revision it is the row;
so the WHERE clause of a save decides whether the copy is up to date. `OneAttempts`:
one worker at most is between the record of an attempt and its result, and while it
is there the attempts of the row are those of its copy, since clients write other
fields. `SendIsNew` and `NothingBefore` complete `OpInv`. For `LifeCycle` each save is
shown to be a step of `OperationLifecycle` (the new status with its event) and every
other action a stutter; `Told` is what the mapping makes of the outbox.

**Command inbox** (`InboxAssumption`). `InboxInv` has `EpochIssuedOnce` (the row has
left the issued epoch behind or still is that owner, and a cache that holds the epoch
names the same node), so that the comparison in `handle_delivery` is enough whatever
the age of the cache; `ProcessingAtIssued` (who has passed the comparison is on that
node); `Exclusive` (a worker between insert and commit holds the only transaction and
the record is not committed), from which `InboxRecorded` follows; `CopiesInHand` and
`SafeCopyLeft` (there is an unacknowledged copy that nobody is about to acknowledge).
`NoLostCommand` alone is not inductive: two workers could be about to acknowledge the
last two copies. A forward restores `SafeCopyLeft` with the copy it has just
published, which is in nobody's hands, or the bus stored none and `dropped` says so:
that there is no third way is what the theorem adds.

**Media.** `Binding` is a finite set of numbers, because a new binding is the next one
that was not used. `PassOK` is the heart of `MediaInv`: a row with the revision of a
pass's copy is that copy, the copies were live when they were read, and the binding a
pass is about to create belongs to no other pass (`OwnBindings`). The transaction that
creates a binding fails the old one by its revision: of two passes only one finds the
row it has read, and the old binding was the only live one.
`SMove` and `BMove` are what any save may do to a session or a binding; every action
is shown to make such moves only, which gives `EndStays` and reduces the invariant of
the other actors to one lemma. `SchedInv` carries `AffinityCounted` through both
steps of a reservation, its rollback, `Release` and restarts; `WaitInv` says that a binding
that is about to be reserved is not reserved yet, so that a second attempt on another node
counts it once.

**Cascade** (calls and subscriptions are finite sets; `MaxAttempt > MaxRetries`).
`CascadeInv` is the conjunction of what each piece of the machine keeps: `ControlInv`,
`RegInv` (a request without credentials has been tried at most `MaxRetries` times),
`LinkTold`, `GoneInv` (no machine, no state), `BridgeInv` and `ReportInv`. `EffectOK`
is what one bridge's answer to an input guarantees, shown once for the table of
`CascadeBridges` and then used for every input, a BYE that cannot be built and a tick that
fails included: the theorem says that nothing else (`Losing`) loses a bridge. `AlarmsWait` compares the alarms in
the store before and after each operator of `CascadeReports`. The proof showed that
`AlarmsKept` needs an exception: configuration allows `report_max_queue_size = 0`,
and then a new alarm is dropped at once.

**Presence** (`SinkAssumption`, `PresenceAssumption`). `SinkOK` says what every critical
section of the sink keeps: dead letters are no keepalives, one keepalive at most is in
the channel or in the worker's hands and the key is tracked if there is one, the depth
counts the channel and an event just received. `EventsStay` follows with `Weight`, the
number of events that are no keepalives, which no operator of `GbSink` lowers.
`RowFollowsTable` speaks of quiet states only; `OrderOK` extends it to all states
without a mishap. Worker, channel, dead letters and the tasks in the order of their
changes (`turn`) form one line of events that leads from what the row says to what the
table says: `Chain` for the events in the sink, `TurnOK` for those of the tasks, `RowSays`
for the event in the worker's hands. A keepalive that is coalesced or shed breaks no
line, because it is produced only when the state before it is already "on". For the
bootstrap queries, `UnderWay` follows the Registered event of the present sequence.

**Deliveries** (finitely many deliveries). `AttemptsCounted` speaks of deliveries that
are not muddled, and `Untouched` says what that is worth: such a delivery is in one
place of one worker's list, the copy there has the attempts of the row, and the
requests made are those attempts and the one under way. `OutboxInv` says that a batch
has copies of rows that exist, with attempts left, and that a relay calls an event
published only when the bus has taken it. The
implementation of `AtLeastOnce` maps a transaction to `Write` and an arrival to
`Reach`, with `EventMoves` and `DeliveryMoves` for the rows.

**SIP driver** (`TransactionAssumption`: T4 below Timeout, Timeout below the idle time of
an entry; `DialogAssumption`; `SipAssumption`). Why is a request handed over once, when
its transaction may end while copies still arrive? `Guarded` is the answer, and the heart
of `SipInv`: as long as copies of a request may come (`Near`), its entry is in the table,
has all final responses that were sent, and either waits for an answer without a timer or
has one of the timers H, J and I, which is due no sooner than the last copy comes
(`Guards`, `Outlasts`). That holds of the copies that come within Timeout of the first:
`Window` is what is left of that time, `Near` the part of it in which copies still come, and
those beyond it are the ones `late` excepts. Nor does the entry go for being idle, for
`idle` and `Near` stay within Timeout together. `Guards` is shown for each input of a transaction: a copy (`GuardCopy`,
which also says that the kept response is sent, hence `CopiesAnswered`), an answer
(`GuardAnswer`), an ACK, a tick (`GuardTick`, through the chain of timers) and the time
(`GuardLater`). Timer I is T4 only, and that is enough because a peer that has sent the
ACK has heard the failure: copies come for T4 at most (`AckOK`). `OnceOK` counts: one loop
at most has the request before the access machine, and then it was not handed over.
`NotSentOK` and `NoTrace` begin the argument. For `DialogsOffered` the answer in the hands
of a loop must reach the wire: `InviteHeld` says that the transaction of an INVITE that a
loop handles waits in Proceeding and never times out, so that `Provide` sends the 2xx
(`HeldAnswer`), and `Offered` follows the 2xx from the loop to the wire. An eviction is
the one way out of it, as the property says.

**Runtime** (`RuntimeAssumption`, `AdmissionAssumption`, `WheelAssumption`). `RuntimeTypeOK`
comes first: queues hold items of the runtime and a worker has one message in hand.
`ItemsInOrder` needs more than its statement says, because what is owed to a device may be
behind a Shutdown that the worker has not yet met. `LineOK` cuts the mailbox at the first
Shutdown: what an actor still has to get is its ready queue followed by its part of the
mailbox before the cut, and once the worker knows of the Shutdown it is a prefix of
the ready queue. `Routed` says that a shard's queues hold items of its own devices only.
`KeysAccounted` goes through the steps with `Backed`: a step may take a message from one
place only to put it in the next, and gives the key back when there is none.
`TimersOnce` counts places: `WheelOnce` says that a timer is in one of commands, wheel,
pending, rest and mailbox, and that behind a cancellation no schedule of the same timer
waits (`CommandsOK`); `OwedOnce` does the same for the actor's side. A worker within a call
of the wheel keeps its message in hand and its queues as they were (`CommandFacts`).
`InOrder` and a cancellation are about filtered queues. `Keep` is a recursive function, and
what is needed of it (its type, its elements, its value for a concatenation, a head or a
tail, that it keeps the number of occurrences) is shown by
induction over the length, with the theorem on minimal elements of a well-founded set
instead of an induction rule.

What the proofs changed in the models:

* `AtLeastOnce` writes about several items at once (before, only batches of one event
  implemented it); `AlarmsKept` has the case of a store for no reports.
* A tick of the wheel was one step. The proof of `TimersOnce` asked for the order of what
  happens within it; the code has none with respect to the workers, and the steps are
  now those of the code.
* The timers of a SIP transaction that are due fire in a written order instead of a fold
  over a sequence, and what was understood about branches is now `SipAssumption`.
* Definitions with overlapping CASE guards are written with IF: TLC takes the first guard
  that holds, the semantics leaves the choice open, and so do the provers.
* `GbSink` and `GbPresence` describe sequences that were built with filters by their
  elements (`FirstOf`, `Without`, `Keepalives`).

Only model-checked: all liveness (`SipSettles`, `RuntimeSettles`, `EverythingSettles`,
`OnlineInTheEnd` and the like), since fairness and ENABLED are beyond the proof system's
backends, and client transactions of SIP, about which there is no safety property but
the liveness `SipSettles`. Every invariant and every action property of the runs is a
theorem.

## 6. Not modelled

Several devices at once (pagination of renew and drain), the rate limiter and node
capacity, clocks that differ between nodes, concurrent submissions with one
idempotency key, the reaper of inbox records, messages that cannot be decoded,
NULL lease expiries (every acquire sets one). Timestamps
are numbers; the text comparison of SQLite is not modelled. Several sessions on one
media node, several devices in one sink (the others are its alarms), catalogs, and the reassembly of their fragments. Of
SIP: client transactions over TCP, dialogs of the UAC side, a CANCEL whose CSeq has the
method INVITE, a dialog that is not established for lack of headers, transport errors
(the driver reports none) and the cancelled flag, which nothing reads. `GbPresence` and
`Cascade` take requests as arriving in any order, whatever the
transactions below keep from them. Of the runtime: the end of a
worker because all senders are gone, a closed output channel, the session registry, the
metrics, the arithmetic of the token buckets, several shards in one instance and the
overflow of the wheel's pending queue. `MediaTypeOK`, `CascadeTypeOK`, `PresenceTypeOK`
and `DeliveriesTypeOK` document the shape of the state and belong to no run; what the
proofs need of them is part of the inductive invariants.

The components marked `not_modelled` in `PROJECT.json` are either open (section 7) or
sequential code: configuration and its validation, assembly, parsers and serialisers,
HTTP and gRPC handlers that map requests to the services above, ONVIF's SOAP messages,
command line tools. They are a large part of the source and have no interleavings,
faults or protocols of their own to check, so most lines of the repository stand
outside of these models.

## 7. Open

In the order of their weight:

1. `ProtocolSession`: sessions with owner epochs and expiry.
2. Composition of `Operations` and `CommandInbox`: a failed operation whose
   command was executed.
3. Liveness of media sessions (no binding of an unwanted session lives for ever).
4. An abstract specification for the transaction layer (each request handed over once
   and answered alike) which `SipDriver` implements, instead of three properties.
