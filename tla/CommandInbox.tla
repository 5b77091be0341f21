---------------------------- MODULE CommandInbox ----------------------------
(***************************************************************************)
(* One command on its way to the driver. The dispatcher puts it on the     *)
(* subject of the owner node; the inbox of that node checks the owner,     *)
(* forwards or processes the command, and records that it has done so.     *)
(*                                                                         *)
(* The message bus delivers a copy until it is acknowledged; it takes a    *)
(* message whose id it has stored lately for a duplicate and stores it no  *)
(* second time, whatever its subject. Processes resolve the owner through  *)
(* a cache that may be behind the owner row. The command reaches the       *)
(* driver inside a transaction that has not committed.                     *)
(***************************************************************************)
EXTENDS Naturals

CONSTANTS
  Node,        \* nodes, each with a subject of its own
  Proc,        \* inbox workers
  NodeOf,      \* the node of a worker; a restart overlaps its predecessor
  NoProc,      \* nobody holds the record's transaction
  NoOwner,     \* nothing in the cache
  Copy,        \* slots for the copies of the command on the bus
  NoCopy,      \* absence of a copy
  MaxDeliver,  \* deliveries of one copy before the bus drops it
  MaxEpoch,    \* bound on changes of the owner
  MaxCrashes   \* bound on workers that stop, half way or for good

ASSUME InboxAssumption ==
  /\ NodeOf \in [Proc -> Node]
  /\ NoProc \notin Proc
  /\ NoCopy \notin Copy
  /\ NoOwner \notin [node : Node, epoch : Nat]
  /\ MaxDeliver \in Nat
  /\ MaxEpoch \in Nat
  /\ MaxCrashes \in Nat

VARIABLES
  owner,    \* the owner row of the device
  cache,    \* the owner each process has cached
  issued,   \* the owner for whose epoch the command was submitted
  copies,   \* the copies of the command on the bus
  window,   \* the bus remembers the message id of the command
  over,     \* the workers whose subscription has failed: they have ended for good
  work,     \* what each worker is doing
  holder,   \* the worker whose open transaction inserted the record
  rec,      \* the processed_messages record is committed
  done,     \* history: the nodes that handed the command to the driver
  runs,     \* history: how often that happened
  refused,  \* history: a copy was terminated for a stale epoch
  dropped,  \* history: a forward was given up as sent that the bus did not store
  crashes

inboxVars == <<owner, cache, issued, copies, window, over, work, holder, rec, done, runs,
               refused, dropped, crashes>>

Owner == [node : Node, epoch : Nat]

Slot == [state : {"free", "live", "acked"}, at : Node, count : Nat]

Work == [pc : {"idle", "begin", "forward", "handle", "commit", "ack"},
         copy : Copy \cup {NoCopy}, to : Node]

-----------------------------------------------------------------------------
\* The bus (JetStream, at least once).

\* A copy appears on the subject of node n.
Put(k, n) ==
  /\ copies[k].state = "free"
  /\ copies' = [copies EXCEPT ![k].state = "live", ![k].at = n]

\* publish_envelope on the subject of n, under the id of the command: within the
\* deduplication window nothing is stored and the answer is no error either.
Publish(n) ==
  \/ window /\ UNCHANGED <<copies, window>>
  \/ ~window /\ window' = TRUE /\ \E k \in Copy : Put(k, n)

\* The bus forgets the message id.
WindowPasses ==
  /\ window
  /\ window' = FALSE
  /\ UNCHANGED <<owner, cache, issued, copies, over, work, holder, rec, done, runs, refused,
                 dropped, crashes>>

Ack(k) == copies' = [copies EXCEPT ![k].state = "acked"]

\* The ends of a delivery: a nak leaves the copy to be delivered again.
Rest(p) == work' = [work EXCEPT ![p].pc = "idle", ![p].copy = NoCopy]

Goto(p, pc) == work' = [work EXCEPT ![p].pc = pc]

-----------------------------------------------------------------------------
\* Owners.

\* The owner row moves to a node with the next epoch.
ChangeOwner(n) ==
  /\ owner.epoch < MaxEpoch
  /\ owner' = [node |-> n, epoch |-> owner.epoch + 1]
  /\ UNCHANGED <<cache, issued, copies, window, over, work, holder, rec, done, runs, refused,
                 dropped, crashes>>

\* CachingDeviceOwnerResolver::resolve gives the cached owner, or reads and
\* caches the row.
Resolved(p) == IF cache[p] = NoOwner THEN owner ELSE cache[p]

Resolve(p) == cache' = [cache EXCEPT ![p] = Resolved(p)]

\* An entry runs out, or another device evicts it.
Expire(p) ==
  /\ cache[p] # NoOwner
  /\ cache' = [cache EXCEPT ![p] = NoOwner]
  /\ UNCHANGED <<owner, issued, copies, window, over, work, holder, rec, done, runs, refused,
                 dropped, crashes>>

\* CommandBus::send of the dispatcher, which shares the resolver of process p;
\* a dispatcher that is not sure it has sent the command sends it again.
SendCommand(p) ==
  /\ Resolved(p).epoch = issued.epoch
  /\ Resolve(p)
  /\ Publish(Resolved(p).node)
  /\ UNCHANGED <<owner, issued, over, work, holder, rec, done, runs, refused, dropped, crashes>>

-----------------------------------------------------------------------------
\* The inbox.

\* Mutant: the epoch of the command is not compared.
ReceiveAnyEpoch(p, k) ==
  /\ work[p].pc = "idle" /\ p \notin over
  /\ copies[k].state = "live" /\ copies[k].at = NodeOf[p]
  /\ copies[k].count < MaxDeliver
  /\ Resolve(p)
  /\ copies' = [copies EXCEPT ![k].count = @ + 1]
  /\ work' = [work EXCEPT ![p] =
                [pc |-> IF Resolved(p).node = NodeOf[p] THEN "begin" ELSE "forward",
                 copy |-> k, to |-> Resolved(p).node]]
  /\ UNCHANGED <<owner, issued, window, over, holder, rec, done, runs, refused, dropped, crashes>>

\* handle_delivery up to its decision: terminate a command with a stale epoch,
\* process it, forward it, or nak it when no owner can be resolved.
Receive(p, k) ==
  /\ work[p].pc = "idle" /\ p \notin over
  /\ copies[k].state = "live" /\ copies[k].at = NodeOf[p]
  /\ copies[k].count < MaxDeliver
  /\ LET o == Resolved(p)
         mine == o.node = NodeOf[p]
         stale == mine /\ o.epoch # issued.epoch
         seen == [copies EXCEPT ![k].count = @ + 1]
     IN  \/ /\ Resolve(p)
            /\ copies' = IF stale THEN [seen EXCEPT ![k].state = "acked"] ELSE seen
            /\ refused' = (refused \/ stale)
            /\ work' = IF stale THEN work
                       ELSE [work EXCEPT ![p] =
                               [pc |-> IF mine THEN "begin" ELSE "forward",
                                copy |-> k, to |-> o.node]]
         \/ copies' = seen /\ UNCHANGED <<cache, refused, work>>
  /\ UNCHANGED <<owner, issued, window, over, holder, rec, done, runs, dropped, crashes>>

\* Mutant: a failed forward is acknowledged.
ForwardAcksAlways(p) ==
  /\ work[p].pc = "forward"
  /\ dropped' = (dropped \/ window)
  /\ Publish(work[p].to) \/ UNCHANGED <<copies, window>>
  /\ Goto(p, "ack")
  /\ UNCHANGED <<owner, cache, issued, over, holder, rec, done, runs, refused, crashes>>

\* Forwarding publishes the command on the subject of its owner and acknowledges
\* what was received. A publish that times out may have put the copy on the bus all
\* the same, and naks; one that the bus has taken for a duplicate looks like any
\* other, and what was received is given up for nothing.
Forward(p) ==
  /\ work[p].pc = "forward"
  /\ \/ /\ Publish(work[p].to) /\ Goto(p, "ack")
        /\ dropped' = (dropped \/ window)
     \/ /\ Publish(work[p].to) \/ UNCHANGED <<copies, window>>
        /\ Rest(p)
        /\ UNCHANGED dropped
  /\ UNCHANGED <<owner, cache, issued, over, holder, rec, done, runs, refused, crashes>>

\* Mutant: a record that exists is not looked at.
InsertAgain(p) ==
  /\ work[p].pc = "begin"
  /\ holder = NoProc
  /\ Goto(p, "handle") /\ holder' = p
  /\ UNCHANGED <<owner, cache, issued, copies, window, over, rec, done, runs, refused, dropped,
                 crashes>>

\* get_or_insert waits for a transaction that has inserted the same message. A
\* committed record is a duplicate: acknowledge. A failing database, or one
\* that has waited for too long, naks.
Insert(p) ==
  /\ work[p].pc = "begin"
  /\ \/ holder = NoProc /\ rec /\ Goto(p, "ack") /\ UNCHANGED holder
     \/ holder = NoProc /\ ~rec /\ Goto(p, "handle") /\ holder' = p
     \/ Rest(p) /\ UNCHANGED holder
  /\ UNCHANGED <<owner, cache, issued, copies, window, over, rec, done, runs, refused, dropped,
                 crashes>>

\* CommandHandler::handle: the command goes to the driver, or is rejected and
\* recorded as such, or the driver's queue is full: roll back and nak.
Handle(p) ==
  /\ work[p].pc = "handle"
  /\ \/ /\ Goto(p, "commit")
        /\ done' = done \cup {NodeOf[p]}
        /\ runs' = runs + 1
        /\ UNCHANGED holder
     \/ Goto(p, "commit") /\ UNCHANGED <<holder, done, runs>>
     \/ Rest(p) /\ holder' = NoProc /\ UNCHANGED <<done, runs>>
  /\ UNCHANGED <<owner, cache, issued, copies, window, over, rec, refused, dropped, crashes>>

\* Mutant: a failed transaction is acknowledged all the same.
CommitFailedAcks(p) ==
  /\ work[p].pc = "commit"
  /\ holder' = NoProc
  /\ rec' \in {rec, TRUE}
  /\ Goto(p, "ack")
  /\ UNCHANGED <<owner, cache, issued, copies, window, over, done, runs, refused, dropped, crashes>>

\* complete and commit; a transaction that fails is rolled back and nakked.
Commit(p) ==
  /\ work[p].pc = "commit"
  /\ holder' = NoProc
  /\ \/ rec' = TRUE /\ Goto(p, "ack")
     \/ Rest(p) /\ UNCHANGED rec
  /\ UNCHANGED <<owner, cache, issued, copies, window, over, done, runs, refused, dropped, crashes>>

\* The acknowledgement, after everything else.
Acknowledge(p) ==
  /\ work[p].pc = "ack"
  /\ Ack(work[p].copy)
  /\ Rest(p)
  /\ UNCHANGED <<owner, cache, issued, window, over, holder, rec, done, runs, refused, dropped,
                 crashes>>

\* A worker stops; the database rolls its transaction back.
Crash(p) ==
  /\ work[p].pc # "idle"
  /\ crashes < MaxCrashes
  /\ crashes' = crashes + 1
  /\ Rest(p)
  /\ holder' = IF holder = p THEN NoProc ELSE holder
  /\ UNCHANGED <<owner, cache, issued, copies, window, over, rec, done, runs, refused, dropped>>

\* The subscription fails or closes: run returns, the worker logs it and ends.
WorkerEnds(p) ==
  /\ work[p].pc = "idle" /\ p \notin over
  /\ crashes < MaxCrashes
  /\ crashes' = crashes + 1
  /\ over' = over \cup {p}
  /\ UNCHANGED <<owner, cache, issued, copies, window, work, holder, rec, done, runs, refused,
                 dropped>>

-----------------------------------------------------------------------------
InboxInit ==
  /\ owner \in [node : Node, epoch : {1}]
  /\ issued = owner
  /\ cache = [p \in Proc |-> NoOwner]
  /\ copies = [k \in Copy |-> [state |-> "free", at |-> owner.node, count |-> 0]]
  /\ work = [p \in Proc |-> [pc |-> "idle", copy |-> NoCopy, to |-> NodeOf[p]]]
  /\ window = FALSE
  /\ over = {}
  /\ holder = NoProc
  /\ rec = FALSE
  /\ done = {}
  /\ runs = 0
  /\ refused = FALSE
  /\ dropped = FALSE
  /\ crashes = 0

InboxStep(p) ==
  Forward(p) \/ Insert(p) \/ Handle(p) \/ Commit(p) \/ Acknowledge(p)

InboxNext ==
  \/ WindowPasses
  \/ \E n \in Node : ChangeOwner(n)
  \/ \E p \in Proc :
       \/ Expire(p) \/ Crash(p) \/ WorkerEnds(p) \/ InboxStep(p) \/ SendCommand(p)
       \/ \E k \in Copy : Receive(p, k)

\* The bus delivers what is not acknowledged to a worker whose subscription is
\* intact; a worker finishes a delivery.
InboxSpec ==
  /\ InboxInit
  /\ [][InboxNext]_inboxVars
  /\ \A p \in Proc : /\ WF_inboxVars(InboxStep(p))
                     /\ WF_inboxVars(\E k \in Copy : Receive(p, k))

-----------------------------------------------------------------------------
\* Properties.

\* The types of the code.
InboxTypeOK ==
  /\ owner \in Owner /\ issued \in Owner
  /\ cache \in [Proc -> Owner \cup {NoOwner}]
  /\ copies \in [Copy -> Slot]
  /\ work \in [Proc -> Work]
  /\ holder \in Proc \cup {NoProc}
  /\ rec \in BOOLEAN /\ refused \in BOOLEAN /\ dropped \in BOOLEAN
  /\ window \in BOOLEAN /\ over \subseteq Proc
  /\ done \subseteq Node
  /\ runs \in Nat /\ crashes \in Nat

\* Once the record is committed the driver never gets the command again, from
\* no copy, no forward and no overlapping process.
RecordedNotRepeated == [][rec => runs' = runs]_inboxVars

\* A command is not lost between its copies: until it is recorded or refused as
\* stale, some copy of it is unacknowledged, whoever forwards, crashes or times
\* out. The one way to lose it is a forward that the bus takes for a duplicate of
\* the message it forwards (publish_envelope does not look at the answer).
NoLostCommand ==
  (\E k \in Copy : copies[k].state # "free") /\ ~rec /\ ~refused /\ ~dropped
    => \E k \in Copy : copies[k].state = "live"

\* Fencing by epoch: only the node that held the epoch the command was submitted
\* for hands it to the driver, however old the caches are.
OnlyIssuedOwnerExecutes == done \subseteq {issued.node}

\* Nobody gets copy k any more: it has been delivered as often as the bus delivers
\* it, or all workers of its node have ended.
Undeliverable(k) ==
  /\ \A p \in Proc : work[p].copy # k
  /\ \/ copies[k].count = MaxDeliver
     \/ \A p \in Proc : NodeOf[p] = copies[k].at => p \in over

\* Copies are left on the bus, and none of them will be delivered.
StaysOnBus ==
  /\ \E k \in Copy : copies[k].state = "live"
  /\ \A k \in Copy : copies[k].state = "live" => Undeliverable(k)

\* A command that reached the bus is recorded or refused, stays on the bus for ever
\* because its deliveries are used up or its node has no inbox worker left, or was
\* lost to the deduplication of a forward: it does not circulate between the
\* processes, and no other way leads nowhere.
CommandSettles ==
  (\E k \in Copy : copies[k].state = "live") ~> (rec \/ refused \/ dropped \/ StaysOnBus)
=============================================================================
