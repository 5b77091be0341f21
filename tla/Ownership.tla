----------------------------- MODULE Ownership -----------------------------
(***************************************************************************)
(* Device ownership of the signaling cluster, for one device.              *)
(*                                                                         *)
(* The authority is one row of the database (device_owners) next to the    *)
(* node registry (cluster_nodes). Processes of the signaling service       *)
(* register as an instance of a node, heartbeat, renew the rows of their   *)
(* node, take devices over from dead owners, assign them to nodes and      *)
(* compare their device sessions with the row.                             *)
(*                                                                         *)
(* Every SQL statement is one atomic step; what a handler reads before an  *)
(* await and uses after it is kept in work. The owner epoch is the fencing *)
(* token: a session remembers the epoch under which it was opened.         *)
(***************************************************************************)
EXTENDS Naturals, FiniteSets

CONSTANTS
  Node,        \* node ids
  Proc,        \* process incarnations; each registers at most once
  NodeOf,      \* the node id a process is configured with
  NoNode,      \* absence of a node
  NoProc,      \* absence of an instance
  Supports,    \* nodes whose contract versions name the device's protocol
  NodeTtl,     \* node lease duration
  LeaseTtl,    \* owner lease duration
  MaxClock,    \* bound on the clock
  MaxEpoch,    \* bound on the epochs granted
  MaxTasks     \* bound on takeovers and assignments in flight

ASSUME OwnershipAssumption ==
  /\ NodeOf \in [Proc -> Node]
  /\ NoNode \notin Node
  /\ NoProc \notin Proc
  /\ Supports \subseteq Node
  /\ NodeTtl \in Nat
  /\ LeaseTtl \in Nat
  /\ MaxClock \in Nat
  /\ MaxEpoch \in Nat
  /\ MaxTasks \in Nat

VARIABLES
  clock,    \* wall clock shared by the nodes and the database
  nodes,    \* cluster_nodes: instance, lease and draining flag of each node
  up,       \* life cycle of each process
  row,      \* device_owners: the owner of the device, or NoOwner
  work,     \* the takeover or assignment each process is executing
  session   \* the owner epoch of each process's device session, 0 if none

vars == <<clock, nodes, up, row, work, session>>

-----------------------------------------------------------------------------
\* Owners, registry rows and tasks.

OwnerInfo == [node : Node \cup {NoNode}, epoch : Nat, exp : Nat]

NoOwner == [node |-> NoNode, epoch |-> 0, exp |-> 0]

ClusterNode == [inst : Proc \cup {NoProc}, lease : Nat, draining : BOOLEAN]

Unregistered == [inst |-> NoProc, lease |-> 0, draining |-> FALSE]

\* A task remembers the time it started, the owner it read then and, once it
\* has chosen one, the node it is going to acquire the device for.
Task == [kind : {"idle", "takeover", "assign", "acquire"}, now : Nat,
         seen : OwnerInfo, cand : Node \cup {NoNode}]

Idle == [kind |-> "idle", now |-> 0, seen |-> NoOwner, cand |-> NoNode]

Running(p) == up[p] = "up"

\* A process runs one task at a time; MaxTasks bounds the cluster.
CanStart(p) ==
  /\ Running(p)
  /\ work[p].kind = "idle"
  /\ Cardinality({q \in Proc : work[q].kind # "idle"}) < MaxTasks

NodeAlive(n, now) == nodes[n].lease > now

\* The owner's lease has not run out and its node is alive.
OwnerValid(o, now) == o.epoch > 0 /\ o.exp > now /\ NodeAlive(o.node, now)

\* What DeviceAssignmentService asks of a node: of the current owner, and of
\* a candidate for a new assignment.
OwnerAlive(n, now) == NodeAlive(n, now) /\ n \in Supports

Eligible(n, now) == OwnerAlive(n, now) /\ ~nodes[n].draining

-----------------------------------------------------------------------------
\* The row.

\* Mutant: a draining owner counts as gone.
AcquirableFromDraining(n, now) ==
  row.epoch > 0 /\ row.exp > now /\ row.node # n =>
    ~NodeAlive(row.node, now) \/ nodes[row.node].draining

\* The WHERE clause of the upsert that acquires the row for node n.
Acquirable(n, now) ==
  row.epoch > 0 /\ row.exp > now /\ row.node # n => ~NodeAlive(row.node, now)

\* Mutant: the conflict keeps the epoch.
GrantKeepsEpoch(n, now) ==
  row' = [node |-> n, epoch |-> IF row.epoch = 0 THEN 1 ELSE row.epoch,
          exp |-> now + LeaseTtl]

\* INSERT gives epoch 1, ON CONFLICT the next epoch.
Grant(n, now) ==
  /\ row.epoch < MaxEpoch
  /\ row' = [node |-> n, epoch |-> row.epoch + 1, exp |-> now + LeaseTtl]

\* The upsert as a whole: it grants, or affects no row.
Upsert(n, now) ==
  \/ Acquirable(n, now) /\ Grant(n, now)
  \/ ~Acquirable(n, now) /\ UNCHANGED row

-----------------------------------------------------------------------------
\* Time and the node registry.

Tick ==
  /\ clock < MaxClock
  /\ clock' = clock + 1
  /\ UNCHANGED <<nodes, up, row, work, session>>

\* Mutant: the node id is stored where the instance id belongs.
RegisterNodeId(p) ==
  /\ up[p] = "new"
  /\ up' = [up EXCEPT ![p] = "up"]
  /\ nodes' = [nodes EXCEPT ![NodeOf[p]] =
                 [inst |-> NodeOf[p], lease |-> clock + NodeTtl, draining |-> FALSE]]
  /\ UNCHANGED <<clock, row, work, session>>

\* A new instance overwrites the registry row of its node, draining included.
Register(p) ==
  /\ up[p] = "new"
  /\ up' = [up EXCEPT ![p] = "up"]
  /\ nodes' = [nodes EXCEPT ![NodeOf[p]] =
                 [inst |-> p, lease |-> clock + NodeTtl, draining |-> FALSE]]
  /\ UNCHANGED <<clock, row, work, session>>

\* Only the instance on record extends the lease; a fenced one gets an error,
\* which its worker logs.
Heartbeat(p) ==
  /\ Running(p)
  /\ nodes[NodeOf[p]].inst = p
  /\ nodes' = [nodes EXCEPT ![NodeOf[p]].lease = clock + NodeTtl]
  /\ UNCHANGED <<clock, up, row, work, session>>

\* Graceful shutdown: the workers of the process stop and the instance on
\* record marks its node draining; its lease and its session run on.
Shutdown(p) ==
  /\ Running(p)
  /\ up' = [up EXCEPT ![p] = "draining"]
  /\ nodes' = IF nodes[NodeOf[p]].inst = p
              THEN [nodes EXCEPT ![NodeOf[p]].draining = TRUE]
              ELSE nodes
  /\ work' = [work EXCEPT ![p] = Idle]
  /\ UNCHANGED <<clock, row, session>>

\* A process that ends, killed or after its shutdown, leaves the database as
\* it is.
Exit(p) ==
  /\ up[p] \in {"up", "draining"}
  /\ up' = [up EXCEPT ![p] = "dead"]
  /\ work' = [work EXCEPT ![p] = Idle]
  /\ session' = [session EXCEPT ![p] = 0]
  /\ UNCHANGED <<clock, nodes, row>>

-----------------------------------------------------------------------------
\* Owner leases.

\* Renewal asks for the node id and an unexpired lease, not for the epoch.
Renew(p) ==
  /\ Running(p)
  /\ row.node = NodeOf[p]
  /\ row.exp > clock
  /\ row' = [row EXCEPT !.exp = clock + LeaseTtl]
  /\ UNCHANGED <<clock, nodes, up, work, session>>

\* TakeoverService::takeover fixes its time and reads the owner ...
TakeoverRead(p) ==
  /\ CanStart(p)
  /\ work' = [work EXCEPT ![p] = [kind |-> "takeover", now |-> clock,
                                  seen |-> row, cand |-> NodeOf[p]]]
  /\ UNCHANGED <<clock, nodes, up, row, session>>

\* ... returns if that owner is alive or this node is not eligible, and
\* otherwise acquires the row in a transaction that checks both again.
TakeoverAcquire(p) ==
  LET t == work[p]
      n == NodeOf[p]
      eligible == NodeAlive(n, t.now) /\ ~nodes[n].draining
  IN  /\ t.kind = "takeover"
      /\ work' = [work EXCEPT ![p] = Idle]
      /\ \/ /\ OwnerValid(t.seen, t.now) \/ ~eligible
            /\ UNCHANGED <<row, session>>
         \/ /\ ~OwnerValid(t.seen, t.now) /\ eligible
            /\ Upsert(n, t.now)
            /\ session' = IF Acquirable(n, t.now)
                          THEN [session EXCEPT ![p] = row.epoch + 1]
                          ELSE session
      /\ UNCHANGED <<clock, nodes, up>>

-----------------------------------------------------------------------------
\* Assignment of the device to some node.

\* DeviceAssignmentService::assign fixes its time and reads the owner.
AssignRead(p) ==
  /\ CanStart(p)
  /\ work' = [work EXCEPT ![p] = [kind |-> "assign", now |-> clock,
                                  seen |-> row, cand |-> NoNode]]
  /\ UNCHANGED <<clock, nodes, up, row, session>>

\* The owner that an assignment has read keeps the device: its lease runs and
\* its node is alive.
Keeps(t) ==
  t.seen.epoch > 0 /\ t.seen.exp > t.now /\ OwnerAlive(t.seen.node, t.now)

\* Fast path.
AssignKeep(p) ==
  /\ work[p].kind = "assign"
  /\ Keeps(work[p])
  /\ work' = [work EXCEPT ![p] = Idle]
  /\ UNCHANGED <<clock, nodes, up, row, session>>

\* The stable hash picks one of the eligible nodes; which one is left open.
AssignSelect(p, c) ==
  /\ work[p].kind = "assign"
  /\ ~Keeps(work[p])
  /\ Eligible(c, work[p].now)
  /\ work' = [work EXCEPT ![p].kind = "acquire", ![p].seen = NoOwner,
                            ![p].cand = c]
  /\ UNCHANGED <<clock, nodes, up, row, session>>

\* No node with spare capacity, or the rate limiter has no slot left.
AssignRefuse(p) ==
  /\ work[p].kind = "assign"
  /\ ~Keeps(work[p])
  /\ work' = [work EXCEPT ![p] = Idle]
  /\ UNCHANGED <<clock, nodes, up, row, session>>

\* OwnerLeaseService::acquire for this node (edge deployments) fixes its time
\* before it waits for the repository.
AcquireBegin(p) ==
  /\ CanStart(p)
  /\ work' = [work EXCEPT ![p] = [kind |-> "acquire", now |-> clock,
                                  seen |-> NoOwner, cand |-> NodeOf[p]]]
  /\ UNCHANGED <<clock, nodes, up, row, session>>

\* OwnerRepository::acquire for the candidate, with the time the caller fixed.
AcquireRow(p) ==
  /\ work[p].kind = "acquire"
  /\ Upsert(work[p].cand, work[p].now)
  /\ work' = [work EXCEPT ![p] = Idle]
  /\ UNCHANGED <<clock, nodes, up, session>>

-----------------------------------------------------------------------------
\* Device sessions.

\* OwnerReconciler::reconcile: the session of a process is orphaned, and then
\* closed, unless the row names its node and epoch with a lease that runs.
Reconcile(p) ==
  /\ Running(p)
  /\ session[p] > 0
  /\ ~(row.node = NodeOf[p] /\ row.epoch = session[p] /\ row.exp > clock)
  /\ session' = [session EXCEPT ![p] = 0]
  /\ UNCHANGED <<clock, nodes, up, row, work>>

\* OwnerReconciler::find_missing: a device of this node without a session gets
\* one with the owner the row names.
FindMissing(p) ==
  /\ Running(p)
  /\ session[p] = 0
  /\ row.node = NodeOf[p]
  /\ session' = [session EXCEPT ![p] = row.epoch]
  /\ UNCHANGED <<clock, nodes, up, row, work>>

-----------------------------------------------------------------------------
Init ==
  /\ clock = 0
  /\ nodes = [n \in Node |-> Unregistered]
  /\ up = [p \in Proc |-> "new"]
  /\ row = NoOwner
  /\ work = [p \in Proc |-> Idle]
  /\ session = [p \in Proc |-> 0]

\* One step of process p, assignment aside.
ProcStep(p) ==
  \/ Register(p) \/ Heartbeat(p) \/ Shutdown(p) \/ Exit(p)
  \/ Renew(p) \/ TakeoverRead(p) \/ TakeoverAcquire(p)
  \/ Reconcile(p) \/ FindMissing(p)

\* One step of an assignment that process p executes.
AssignStep(p) ==
  \/ AssignRead(p) \/ AssignKeep(p) \/ AssignRefuse(p)
  \/ \E c \in Node : AssignSelect(p, c)
  \/ AcquireBegin(p) \/ AcquireRow(p)

Next ==
  \/ Tick
  \/ \E p \in Proc : ProcStep(p) \/ AssignStep(p)

Spec == Init /\ [][Next]_vars

-----------------------------------------------------------------------------
\* Properties.

\* Every variable holds a value of the kind the code's types allow.
TypeOK ==
  /\ clock \in Nat
  /\ nodes \in [Node -> ClusterNode]
  /\ up \in [Proc -> {"new", "up", "draining", "dead"}]
  /\ row \in OwnerInfo
  /\ work \in [Proc -> Task]
  /\ session \in [Proc -> Nat]

\* The owner epoch is a fencing token: sessions that different nodes still hold,
\* however stale, never share an epoch, and the session with the epoch of the
\* row is a session of the row's node.
EpochNamesOneNode ==
  \A p \in Proc : session[p] > 0 =>
    /\ session[p] = row.epoch => NodeOf[p] = row.node
    /\ \A q \in Proc : session[q] = session[p] => NodeOf[q] = NodeOf[p]

\* A device changes hands only when its owner is gone at that moment: its lease
\* or its node's lease has run out, whatever the time and the owner that the
\* takeover or the assignment fixed before it got to the database.
OnlyLapsedOwnersReplaced ==
  [][row.epoch > 0 /\ row'.node # row.node =>
       row.exp <= clock \/ ~NodeAlive(row.node, clock)]_vars
=============================================================================
