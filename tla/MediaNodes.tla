----------------------------- MODULE MediaNodes -----------------------------
(***************************************************************************)
(* Media nodes as one signaling process sees them: the rows of the table   *)
(* media_nodes, the copy PersistentMediaNodeRegistry keeps in memory, and  *)
(* the reservations of LeastLoadedScheduler for one media session.         *)
(*                                                                         *)
(* A handler changes the row first and the copy in memory after an await,  *)
(* so what it writes to memory may be older than what is there by then.    *)
(* A lease and the heartbeat timeout are one flag, alive, that Lapse takes *)
(* away.                                                                   *)
(***************************************************************************)
EXTENDS Naturals, FiniteSets

CONSTANTS
  Node,        \* media nodes
  NoNode,      \* absence of a node
  Binding,     \* identities of media bindings, in the order of their creation
  Capacity,    \* max_sessions of every node
  MaxReservations, \* the scheduler's own limit
  MaxAttempts, \* max_reserve_attempts of one reservation
  MaxFaults    \* bound on what happens outside the session's own workflow

ASSUME MediaNodesAssumption ==
  /\ NoNode \notin Node
  /\ Capacity \in Nat /\ MaxReservations \in Nat /\ MaxFaults \in Nat
  /\ MaxAttempts \in Nat \ {0}
  /\ IsFiniteSet(Binding) /\ Binding \subseteq Nat

VARIABLES
  boot,    \* incarnation of each media node process
  running, \* epoch of the stream each node runs for the session, 0: none
  row,     \* the persisted row of each node
  reg,     \* the entry of each node in memory
  late,    \* rows that handlers persisted and have yet to write to memory
  faults,  \* registry calls, restarts, lapses and reports so far
  sched    \* reservations and session affinity of the scheduler

nodeVars == <<boot, running, row, reg, late, faults, sched>>

-----------------------------------------------------------------------------
NodeStatus == {"Absent", "Active", "Draining", "Left"}

NodeRow == [inst : 0 .. MaxFaults + 1, ep : Nat, status : NodeStatus, alive : BOOLEAN]

NoRow == [inst |-> 0, ep |-> 0, status |-> "Absent", alive |-> FALSE]

\* reported_session_count and the reservations that have not expired.
NodeEntry == [node : NodeRow, inst : 0 .. MaxFaults + 1, reported : 0 .. 1, reserved : SUBSET Binding]

NoEntry == [node |-> NoRow, inst |-> 0, reported |-> 0, reserved |-> {}]

Known(n) == reg[n].node.status # "Absent"

\* is_active: a node that left stays listed while its protection lease lasts.
IsActive(r) == r.status # "Absent" /\ r.alive

\* PersistentMediaNodeRegistry::get: the row stands in for an inactive entry.
View(n) ==
  IF IsActive(reg[n].node) THEN reg[n].node
  ELSE IF IsActive(row[n]) THEN row[n] ELSE NoRow

\* list_active, which also forgets nodes that left long ago.
Listed == {n \in Node : IsActive(reg[n].node)}

Evicted ==
  [n \in Node |-> IF reg[n].node.status = "Left" /\ ~reg[n].node.alive THEN NoEntry ELSE reg[n]]

Used(n) == reg[n].reported + Cardinality(reg[n].reserved)

\* recalc_health with session_count = reported plus reserved.
HasCapacity(n) == Used(n) < Capacity

Eligible(n) ==
  /\ IsActive(reg[n].node)
  /\ reg[n].node.status = "Active"
  /\ HasCapacity(n)

-----------------------------------------------------------------------------
\* The scheduler.

Sched == [at : [Binding -> Node \cup {NoNode}], aff : Node \cup {NoNode}, count : Nat]

NoSched == [at |-> [b \in Binding |-> NoNode], aff |-> NoNode, count |-> 0]

Reserved == {b \in Binding : sched.at[b] # NoNode}

Full == Cardinality(Reserved) >= MaxReservations

Fault == faults < MaxFaults /\ faults' = faults + 1

\* max_reservations, reached by this session or with those of others.
LimitReached == IF Full THEN UNCHANGED faults ELSE Fault

\* schedule without the nodes a reservation has tried: the node the session has
\* affinity to, otherwise the best score. After the last attempt there is none.
Candidates(tried) ==
  IF Cardinality(tried) >= MaxAttempts THEN {}
  ELSE IF sched.aff \in Node \ tried /\ Eligible(sched.aff) THEN {sched.aff}
  ELSE {n \in Node \ tried : Eligible(n)}

\* LeastLoadedScheduler::reserve up to its await: the scheduler's own maps.
ReserveLocal(b, n) ==
  sched' = [at |-> [sched.at EXCEPT ![b] = n], aff |-> n, count |-> sched.count + 1]

\* remove_local_reservation and the bookkeeping of release.
Forget(s, b) ==
  IF s.at[b] = NoNode THEN s
  ELSE [at |-> [s.at EXCEPT ![b] = NoNode],
        aff |-> IF s.count = 1 THEN NoNode ELSE s.aff,
        count |-> IF s.count = 0 THEN 0 ELSE s.count - 1]

\* Mutant: a reservation the registry refuses stays in the scheduler's maps.
ReserveNotUndone(b, n, ok) ==
  /\ ok = Eligible(n)
  /\ reg' = IF ok THEN [reg EXCEPT ![n].reserved = @ \cup {b}] ELSE reg
  /\ sched' = sched

\* The rest of it: the registry, whose entry may have changed since schedule
\* looked, and remove_local_reservation when the registry refuses.
ReserveRemote(b, n, ok) ==
  /\ ok = Eligible(n)
  /\ reg' = IF ok THEN [reg EXCEPT ![n].reserved = @ \cup {b}] ELSE reg
  /\ sched' = IF ok THEN sched ELSE Forget(sched, b)

\* MediaPort::release: local bookkeeping, then the entry of the registry. An
\* entry that is gone is an error that every caller only logs.
Release(b) ==
  /\ sched' = Forget(sched, b)
  /\ reg' = IF sched.at[b] = NoNode THEN reg
            ELSE [reg EXCEPT ![sched.at[b]].reserved = @ \ {b}]

-----------------------------------------------------------------------------
\* Calls of the media nodes, persisted at once and written to memory later.

Late == [node : Node, kind : {"register", "heartbeat", "drain", "deregister"},
         row : NodeRow, reported : 0 .. 1, reserved : SUBSET Binding]

Persist(n, k, r, rep, res) ==
  /\ Fault
  /\ row' = [row EXCEPT ![n] = r]
  /\ late' = late \cup {[node |-> n, kind |-> k, row |-> r, reported |-> rep, reserved |-> res]}
  /\ UNCHANGED <<boot, running, reg, sched>>

\* register: the same instance keeps its epoch, another one gets the next
\* epoch of the entry in memory, or of the row when there is no entry. The
\* storage refuses an older epoch of another instance.
Register(n) ==
  LET e == reg[n]
      same == Known(n) /\ e.inst = boot[n]
      ep == IF same THEN e.node.ep
            ELSE IF Known(n) THEN e.node.ep + 1 ELSE row[n].ep + 1
  IN  /\ row[n].inst \in {0, boot[n]} \/ ep >= row[n].ep
      /\ Persist(n, "register",
                 [inst |-> boot[n], ep |-> ep, status |-> "Active", alive |-> TRUE],
                 IF same THEN e.reported ELSE 0, IF same THEN e.reserved ELSE {})

\* heartbeat: checked against memory, then UPDATE ... WHERE instance_id.
Heartbeat(n) ==
  /\ reg[n].node.status \in {"Active", "Draining"}
  /\ reg[n].inst = boot[n] /\ reg[n].node.ep = row[n].ep
  /\ row[n].inst = boot[n]
  /\ Persist(n, "heartbeat", [row[n] EXCEPT !.alive = TRUE],
             IF running[n] = 0 THEN 0 ELSE 1, {})

Drain(n) ==
  /\ Known(n) /\ row[n].inst = reg[n].inst
  /\ Persist(n, "drain", [row[n] EXCEPT !.status = "Draining"], reg[n].reported, {})

Deregister(n) ==
  /\ Known(n) /\ row[n].inst = reg[n].inst
  /\ Persist(n, "deregister", [row[n] EXCEPT !.status = "Left", !.alive = TRUE],
             reg[n].reported, {})

\* The end of a handler: nodes.write().await and the assignment. register puts
\* in a new entry, the others need one and replace its node.
Apply(l) ==
  /\ l \in late
  /\ late' = late \ {l}
  /\ reg' = IF l.kind = "register"
            THEN [reg EXCEPT ![l.node] = [node |-> l.row, inst |-> l.row.inst,
                                          reported |-> l.reported, reserved |-> l.reserved]]
            ELSE IF ~Known(l.node) THEN reg
            ELSE [reg EXCEPT ![l.node].node = l.row,
                             ![l.node].reported =
                                IF l.kind = "heartbeat" THEN l.reported ELSE @]
  /\ UNCHANGED <<boot, running, row, faults, sched>>

\* Lease and heartbeat timeout pass, and so do the deadlines of reservations.
Lapse(n) ==
  /\ reg[n].node.alive
  /\ Fault
  /\ reg' = [reg EXCEPT ![n].node.alive = FALSE, ![n].reserved = {}]
  /\ row' = [row EXCEPT ![n].alive = FALSE]
  /\ UNCHANGED <<boot, running, late, sched>>

\* A media node starts again and has lost its streams.
Reboot(n) ==
  /\ Fault
  /\ boot' = [boot EXCEPT ![n] = @ + 1]
  /\ running' = [running EXCEPT ![n] = 0]
  /\ UNCHANGED <<row, reg, late, sched>>

\* A signaling process that starts loads the rows whose lease lasts.
Loaded ==
  [n \in Node |->
     IF IsActive(row[n])
     THEN [node |-> row[n], inst |-> row[n].inst, reported |-> 0, reserved |-> {}]
     ELSE NoEntry]

NodesInit ==
  LET r == [inst |-> 1, ep |-> 1, status |-> "Active", alive |-> TRUE]
  IN  /\ boot = [n \in Node |-> 1]
      /\ running = [n \in Node |-> 0]
      /\ row = [n \in Node |-> r]
      /\ reg = [n \in Node |-> [node |-> r, inst |-> 1, reported |-> 0, reserved |-> {}]]
      /\ late = {}
      /\ faults = 0
      /\ sched = NoSched

NodeStep(n) ==
  \/ Register(n) \/ Heartbeat(n) \/ Drain(n) \/ Deregister(n) \/ Lapse(n) \/ Reboot(n)
  \/ \E l \in late : l.node = n /\ Apply(l)

NodesTypeOK ==
  /\ boot \in [Node -> 1 .. MaxFaults + 1]
  /\ running \in [Node -> Nat]
  /\ row \in [Node -> NodeRow]
  /\ reg \in [Node -> NodeEntry]
  /\ late \subseteq Late
  /\ faults \in 0 .. MaxFaults
  /\ sched \in Sched

\* Affinity is counted: the count of the session's affinity is the number of
\* its reservations, there is a node of affinity exactly while there is one,
\* and the scheduler never holds more than its limit, also while reservations
\* that the registry refuses are undone and tried on another node.
AffinityCounted ==
  /\ sched.count = Cardinality(Reserved)
  /\ (sched.aff = NoNode) <=> (Reserved = {})
  /\ Cardinality(Reserved) <= MaxReservations
=============================================================================
