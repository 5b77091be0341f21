--------------------------- MODULE OwnershipProofs ---------------------------
(***************************************************************************)
(* Proofs about Ownership and about DrainMigration, which adds the         *)
(* migrations of a draining node to it, for any set of nodes and           *)
(* processes, any lease durations and any bounds.                          *)
(***************************************************************************)
EXTENDS DrainMigration, TLAPS

-----------------------------------------------------------------------------
(***************************************************************************)
(* Ownership: fencing by epochs.                                           *)
(***************************************************************************)

\* The inductive invariant.

\* A task's time is in the past: it was read from the clock.
TimesPast == \A p \in Proc : work[p].now <= clock

\* An upsert is always for a node.
CandidatesNamed == \A p \in Proc : work[p].kind = "acquire" => work[p].cand \in Node

\* An owner that is recorded is a node.
OwnerNamed == row.epoch > 0 => row.node \in Node

\* No session is ahead of the row: the epoch that the next grant gives is fresh.
SessionsBehind == \A p \in Proc : session[p] <= row.epoch

IInv ==
  /\ TypeOK
  /\ TimesPast
  /\ CandidatesNamed
  /\ OwnerNamed
  /\ SessionsBehind
  /\ EpochNamesOneNode

-----------------------------------------------------------------------------
\* Reading one process's task or one node's registry row.
LEMMA TypeFacts ==
  ASSUME TypeOK
  PROVE  /\ \A p \in Proc : /\ work[p] \in Task
                            /\ work[p].now \in Nat
                            /\ work[p].cand \in Node \cup {NoNode}
                            /\ session[p] \in Nat
                            /\ NodeOf[p] \in Node
         /\ \A n \in Node : nodes[n] \in ClusterNode /\ nodes[n].lease \in Nat
         /\ row.epoch \in Nat /\ row.exp \in Nat /\ row.node \in Node \cup {NoNode}
  BY OwnershipAssumption DEF TypeOK, Task, ClusterNode, OwnerInfo

\* The initial state satisfies the invariant.
LEMMA InitInv == Init => IInv
  <1> SUFFICES ASSUME Init PROVE IInv
    OBVIOUS
  <1> USE OwnershipAssumption DEF Init
  <1>1. TypeOK
    BY DEF TypeOK, ClusterNode, Unregistered, OwnerInfo, NoOwner, Task, Idle
  <1>2. TimesPast /\ CandidatesNamed
    BY DEF TimesPast, CandidatesNamed, Idle
  <1>3. OwnerNamed /\ SessionsBehind /\ EpochNamesOneNode
    BY DEF OwnerNamed, SessionsBehind, EpochNamesOneNode, NoOwner
  <1> QED
    BY <1>1, <1>2, <1>3 DEF IInv

\* Steps that leave the row and the sessions alone, change the registry and the
\* tasks within their types and never move the clock back preserve the invariant.
LEMMA QuietStep ==
  ASSUME IInv, UNCHANGED <<row, session>>, TypeOK', TimesPast', CandidatesNamed'
  PROVE  IInv'
  BY DEF IInv, OwnerNamed, SessionsBehind, EpochNamesOneNode

\* Giving up a task.
LEMMA TaskEnds ==
  ASSUME IInv, NEW p \in Proc, work' = [work EXCEPT ![p] = Idle], clock' = clock
  PROVE  /\ work' \in [Proc -> Task]
         /\ TimesPast'
         /\ CandidatesNamed'
  BY OwnershipAssumption
     DEF IInv, TypeOK, TimesPast, CandidatesNamed, Idle, Task, OwnerInfo, NoOwner

\* A granted epoch is new, so whoever records it is the only one to do so.
LEMMA GrantInv ==
  ASSUME IInv, NEW n \in Node, NEW now \in Nat, Grant(n, now),
         work' \in [Proc -> Task], TimesPast', CandidatesNamed',
         UNCHANGED <<clock, nodes, up>>,
         \/ session' = session
         \/ \E p \in Proc : /\ NodeOf[p] = n
                            /\ session' = [session EXCEPT ![p] = row.epoch + 1]
  PROVE  IInv'
  <1>1. row' \in OwnerInfo /\ row'.epoch = row.epoch + 1 /\ row'.node = n
    BY OwnershipAssumption, TypeFacts DEF IInv, Grant, OwnerInfo
  <1>2. row.epoch \in Nat /\ \A q \in Proc : session[q] \in Nat /\ session[q] <= row.epoch
    BY TypeFacts DEF IInv, SessionsBehind
  <1>3. session' \in [Proc -> Nat]
    BY <1>2 DEF IInv, TypeOK
  <1>4. TypeOK'
    BY <1>1, <1>3 DEF IInv, TypeOK
  <1>5. OwnerNamed'
    BY <1>1 DEF OwnerNamed
  <1>6. CASE session' = session
    <2>1. SessionsBehind'
      BY <1>1, <1>2, <1>6 DEF SessionsBehind
    <2>2. EpochNamesOneNode'
      BY <1>1, <1>2, <1>6 DEF IInv, EpochNamesOneNode
    <2> QED
      BY <1>4, <1>5, <2>1, <2>2 DEF IInv
  <1>7. ASSUME NEW p \in Proc, NodeOf[p] = n,
               session' = [session EXCEPT ![p] = row.epoch + 1]
        PROVE  IInv'
    <2>1. session'[p] = row.epoch + 1 /\ \A q \in Proc \ {p} : session'[q] = session[q]
      BY <1>7 DEF IInv, TypeOK
    <2>2. SessionsBehind'
      BY <1>1, <1>2, <2>1 DEF SessionsBehind
    <2>3. EpochNamesOneNode'
      BY <1>1, <1>2, <1>7, <2>1 DEF IInv, EpochNamesOneNode
    <2> QED
      BY <1>4, <1>5, <2>2, <2>3 DEF IInv
  <1> QED
    BY <1>6, <1>7

\* The upsert with a time that a task has fixed, on behalf of that task.
LEMMA UpsertInv ==
  ASSUME IInv, NEW p \in Proc, NEW n \in Node, Upsert(n, work[p].now),
         work' = [work EXCEPT ![p] = Idle],
         UNCHANGED <<clock, nodes, up>>,
         \/ session' = session
         \/ /\ Acquirable(n, work[p].now)
            /\ NodeOf[p] = n
            /\ session' = [session EXCEPT ![p] = row.epoch + 1]
  PROVE  IInv'
  <1>1. work[p].now \in Nat
    BY TypeFacts DEF IInv
  <1>2. work' \in [Proc -> Task] /\ TimesPast' /\ CandidatesNamed'
    BY TaskEnds
  <1>3. CASE Acquirable(n, work[p].now)
    BY <1>1, <1>2, <1>3, GrantInv DEF Upsert
  <1>4. CASE ~Acquirable(n, work[p].now)
    <2>1. UNCHANGED <<row, session>>
      BY <1>4 DEF Upsert
    <2>2. TypeOK'
      BY <1>2, <2>1 DEF IInv, TypeOK
    <2> QED
      BY <1>2, <2>1, <2>2, QuietStep
  <1> QED
    BY <1>3, <1>4

\* Every step of the specification preserves the invariant.
LEMMA NextInv == IInv /\ [Next]_vars => IInv'
  <1> SUFFICES ASSUME IInv, [Next]_vars PROVE IInv'
    OBVIOUS
  <1> USE OwnershipAssumption
  <1>f. TypeOK /\ TimesPast /\ CandidatesNamed
    BY DEF IInv
  <1>1. CASE UNCHANGED vars
    BY <1>1 DEF vars, IInv, TypeOK, TimesPast, CandidatesNamed, OwnerNamed,
                SessionsBehind, EpochNamesOneNode
  <1>2. CASE Tick
    <2>1. clock' = clock + 1 /\ clock \in Nat /\ UNCHANGED <<nodes, up, row, work, session>>
      BY <1>2, <1>f DEF Tick, TypeOK
    <2>2. TypeOK'
      BY <2>1, <1>f DEF TypeOK
    <2>3. TimesPast'
      BY <2>1, <1>f, TypeFacts DEF TimesPast
    <2>4. CandidatesNamed'
      BY <2>1, <1>f DEF CandidatesNamed
    <2> QED
      BY <2>1, <2>2, <2>3, <2>4, QuietStep
  <1>3. ASSUME NEW p \in Proc, Register(p) \/ Heartbeat(p)
        PROVE  IInv'
    <2>1. UNCHANGED <<clock, row, work, session>>
      BY <1>3 DEF Register, Heartbeat
    <2>2. nodes' \in [Node -> ClusterNode]
      <3>1. NodeOf[p] \in Node /\ clock + NodeTtl \in Nat
        BY <1>f DEF TypeOK
      <3>2. CASE Register(p)
        BY <3>1, <3>2, <1>f DEF Register, TypeOK, ClusterNode
      <3>3. CASE Heartbeat(p)
        <4>1. [nodes[NodeOf[p]] EXCEPT !.lease = clock + NodeTtl] \in ClusterNode
          BY <3>1, <1>f DEF TypeOK, ClusterNode
        <4> QED
          BY <3>1, <3>3, <4>1, <1>f DEF Heartbeat, TypeOK
      <3> QED
        BY <1>3, <3>2, <3>3
    <2>3. TypeOK'
      BY <1>3, <1>f, <2>1, <2>2 DEF Register, Heartbeat, TypeOK
    <2>4. TimesPast' /\ CandidatesNamed'
      BY <2>1, <1>f DEF TimesPast, CandidatesNamed
    <2> QED
      BY <2>1, <2>3, <2>4, QuietStep
  <1>4. ASSUME NEW p \in Proc, Shutdown(p)
        PROVE  IInv'
    <2>1. UNCHANGED <<clock, row, session>> /\ work' = [work EXCEPT ![p] = Idle]
      BY <1>4 DEF Shutdown
    <2>2. work' \in [Proc -> Task] /\ TimesPast' /\ CandidatesNamed'
      BY <2>1, TaskEnds
    <2>3. nodes' \in [Node -> ClusterNode]
      <3>1. nodes[NodeOf[p]] \in ClusterNode
        BY <1>f DEF TypeOK
      <3>2. [nodes[NodeOf[p]] EXCEPT !.draining = TRUE] \in ClusterNode
        BY <3>1, Zenon DEF ClusterNode
      <3> QED
        BY <1>4, <3>2, <1>f DEF Shutdown, TypeOK
    <2>4. TypeOK'
      BY <1>4, <1>f, <2>1, <2>2, <2>3 DEF Shutdown, TypeOK
    <2> QED
      BY <2>1, <2>2, <2>4, QuietStep
  <1>5. ASSUME NEW p \in Proc, Exit(p)
        PROVE  IInv'
    <2>1. UNCHANGED <<clock, row>> /\ session' = [session EXCEPT ![p] = 0]
      BY <1>5 DEF Exit
    <2>2. work' \in [Proc -> Task] /\ TimesPast' /\ CandidatesNamed'
      BY <1>5, TaskEnds DEF Exit
    <2>3. TypeOK'
      BY <1>5, <1>f, <2>2 DEF Exit, TypeOK
    <2>4. session'[p] = 0 /\ \A q \in Proc \ {p} : session'[q] = session[q]
      BY <2>1, <1>f DEF TypeOK
    <2>5. OwnerNamed' /\ SessionsBehind'
      BY <2>1, <2>4, TypeFacts DEF IInv, OwnerNamed, SessionsBehind
    <2>6. EpochNamesOneNode'
      BY <2>1, <2>4, TypeFacts DEF IInv, EpochNamesOneNode
    <2> QED
      BY <2>2, <2>3, <2>5, <2>6 DEF IInv
  <1>6. ASSUME NEW p \in Proc, Renew(p)
        PROVE  IInv'
    <2>1. /\ row' = [row EXCEPT !.exp = clock + LeaseTtl]
          /\ UNCHANGED <<clock, nodes, up, work, session>>
      BY <1>6 DEF Renew
    <2>2. row' \in OwnerInfo /\ row'.epoch = row.epoch /\ row'.node = row.node
      BY <2>1, <1>f DEF TypeOK, OwnerInfo
    <2>3. TypeOK' /\ TimesPast' /\ CandidatesNamed'
      BY <2>1, <2>2, <1>f DEF TypeOK, TimesPast, CandidatesNamed
    <2>4. OwnerNamed' /\ SessionsBehind' /\ EpochNamesOneNode'
      BY <2>1, <2>2 DEF IInv, OwnerNamed, SessionsBehind, EpochNamesOneNode
    <2> QED
      BY <2>3, <2>4 DEF IInv
  <1>7. ASSUME NEW p \in Proc, TakeoverRead(p) \/ AssignRead(p) \/ AcquireBegin(p)
        PROVE  IInv'
    <2>1. UNCHANGED <<clock, nodes, up, row, session>>
      BY <1>7 DEF TakeoverRead, AssignRead, AcquireBegin
    <2>2. CASE TakeoverRead(p) \/ AcquireBegin(p)
      <3>1. PICK t \in Task : /\ t.now = clock
                             /\ t.cand = NodeOf[p]
                             /\ work' = [work EXCEPT ![p] = t]
        <4>1. CASE TakeoverRead(p)
          BY <4>1, <1>f DEF TakeoverRead, Task, TypeOK, OwnerInfo
        <4>2. CASE AcquireBegin(p)
          BY <4>2, <1>f DEF AcquireBegin, Task, TypeOK, OwnerInfo, NoOwner
        <4> QED
          BY <2>2, <4>1, <4>2
      <3>2. work' \in [Proc -> Task] /\ TimesPast' /\ CandidatesNamed'
        BY <2>1, <3>1, <1>f DEF TypeOK, TimesPast, CandidatesNamed
      <3> QED
        BY <2>1, <3>2, <1>f, QuietStep DEF TypeOK
    <2>3. CASE AssignRead(p)
      <3>1. PICK t \in Task : /\ t.now = clock
                             /\ t.kind = "assign"
                             /\ work' = [work EXCEPT ![p] = t]
        BY <2>3, <1>f DEF AssignRead, Task, TypeOK, OwnerInfo
      <3>2. work' \in [Proc -> Task] /\ TimesPast' /\ CandidatesNamed'
        BY <2>1, <3>1, <1>f DEF TypeOK, TimesPast, CandidatesNamed
      <3> QED
        BY <2>1, <3>2, <1>f, QuietStep DEF TypeOK
    <2> QED
      BY <1>7, <2>2, <2>3
  <1>8. ASSUME NEW p \in Proc, TakeoverAcquire(p)
        PROVE  IInv'
    <2>1. work' = [work EXCEPT ![p] = Idle] /\ UNCHANGED <<clock, nodes, up>>
      BY <1>8 DEF TakeoverAcquire
    <2>2. CASE UNCHANGED <<row, session>>
      <3>1. work' \in [Proc -> Task] /\ TimesPast' /\ CandidatesNamed'
        BY <2>1, TaskEnds
      <3>2. TypeOK'
        BY <2>1, <2>2, <3>1, <1>f DEF TypeOK
      <3> QED
        BY <2>2, <3>1, <3>2, QuietStep
    <2>3. CASE /\ Upsert(NodeOf[p], work[p].now)
               /\ session' = IF Acquirable(NodeOf[p], work[p].now)
                             THEN [session EXCEPT ![p] = row.epoch + 1]
                             ELSE session
      BY <2>1, <2>3, UpsertInv
    <2> QED
      BY <1>8, <2>2, <2>3 DEF TakeoverAcquire
  <1>9. ASSUME NEW p \in Proc, AssignKeep(p) \/ AssignRefuse(p)
        PROVE  IInv'
    <2>1. work' = [work EXCEPT ![p] = Idle] /\ UNCHANGED <<clock, nodes, up, row, session>>
      BY <1>9 DEF AssignKeep, AssignRefuse
    <2>2. work' \in [Proc -> Task] /\ TimesPast' /\ CandidatesNamed'
      BY <2>1, TaskEnds
    <2>3. TypeOK'
      BY <2>1, <2>2, <1>f DEF TypeOK
    <2> QED
      BY <2>1, <2>2, <2>3, QuietStep
  <1>10. ASSUME NEW p \in Proc, NEW c \in Node, AssignSelect(p, c)
         PROVE  IInv'
    <2>1. UNCHANGED <<clock, nodes, up, row, session>>
      BY <1>10 DEF AssignSelect
    <2>2. PICK t \in Task : /\ t.now = work[p].now
                           /\ t.cand = c
                           /\ work' = [work EXCEPT ![p] = t]
      <3>1. work[p] \in Task /\ NoOwner \in OwnerInfo
        BY <1>f DEF TypeOK, OwnerInfo, NoOwner
      <3>2. [work[p] EXCEPT !.kind = "acquire", !.seen = NoOwner, !.cand = c] \in Task
        BY <3>1 DEF Task
      <3> QED
        BY <1>10, <1>f, <3>1, <3>2 DEF AssignSelect, TypeOK, Task
    <2>3. work' \in [Proc -> Task] /\ TimesPast' /\ CandidatesNamed'
      BY <2>1, <2>2, <1>f DEF TypeOK, TimesPast, CandidatesNamed
    <2>4. TypeOK'
      BY <2>1, <2>3, <1>f DEF TypeOK
    <2> QED
      BY <2>1, <2>3, <2>4, QuietStep
  <1>11. ASSUME NEW p \in Proc, AcquireRow(p)
         PROVE  IInv'
    <2>1. work[p].cand \in Node
      BY <1>11, <1>f DEF AcquireRow, CandidatesNamed
    <2> QED
      BY <1>11, <2>1, UpsertInv DEF AcquireRow
  <1>12. ASSUME NEW p \in Proc, Reconcile(p) \/ FindMissing(p)
         PROVE  IInv'
    <2>1. UNCHANGED <<clock, nodes, up, row, work>>
      BY <1>12 DEF Reconcile, FindMissing
    <2> DEFINE e == IF Reconcile(p) THEN 0 ELSE row.epoch
    <2>2. session' = [session EXCEPT ![p] = e]
      BY <1>12 DEF Reconcile, FindMissing
    <2>3. e \in Nat /\ (e = 0 \/ (e = row.epoch /\ row.node = NodeOf[p]))
      BY <1>12, <1>f, TypeFacts DEF FindMissing
    <2> HIDE DEF e
    <2>4. session' \in [Proc -> Nat] /\ session'[p] = e
            /\ \A q \in Proc \ {p} : session'[q] = session[q]
      BY <2>2, <2>3, <1>f DEF TypeOK
    <2>5. TypeOK' /\ TimesPast' /\ CandidatesNamed' /\ OwnerNamed'
      BY <2>1, <2>4 DEF IInv, TypeOK, TimesPast, CandidatesNamed, OwnerNamed
    <2>6. SessionsBehind'
      BY <2>1, <2>3, <2>4, <1>f, TypeFacts DEF IInv, SessionsBehind
    <2>7. EpochNamesOneNode'
      BY <2>1, <2>3, <2>4, <1>f, TypeFacts DEF IInv, EpochNamesOneNode
    <2> QED
      BY <2>5, <2>6, <2>7 DEF IInv
  <1> QED
    BY <1>1, <1>2, <1>3, <1>4, <1>5, <1>6, <1>7, <1>8, <1>9, <1>10, <1>11, <1>12
       DEF Next, ProcStep, AssignStep

\* The invariant holds in every reachable state.
THEOREM Invariance == Spec => []IInv
  BY InitInv, NextInv, PTL DEF Spec

\* Types: every state that the lease protocol reaches holds values of the kinds
\* that the code's types allow.
THEOREM TypeCorrect == Spec => []TypeOK
  BY Invariance, PTL DEF IInv

\* Fencing: whatever processes crash, restart, hang or act on stale reads, two
\* nodes never hold sessions with the same owner epoch.
THEOREM Fencing == Spec => []EpochNamesOneNode
  BY Invariance, PTL DEF IInv

-----------------------------------------------------------------------------
\* How the row changes: a step grants it to some node with a time that is not
\* in the future, or keeps its node and epoch.
LEMMA RowSteps ==
  ASSUME IInv, [Next]_vars
  PROVE  \/ row'.node = row.node /\ row'.epoch = row.epoch
         \/ \E n \in Node, now \in Nat :
              now <= clock /\ Acquirable(n, now) /\ Grant(n, now)
  <1>1. CASE row' = row
    BY <1>1
  <1>2. ASSUME NEW p \in Proc, Renew(p)
        PROVE  row'.node = row.node /\ row'.epoch = row.epoch
    BY <1>2 DEF Renew, IInv, TypeOK, OwnerInfo
  <1>3. ASSUME NEW p \in Proc, TakeoverAcquire(p) \/ AcquireRow(p), row' # row
        PROVE  \E n \in Node, now \in Nat :
                 now <= clock /\ Acquirable(n, now) /\ Grant(n, now)
    <2>1. work[p].now \in Nat /\ work[p].now <= clock /\ NodeOf[p] \in Node
      BY TypeFacts DEF IInv, TimesPast
    <2>2. PICK n \in Node : Acquirable(n, work[p].now) /\ Grant(n, work[p].now)
      BY <1>3, <2>1 DEF TakeoverAcquire, AcquireRow, Upsert, IInv, CandidatesNamed
    <2> QED
      BY <2>1, <2>2
  <1> QED
    BY <1>1, <1>2, <1>3
       DEF vars, Next, ProcStep, AssignStep, Tick, Register, Heartbeat, Shutdown,
           Exit, TakeoverRead, AssignRead, AssignKeep, AssignSelect, AssignRefuse,
           AcquireBegin, Reconcile, FindMissing

\* Handover: the WHERE clause is evaluated with a time read before the database
\* was reached, and still replaces only an owner that is gone at that moment.
THEOREM Handover == Spec => OnlyLapsedOwnersReplaced
  <1>1. IInv /\ [Next]_vars =>
          [row.epoch > 0 /\ row'.node # row.node =>
             row.exp <= clock \/ ~NodeAlive(row.node, clock)]_vars
    <2> SUFFICES ASSUME IInv, [Next]_vars, row.epoch > 0, row'.node # row.node
                 PROVE  row.exp <= clock \/ ~NodeAlive(row.node, clock)
      OBVIOUS
    <2>1. PICK n \in Node, now \in Nat :
            now <= clock /\ Acquirable(n, now) /\ Grant(n, now)
      BY RowSteps
    <2>2. row.node \in Node /\ row.node # n
      BY <2>1, OwnershipAssumption, TypeFacts DEF IInv, OwnerNamed, Grant
    <2>3. clock \in Nat /\ row.exp \in Nat /\ nodes[row.node].lease \in Nat
      BY <2>2, TypeFacts DEF IInv, TypeOK
    <2> QED
      BY <2>1, <2>2, <2>3 DEF Acquirable, NodeAlive
  <1> QED
    BY <1>1, Invariance, PTL DEF Spec, OnlyLapsedOwnersReplaced

-----------------------------------------------------------------------------
(***************************************************************************)
(* DrainMigration: no device is left without an owner.                     *)
(***************************************************************************)

\* The inductive invariant.

DrainTypeOK ==
  /\ TypeOK
  /\ mig \in [Proc -> Migration]
  /\ last \in OwnerInfo /\ lost \in BOOLEAN

\* A migration m whose process executes the task t: it is about a node; it has
\* an owner to put back wherever it clears or restores one; and before it
\* assigns the device its process remembers no owner that a task has read.
MigrationOK(m, t) ==
  /\ m.phase # "idle" => m.from \in Node
  /\ m.phase \in {"clear", "restore"} => m.prev # NoOwner
  /\ m.phase \in {"listed", "mark", "marked", "clear"} => t.seen = NoOwner
  /\ t.kind = "idle" => t.seen = NoOwner

\* A migration that will not end without an owner in the row. It has an owner
\* to put back, and its assignment has read nothing it could mistake for one.
Holds(m, t) ==
  /\ m.prev # NoOwner
  /\ m.phase \in {"assign", "confirm", "restore"}
  /\ m.phase = "assign" => t.seen = NoOwner

Orphaned == last # NoOwner /\ row = NoOwner /\ ~lost

\* A device that has lost its owner is held by such a migration.
OrphanHeld == Orphaned => \E p \in Proc : Holds(mig[p], work[p])

DrainInv ==
  /\ DrainTypeOK
  /\ \A p \in Proc : MigrationOK(mig[p], work[p])
  /\ OrphanHeld

-----------------------------------------------------------------------------
\* What the types say of one process, one node and the row.
LEMMA DrainTypeFacts ==
  ASSUME DrainTypeOK
  PROVE  /\ clock \in Nat /\ row \in OwnerInfo /\ NoOwner \in OwnerInfo
         /\ row.epoch \in Nat /\ row.exp \in Nat /\ row.node \in Node \cup {NoNode}
         /\ Idle \in Task /\ NoMigration \in Migration
         /\ \A p \in Proc : /\ work[p] \in Task /\ mig[p] \in Migration /\ NodeOf[p] \in Node
                            /\ work[p].now \in Nat /\ work[p].cand \in Node \cup {NoNode}
                            /\ mig[p].prev \in OwnerInfo
         /\ \A n \in Node : nodes[n] \in ClusterNode
  BY OwnershipAssumption
     DEF DrainTypeOK, TypeOK, Task, Idle, ClusterNode, OwnerInfo, NoOwner, Migration, NoMigration

\* The initial state satisfies the invariant.
LEMMA DrainInitInv == DrainInit => DrainInv
  <1> SUFFICES ASSUME DrainInit PROVE DrainInv
    OBVIOUS
  <1>1. TypeOK
    BY OwnershipAssumption
       DEF DrainInit, Init, TypeOK, ClusterNode, Unregistered, OwnerInfo, NoOwner, Task, Idle
  <1>2. DrainTypeOK
    BY <1>1 DEF DrainTypeOK, DrainInit, Migration, NoMigration, OwnerInfo, NoOwner
  <1>3. \A p \in Proc : MigrationOK(mig[p], work[p])
    BY DEF DrainInit, Init, MigrationOK, NoMigration, Idle
  <1>4. OrphanHeld
    BY DEF DrainInit, OrphanHeld, Orphaned
  <1> QED
    BY <1>2, <1>3, <1>4 DEF DrainInv

\* After Remember, an orphan was one before, unless this step removed the owner.
LEMMA Remembered ==
  ASSUME Remember, Orphaned'
  PROVE  row = NoOwner => Orphaned
  BY DEF Remember, Orphaned

\* A holder that the step does not touch keeps holding.
LEMMA OthersHold ==
  ASSUME DrainInv, NEW p \in Proc, Orphaned,
         \A q \in Proc \ {p} : mig'[q] = mig[q] /\ work'[q] = work[q],
         Holds(mig[p], work[p]) => Holds(mig'[p], work'[p])
  PROVE  OrphanHeld'
  <1>1. PICK q \in Proc : Holds(mig[q], work[q])
    BY DEF DrainInv, OrphanHeld
  <1>2. Holds(mig'[q], work'[q])
    BY <1>1
  <1> QED
    BY <1>2 DEF OrphanHeld

\* A step of one process p that keeps the types, does what the invariant asks
\* of p and does not remove an owner without holding the device.
LEMMA ProcessStep ==
  ASSUME DrainInv, NEW p \in Proc, DrainTypeOK',
         \A q \in Proc \ {p} : mig'[q] = mig[q] /\ work'[q] = work[q],
         MigrationOK(mig'[p], work'[p]),
         Orphaned' /\ row # NoOwner => Holds(mig'[p], work'[p]),
         Orphaned' /\ row = NoOwner => Orphaned,
         Orphaned' /\ Orphaned /\ Holds(mig[p], work[p]) => Holds(mig'[p], work'[p])
  PROVE  DrainInv'
  <1>2. \A q \in Proc : MigrationOK(mig'[q], work'[q])
    BY DEF DrainInv
  <1>3. OrphanHeld'
    <2>1. CASE ~Orphaned'
      BY <2>1 DEF OrphanHeld
    <2>2. CASE Orphaned' /\ row # NoOwner
      BY <2>2 DEF OrphanHeld
    <2>3. CASE Orphaned' /\ row = NoOwner
      BY <2>3, OthersHold
    <2> QED
      BY <2>1, <2>2, <2>3
  <1> QED
    BY <1>2, <1>3 DEF DrainInv

\* The same for steps that leave the row and its history alone.
LEMMA QuietProcessStep ==
  ASSUME DrainInv, NEW p \in Proc, DrainTypeOK',
         \A q \in Proc \ {p} : mig'[q] = mig[q] /\ work'[q] = work[q],
         MigrationOK(mig'[p], work'[p]), UNCHANGED <<row, last, lost>>,
         Orphaned /\ Holds(mig[p], work[p]) => Holds(mig'[p], work'[p])
  PROVE  DrainInv'
  BY ProcessStep DEF Orphaned

-----------------------------------------------------------------------------
\* A migration moves on: its record changes, the rest of the state does not.
LEMMA MigrationMoves ==
  ASSUME DrainInv, NEW p \in Proc, NEW m \in Migration, mig' = [mig EXCEPT ![p] = m],
         UNCHANGED <<clock, up, row, work, session, last, lost>>,
         nodes' \in [Node -> ClusterNode],
         MigrationOK(m, work[p]),
         Orphaned /\ Holds(mig[p], work[p]) => Holds(m, work[p])
  PROVE  DrainInv'
  <1>1. DrainTypeOK'
    BY DEF DrainInv, DrainTypeOK, TypeOK
  <1>2. mig'[p] = m /\ \A q \in Proc \ {p} : mig'[q] = mig[q]
    BY DEF DrainInv, DrainTypeOK
  <1> QED
    BY <1>1, <1>2, QuietProcessStep

\* drain_expired_nodes and drain_node up to the list of devices.
LEMMA DrainListInv ==
  ASSUME DrainInv, NEW p \in Proc, NEW n \in Node, DrainList(p, n)
  PROVE  DrainInv'
  <1> DEFINE m == [mig[p] EXCEPT !.phase = "listed", !.from = n]
  <1>1. mig[p] \in Migration /\ nodes \in [Node -> ClusterNode] /\ mig \in [Proc -> Migration]
    BY DEF DrainInv, DrainTypeOK, TypeOK
  <1>2. m \in Migration /\ m.phase = "listed" /\ m.from = n
    BY <1>1 DEF Migration
  <1>3. mig' = [mig EXCEPT ![p] = m]
    BY DEF DrainList
  <1>4. work[p].seen = NoOwner /\ mig[p].phase = "idle"
    BY DEF DrainInv, MigrationOK, DrainList, CanStart
  <1>5. MigrationOK(m, work[p]) /\ ~Holds(mig[p], work[p])
    BY <1>2, <1>4 DEF MigrationOK, Holds
  <1> HIDE DEF m
  <1> QED
    BY <1>1, <1>2, <1>3, <1>5, MigrationMoves DEF DrainList

LEMMA DrainGetInv ==
  ASSUME DrainInv, NEW p \in Proc, DrainGet(p)
  PROVE  DrainInv'
  <1> DEFINE m == [mig[p] EXCEPT !.phase = "mark", !.inst = nodes[mig[p].from].inst]
  <1>1. /\ mig[p] \in Migration /\ nodes \in [Node -> ClusterNode]
        /\ MigrationOK(mig[p], work[p]) /\ mig[p].phase = "listed"
    BY DEF DrainInv, DrainTypeOK, TypeOK, DrainGet
  <1>2. nodes[mig[p].from].inst \in Proc \cup {NoProc}
    BY <1>1 DEF MigrationOK, ClusterNode
  <1>3. m \in Migration /\ m.phase = "mark" /\ m.from = mig[p].from
    BY <1>1, <1>2 DEF Migration
  <1>4. mig' = [mig EXCEPT ![p] = m]
    BY DEF DrainGet
  <1>5. MigrationOK(m, work[p]) /\ ~Holds(mig[p], work[p])
    BY <1>1, <1>3 DEF MigrationOK, Holds
  <1> HIDE DEF m
  <1> QED
    BY <1>1, <1>3, <1>4, <1>5, MigrationMoves DEF DrainGet

\* A migration that is over holds nothing and asks for nothing.
LEMMA FinishedOK ==
  ASSUME DrainInv, NEW p \in Proc
  PROVE  /\ NoMigration \in Migration
         /\ MigrationOK(NoMigration, work[p])
         /\ \A t : ~Holds(NoMigration, t)
  BY DrainTypeFacts DEF DrainInv, MigrationOK, NoMigration, Holds

LEMMA DrainMarkInv ==
  ASSUME DrainInv, NEW p \in Proc, DrainMark(p)
  PROVE  DrainInv'
  <1> DEFINE m == [mig[p] EXCEPT !.phase = "marked", !.inst = NoProc]
  <1>1. /\ mig[p] \in Migration /\ nodes \in [Node -> ClusterNode]
        /\ MigrationOK(mig[p], work[p]) /\ mig[p].phase = "mark"
    BY DEF DrainInv, DrainTypeOK, TypeOK, DrainMark
  <1>2. nodes' \in [Node -> ClusterNode]
    <2>1. mig[p].from \in Node /\ nodes[mig[p].from] \in ClusterNode
      BY <1>1 DEF MigrationOK
    <2>2. [nodes[mig[p].from] EXCEPT !.draining = TRUE] \in ClusterNode
      BY <2>1, Zenon DEF ClusterNode
    <2> QED
      BY <1>1, <2>2 DEF DrainMark
  <1>3. m \in Migration /\ m.phase = "marked" /\ m.from = mig[p].from
    BY <1>1 DEF Migration
  <1>4. ~Holds(mig[p], work[p])
    BY <1>1 DEF Holds
  <1>5. MigrationOK(m, work[p])
    BY <1>1, <1>3 DEF MigrationOK
  <1>6. CASE mig' = [mig EXCEPT ![p].phase = "marked", ![p].inst = NoProc]
    <2>1. mig' = [mig EXCEPT ![p] = m]
      BY <1>6
    <2> HIDE DEF m
    <2> QED
      BY <1>2, <1>3, <1>4, <1>5, <2>1, MigrationMoves DEF DrainMark
  <1>7. CASE Finish(p)
    BY <1>2, <1>4, <1>7, FinishedOK, MigrationMoves DEF DrainMark, Finish
  <1> QED
    BY <1>6, <1>7 DEF DrainMark

\* migrate_device reads the owner it is going to clear.
LEMMA MigrateReadInv ==
  ASSUME DrainInv, NEW p \in Proc, MigrateRead(p)
  PROVE  DrainInv'
  <1> DEFINE m == [mig[p] EXCEPT !.phase = IF row = NoOwner THEN "assign" ELSE "clear", !.prev = row]
  <1>1. /\ mig[p] \in Migration /\ nodes \in [Node -> ClusterNode] /\ row \in OwnerInfo
        /\ MigrationOK(mig[p], work[p]) /\ mig[p].phase = "marked"
    BY DEF DrainInv, DrainTypeOK, TypeOK, MigrateRead
  <1>2. /\ m \in Migration /\ m.phase = (IF row = NoOwner THEN "assign" ELSE "clear")
        /\ m.from = mig[p].from /\ m.prev = row
    BY <1>1 DEF Migration
  <1>3. ~Holds(mig[p], work[p])
    BY <1>1 DEF Holds
  <1>4. MigrationOK(m, work[p])
    BY <1>1, <1>2 DEF MigrationOK
  <1>5. \/ mig' = [mig EXCEPT ![p] = m]
        \/ Finish(p)
    BY DEF MigrateRead
  <1> HIDE DEF m
  <1>6. CASE mig' = [mig EXCEPT ![p] = m]
    BY <1>1, <1>2, <1>3, <1>4, <1>6, MigrationMoves DEF MigrateRead
  <1>7. CASE Finish(p)
    BY <1>1, <1>3, <1>7, FinishedOK, MigrationMoves DEF MigrateRead, Finish
  <1> QED
    BY <1>5, <1>6, <1>7

\* OwnerRepository::clear: the migration that removes the owner holds it.
LEMMA MigrateClearInv ==
  ASSUME DrainInv, NEW p \in Proc, MigrateClear(p)
  PROVE  DrainInv'
  <1> DEFINE m == [mig[p] EXCEPT !.phase = "assign"]
  <1>1. /\ mig[p] \in Migration /\ mig \in [Proc -> Migration]
        /\ MigrationOK(mig[p], work[p]) /\ mig[p].phase = "clear"
    BY DEF DrainInv, DrainTypeOK, TypeOK, MigrateClear
  <1>2. m \in Migration /\ m.phase = "assign" /\ m.from = mig[p].from /\ m.prev = mig[p].prev
    BY <1>1 DEF Migration
  <1>3. mig' = [mig EXCEPT ![p] = m]
    BY DEF MigrateClear
  <1>4. MigrationOK(m, work[p]) /\ Holds(m, work[p])
    BY <1>1, <1>2 DEF MigrationOK, Holds
  <1> HIDE DEF m
  <1>5. mig'[p] = m /\ mig' \in [Proc -> Migration] /\ \A q \in Proc \ {p} : mig'[q] = mig[q]
    BY <1>1, <1>2, <1>3
  <1>6. DrainTypeOK'
    BY <1>5, DrainTypeFacts, Zenon
       DEF DrainInv, DrainTypeOK, TypeOK, MigrateClear, Remember
  <1>7. Orphaned' /\ row = NoOwner => Orphaned
    BY Remembered DEF MigrateClear
  <1> QED
    BY <1>4, <1>5, <1>6, <1>7, ProcessStep DEF MigrateClear

\* Fallback puts back an owner where there was one.
LEMMA FallbackOK ==
  ASSUME DrainInv, NEW p \in Proc, Fallback(p), Migrating(p), NEW t, t.seen = NoOwner
  PROVE  /\ mig' \in [Proc -> Migration]
         /\ \A q \in Proc \ {p} : mig'[q] = mig[q]
         /\ MigrationOK(mig'[p], t)
         /\ mig[p].prev # NoOwner => Holds(mig'[p], t)
  <1> DEFINE m == [mig[p] EXCEPT !.phase = "restore"]
  <1>1. mig[p] \in Migration /\ mig \in [Proc -> Migration] /\ MigrationOK(mig[p], work[p])
    BY DEF DrainInv, DrainTypeOK
  <1>2. m \in Migration /\ m.phase = "restore" /\ m.from = mig[p].from /\ m.prev = mig[p].prev
    BY <1>1 DEF Migration
  <1>3. CASE mig[p].prev = NoOwner
    <2>1. mig' = [mig EXCEPT ![p] = NoMigration] /\ NoMigration \in Migration
      BY <1>3, FinishedOK DEF Fallback, Finish
    <2>2. MigrationOK(NoMigration, t)
      BY DEF MigrationOK, NoMigration
    <2> QED
      BY <1>1, <1>3, <2>1, <2>2
  <1>4. CASE mig[p].prev # NoOwner
    <2>1. mig' = [mig EXCEPT ![p] = m]
      BY <1>4 DEF Fallback
    <2>2. MigrationOK(m, t) /\ Holds(m, t)
      BY <1>1, <1>2, <1>4 DEF MigrationOK, Holds, Migrating
    <2> HIDE DEF m
    <2> QED
      BY <1>1, <1>2, <2>1, <2>2
  <1> QED
    BY <1>3, <1>4

\* The upsert leaves an owner where there was one and gives one where there was
\* none.
LEMMA UpsertGives ==
  ASSUME DrainTypeOK, NEW n \in Node \cup {NoNode}, NEW now \in Nat, Upsert(n, now)
  PROVE  row' \in OwnerInfo /\ row' # NoOwner
  <1>1. CASE UNCHANGED row /\ ~Acquirable(n, now)
    BY <1>1, DrainTypeFacts DEF Acquirable, NoOwner
  <1>2. CASE Grant(n, now)
    BY <1>2, DrainTypeFacts, OwnershipAssumption DEF Grant, OwnerInfo, NoOwner
  <1> QED
    BY <1>1, <1>2 DEF Upsert

\* The assignment of a migration: it reads, keeps, selects, upserts or refuses.
LEMMA MigrateAssignInv ==
  ASSUME DrainInv, NEW p \in Proc, MigrateAssign(p)
  PROVE  DrainInv'
  <1>1. /\ mig[p] \in Migration /\ mig \in [Proc -> Migration] /\ work \in [Proc -> Task]
        /\ MigrationOK(mig[p], work[p]) /\ mig[p].phase = "assign" /\ work[p] \in Task
        /\ DrainTypeOK
    BY DEF DrainInv, DrainTypeOK, TypeOK, MigrateAssign
  <1>2. Remember
    BY DEF MigrateAssign
  <1>3. Orphaned' /\ row = NoOwner => Orphaned
    BY <1>2, Remembered
  <1>a. ASSUME row' \in OwnerInfo
        PROVE  last' \in OwnerInfo /\ lost' \in BOOLEAN
    BY <1>1, <1>2, <1>a, Zenon DEF Remember, DrainTypeOK
  <1>b. Idle \in Task /\ NoMigration \in Migration /\ Idle.seen = NoOwner
    BY <1>1, DrainTypeFacts DEF Idle
  <1>4. CASE AssignRead(p) /\ UNCHANGED mig
    <2> DEFINE t == [kind |-> "assign", now |-> clock, seen |-> row, cand |-> NoNode]
    <2>1. t \in Task /\ t.seen = row /\ t.kind = "assign"
      BY <1>1, DrainTypeFacts DEF Task
    <2>2. work' = [work EXCEPT ![p] = t] /\ UNCHANGED <<clock, nodes, up, row, session, mig>>
      BY <1>4 DEF AssignRead
    <2> HIDE DEF t
    <2>3. work' \in [Proc -> Task] /\ work'[p] = t /\ \A q \in Proc \ {p} : work'[q] = work[q]
      BY <1>1, <2>1, <2>2
    <2>4. DrainTypeOK'
      BY <1>1, <1>a, <2>2, <2>3 DEF DrainTypeOK, TypeOK
    <2>5. MigrationOK(mig'[p], work'[p])
      BY <1>1, <2>1, <2>2, <2>3 DEF MigrationOK
    <2>6. Orphaned /\ Holds(mig[p], work[p]) => Holds(mig'[p], work'[p])
      BY <2>1, <2>2, <2>3 DEF Holds, Orphaned
    <2>7. ~(Orphaned' /\ row # NoOwner)
      BY <2>2 DEF Orphaned
    <2> QED
      BY <1>3, <2>2, <2>3, <2>4, <2>5, <2>6, <2>7, ProcessStep
  <1>5. ASSUME NEW c \in Node, AssignSelect(p, c), UNCHANGED mig
        PROVE  DrainInv'
    <2> DEFINE t == [work[p] EXCEPT !.kind = "acquire", !.seen = NoOwner, !.cand = c]
    <2>1. t \in Task /\ t.seen = NoOwner /\ t.kind = "acquire"
      BY <1>1, DrainTypeFacts DEF Task
    <2>2. work' = [work EXCEPT ![p] = t] /\ UNCHANGED <<clock, nodes, up, row, session, mig>>
      BY <1>5 DEF AssignSelect
    <2> HIDE DEF t
    <2>3. work' \in [Proc -> Task] /\ work'[p] = t /\ \A q \in Proc \ {p} : work'[q] = work[q]
      BY <1>1, <2>1, <2>2
    <2>4. DrainTypeOK'
      BY <1>1, <1>a, <2>2, <2>3 DEF DrainTypeOK, TypeOK
    <2>5. MigrationOK(mig'[p], work'[p])
      BY <1>1, <2>1, <2>2, <2>3 DEF MigrationOK
    <2>6. Holds(mig[p], work[p]) => Holds(mig'[p], work'[p])
      BY <2>1, <2>2, <2>3 DEF Holds
    <2>7. ~(Orphaned' /\ row # NoOwner)
      BY <2>2 DEF Orphaned
    <2> QED
      BY <1>3, <2>2, <2>3, <2>4, <2>5, <2>6, <2>7, ProcessStep
  <1>6. CASE AssignKeep(p) /\ Finish(p)
    <2>1. ~Holds(mig[p], work[p])
      BY <1>1, <1>6 DEF AssignKeep, Keeps, Holds, NoOwner
    <2>2. /\ work' = [work EXCEPT ![p] = Idle] /\ UNCHANGED <<clock, nodes, up, row, session>>
          /\ mig' = [mig EXCEPT ![p] = NoMigration]
      BY <1>6 DEF AssignKeep, Finish
    <2>3. /\ work' \in [Proc -> Task] /\ mig' \in [Proc -> Migration]
          /\ work'[p] = Idle /\ mig'[p] = NoMigration
          /\ \A q \in Proc \ {p} : work'[q] = work[q] /\ mig'[q] = mig[q]
      BY <1>1, <1>b, <2>2
    <2>4. DrainTypeOK'
      BY <1>1, <1>a, <2>2, <2>3 DEF DrainTypeOK, TypeOK
    <2>5. MigrationOK(mig'[p], work'[p])
      BY <1>b, <2>3 DEF MigrationOK, NoMigration
    <2>6. ~(Orphaned' /\ row # NoOwner)
      BY <2>2 DEF Orphaned
    <2> QED
      BY <1>3, <2>1, <2>3, <2>4, <2>5, <2>6, ProcessStep
  <1>7. CASE AcquireRow(p) /\ mig' = [mig EXCEPT ![p].phase = "confirm"]
    <2> DEFINE m == [mig[p] EXCEPT !.phase = "confirm"]
    <2>1. m \in Migration /\ m.phase = "confirm" /\ m.from = mig[p].from
      BY <1>1 DEF Migration
    <2>2. /\ work' = [work EXCEPT ![p] = Idle] /\ UNCHANGED <<clock, nodes, up, session>>
          /\ mig' = [mig EXCEPT ![p] = m]
      BY <1>7 DEF AcquireRow
    <2>3. row' \in OwnerInfo /\ row' # NoOwner
      BY <1>1, <1>7, DrainTypeFacts, UpsertGives DEF AcquireRow
    <2> HIDE DEF m
    <2>4. /\ work' \in [Proc -> Task] /\ mig' \in [Proc -> Migration]
          /\ work'[p] = Idle /\ mig'[p] = m
          /\ \A q \in Proc \ {p} : work'[q] = work[q] /\ mig'[q] = mig[q]
      BY <1>1, <1>b, <2>1, <2>2
    <2>5. DrainTypeOK'
      BY <1>1, <1>a, <2>2, <2>3, <2>4 DEF DrainTypeOK, TypeOK
    <2>6. MigrationOK(mig'[p], work'[p])
      BY <1>1, <1>b, <2>1, <2>4 DEF MigrationOK
    <2>7. ~Orphaned'
      BY <2>3 DEF Orphaned
    <2> QED
      BY <2>4, <2>5, <2>6, <2>7, ProcessStep
  <1>8. CASE /\ work' = [work EXCEPT ![p] = Idle] /\ UNCHANGED <<clock, nodes, up, row, session>>
             /\ Fallback(p)
    <2>1. work' = [work EXCEPT ![p] = Idle] /\ UNCHANGED <<clock, nodes, up, row, session>>
      BY <1>8
    <2>2. /\ work' \in [Proc -> Task] /\ work'[p] = Idle
          /\ \A q \in Proc \ {p} : work'[q] = work[q]
      BY <1>1, <1>b, <2>1
    <2>3. /\ mig' \in [Proc -> Migration]
          /\ \A q \in Proc \ {p} : mig'[q] = mig[q]
          /\ MigrationOK(mig'[p], Idle)
          /\ mig[p].prev # NoOwner => Holds(mig'[p], Idle)
      BY <1>1, <1>8, <1>b, FallbackOK DEF Migrating
    <2>4. DrainTypeOK'
      BY <1>1, <1>a, <2>1, <2>2, <2>3 DEF DrainTypeOK, TypeOK
    <2>5. ~(Orphaned' /\ row # NoOwner)
      BY <2>1 DEF Orphaned
    <2>6. Holds(mig[p], work[p]) => mig[p].prev # NoOwner
      BY DEF Holds
    <2> QED
      BY <1>3, <2>2, <2>3, <2>4, <2>5, <2>6, ProcessStep
  <1>9. CASE AcquireRow(p) /\ Fallback(p)
    <2>1. work' = [work EXCEPT ![p] = Idle] /\ UNCHANGED <<clock, nodes, up, session>>
      BY <1>9 DEF AcquireRow
    <2>2. row' \in OwnerInfo /\ row' # NoOwner
      BY <1>1, <1>9, DrainTypeFacts, UpsertGives DEF AcquireRow
    <2>3. /\ work' \in [Proc -> Task] /\ work'[p] = Idle
          /\ \A q \in Proc \ {p} : work'[q] = work[q]
      BY <1>1, <1>b, <2>1
    <2>4. /\ mig' \in [Proc -> Migration]
          /\ \A q \in Proc \ {p} : mig'[q] = mig[q]
          /\ MigrationOK(mig'[p], Idle)
      BY <1>1, <1>9, <1>b, FallbackOK DEF Migrating
    <2>5. DrainTypeOK'
      BY <1>1, <1>a, <2>1, <2>2, <2>3, <2>4 DEF DrainTypeOK, TypeOK
    <2>6. ~Orphaned'
      BY <2>2 DEF Orphaned
    <2> QED
      BY <2>3, <2>4, <2>5, <2>6, ProcessStep
  <1> QED
    BY <1>4, <1>5, <1>6, <1>7, <1>8, <1>9 DEF MigrateAssign, AssignRefuse, AssignFails

\* The row is read back after the upsert.
LEMMA MigrateConfirmInv ==
  ASSUME DrainInv, NEW p \in Proc, MigrateConfirm(p)
  PROVE  DrainInv'
  <1>1. /\ mig[p].phase = "confirm" /\ mig \in [Proc -> Migration] /\ work \in [Proc -> Task]
        /\ UNCHANGED <<clock, nodes, up, row, work, session, last, lost>>
    BY DEF DrainInv, DrainTypeOK, TypeOK, MigrateConfirm
  <1>2. CASE row # NoOwner /\ Finish(p)
    <2>1. mig' = [mig EXCEPT ![p] = NoMigration] /\ ~Orphaned
      BY <1>2 DEF Finish, Orphaned
    <2>2. nodes' \in [Node -> ClusterNode]
      BY <1>1 DEF DrainInv, DrainTypeOK, TypeOK
    <2> QED
      BY <1>1, <2>1, <2>2, FinishedOK, MigrationMoves
  <1>3. CASE Fallback(p)
    <2> DEFINE m == [mig[p] EXCEPT !.phase = "restore"]
    <2>2. m \in Migration /\ m.phase = "restore" /\ m.from = mig[p].from /\ m.prev = mig[p].prev
      BY <1>1 DEF Migration
    <2>3. MigrationOK(mig[p], work[p]) /\ nodes' \in [Node -> ClusterNode]
      BY <1>1 DEF DrainInv, DrainTypeOK, TypeOK
    <2>4. CASE mig[p].prev = NoOwner
      <3>1. mig' = [mig EXCEPT ![p] = NoMigration] /\ ~Holds(mig[p], work[p])
        BY <1>3, <2>4 DEF Fallback, Finish, Holds
      <3> QED
        BY <1>1, <2>3, <3>1, FinishedOK, MigrationMoves
    <2>5. CASE mig[p].prev # NoOwner
      <3>1. mig' = [mig EXCEPT ![p] = m]
        BY <1>3, <2>5 DEF Fallback
      <3>2. MigrationOK(m, work[p]) /\ Holds(m, work[p])
        BY <1>1, <2>2, <2>3, <2>5 DEF MigrationOK, Holds
      <3> HIDE DEF m
      <3> QED
        BY <1>1, <2>2, <2>3, <3>1, <3>2, MigrationMoves
    <2> QED
      BY <2>4, <2>5
  <1> QED
    BY <1>2, <1>3 DEF MigrateConfirm

\* OwnerRepository::set puts an owner back.
LEMMA MigrateRestoreInv ==
  ASSUME DrainInv, NEW p \in Proc, MigrateRestore(p)
  PROVE  DrainInv'
  <1>1. row' = mig[p].prev /\ row' # NoOwner /\ row' \in OwnerInfo
    BY DrainTypeFacts DEF DrainInv, MigrationOK, MigrateRestore
  <1>2. mig' = [mig EXCEPT ![p] = NoMigration] /\ UNCHANGED <<clock, nodes, up, work, session>>
    BY DEF MigrateRestore, Finish
  <1>3. /\ mig' \in [Proc -> Migration] /\ mig'[p] = NoMigration
        /\ \A q \in Proc \ {p} : mig'[q] = mig[q]
    BY <1>2, FinishedOK DEF DrainInv, DrainTypeOK
  <1>4. DrainTypeOK'
    BY <1>1, <1>2, <1>3, Zenon DEF DrainInv, DrainTypeOK, TypeOK, MigrateRestore, Remember
  <1>5. MigrationOK(mig'[p], work'[p])
    BY <1>2, <1>3, FinishedOK
  <1>6. ~Orphaned'
    BY <1>1 DEF Orphaned
  <1> QED
    BY <1>2, <1>3, <1>4, <1>5, <1>6, ProcessStep

-----------------------------------------------------------------------------
\* The storage fails before anything was cleared.
LEMMA MigrateFailsInv ==
  ASSUME DrainInv, NEW p \in Proc, MigrateFails(p)
  PROVE  DrainInv'
  <1>1. nodes' \in [Node -> ClusterNode] /\ ~Holds(mig[p], work[p])
    BY DEF DrainInv, DrainTypeOK, TypeOK, MigrateFails, Holds
  <1>2. /\ mig' = [mig EXCEPT ![p] = NoMigration]
        /\ UNCHANGED <<clock, up, row, work, session, last, lost>>
    BY DEF MigrateFails, Finish
  <1> QED
    BY <1>1, <1>2, FinishedOK, MigrationMoves

\* The two errors after which the device may be left without an owner.
LEMMA MigrateLosesInv ==
  ASSUME DrainInv, NEW p \in Proc, MigrateClearUnsure(p) \/ MigrateRestoreFails(p)
  PROVE  DrainInv'
  <1>1. /\ mig' = [mig EXCEPT ![p] = NoMigration]
        /\ UNCHANGED <<clock, nodes, up, work, session, last>>
        /\ row' = NoOwner \/ row' = row
        /\ row' = NoOwner => lost' = TRUE
        /\ lost' \in BOOLEAN
    BY Zenon DEF MigrateClearUnsure, MigrateRestoreFails, Finish, DrainInv, DrainTypeOK
  <1>2. /\ mig' \in [Proc -> Migration] /\ mig'[p] = NoMigration
        /\ \A q \in Proc \ {p} : mig'[q] = mig[q]
    BY <1>1, FinishedOK DEF DrainInv, DrainTypeOK
  <1>3. row' \in OwnerInfo
    BY <1>1, DrainTypeFacts DEF DrainInv
  <1>4. DrainTypeOK'
    BY <1>1, <1>2, <1>3, Zenon DEF DrainInv, DrainTypeOK, TypeOK
  <1>5. MigrationOK(mig'[p], work'[p])
    BY <1>1, <1>2, FinishedOK
  <1>6. ~Orphaned'
    BY <1>1 DEF Orphaned
  <1> QED
    BY <1>1, <1>2, <1>4, <1>5, <1>6, ProcessStep

\* OwnerLeaseService::release removes the owner on purpose.
LEMMA ReleaseInv ==
  ASSUME DrainInv, NEW p \in Proc, Release(p)
  PROVE  DrainInv'
  <1>1. /\ row' = NoOwner /\ lost' = TRUE /\ UNCHANGED <<clock, nodes, up, work, mig, last>>
        /\ session' = [session EXCEPT ![p] = 0]
    BY DEF Release
  <1>2. session' \in [Proc -> Nat]
    BY <1>1 DEF DrainInv, DrainTypeOK, TypeOK
  <1>3. DrainTypeOK'
    BY <1>1, <1>2, DrainTypeFacts DEF DrainInv, DrainTypeOK, TypeOK
  <1>4. ~Orphaned'
    BY <1>1 DEF Orphaned
  <1>5. MigrationOK(mig'[p], work'[p])
    BY <1>1 DEF DrainInv
  <1> QED
    BY <1>1, <1>3, <1>4, <1>5, ProcessStep

\* A process ends, perhaps in the middle of a migration.
LEMMA StopInv ==
  ASSUME DrainInv, NEW p \in Proc, Stop(p)
  PROVE  DrainInv'
  <1>1. /\ UNCHANGED <<clock, row, last>> /\ work' = [work EXCEPT ![p] = Idle]
        /\ mig' = [mig EXCEPT ![p] = NoMigration]
        /\ lost' = (lost \/ (row = NoOwner /\ Migrating(p)))
    BY DEF Stop, Shutdown, Exit, Finish
  <1>2. /\ mig' \in [Proc -> Migration] /\ work' \in [Proc -> Task]
        /\ mig'[p] = NoMigration /\ work'[p] = Idle
        /\ \A q \in Proc \ {p} : mig'[q] = mig[q] /\ work'[q] = work[q]
    BY <1>1, DrainTypeFacts DEF DrainInv, DrainTypeOK, TypeOK
  <1>3. up' \in [Proc -> {"new", "up", "draining", "dead"}] /\ session' \in [Proc -> Nat]
    BY DEF DrainInv, DrainTypeOK, TypeOK, Stop, Shutdown, Exit
  <1>4. nodes' \in [Node -> ClusterNode]
    <2>1. NodeOf[p] \in Node /\ nodes[NodeOf[p]] \in ClusterNode
      BY DrainTypeFacts DEF DrainInv
    <2>2. [nodes[NodeOf[p]] EXCEPT !.draining = TRUE] \in ClusterNode
      BY <2>1, Zenon DEF ClusterNode
    <2> QED
      BY <2>1, <2>2 DEF DrainInv, DrainTypeOK, TypeOK, Stop, Shutdown, Exit
  <1>5. DrainTypeOK'
    <2>1. TypeOK'
      BY <1>1, <1>2, <1>3, <1>4 DEF DrainInv, DrainTypeOK, TypeOK
    <2>2. last' \in OwnerInfo /\ lost' \in BOOLEAN
      BY <1>1, Zenon DEF DrainInv, DrainTypeOK
    <2> QED
      BY <1>2, <2>1, <2>2 DEF DrainTypeOK
  <1>6. MigrationOK(mig'[p], work'[p])
    BY <1>2 DEF MigrationOK, NoMigration, Idle
  <1>7. Orphaned' => Orphaned /\ ~Migrating(p)
    BY <1>1 DEF Orphaned
  <1>8. Orphaned' /\ row # NoOwner => FALSE
    BY <1>1 DEF Orphaned
  <1>9. Holds(mig[p], work[p]) => Migrating(p)
    BY DEF Holds, Migrating
  <1> QED
    BY <1>2, <1>5, <1>6, <1>7, <1>8, <1>9, ProcessStep

\* Steps of the lease protocol that give no owner away.
LEMMA LeaseInv ==
  ASSUME DrainInv, NEW p \in Proc, Lease(p)
  PROVE  DrainInv'
  <1>1. DrainTypeOK /\ Remember /\ UNCHANGED mig /\ MigrationOK(mig[p], work[p])
    BY DEF DrainInv, Lease
  <1>2. Orphaned' /\ row = NoOwner => Orphaned
    BY <1>1, Remembered
  <1>3. ASSUME row' \in OwnerInfo
        PROVE  last' \in OwnerInfo /\ lost' \in BOOLEAN
    BY <1>1, <1>3, Zenon DEF Remember, DrainTypeOK
  <1>4. CASE Register(p) \/ Heartbeat(p)
    <2>1. UNCHANGED <<clock, row, work, session>>
      BY <1>4 DEF Register, Heartbeat
    <2>2. NodeOf[p] \in Node /\ clock + NodeTtl \in Nat /\ nodes[NodeOf[p]] \in ClusterNode
      BY <1>1, DrainTypeFacts, OwnershipAssumption
    <2>3. nodes' \in [Node -> ClusterNode]
      <3>1. CASE Register(p)
        BY <1>1, <2>2, <3>1 DEF Register, DrainTypeOK, TypeOK, ClusterNode
      <3>2. CASE Heartbeat(p)
        <4>1. [nodes[NodeOf[p]] EXCEPT !.lease = clock + NodeTtl] \in ClusterNode
          BY <2>2 DEF ClusterNode
        <4> QED
          BY <1>1, <2>2, <3>2, <4>1 DEF Heartbeat, DrainTypeOK, TypeOK
      <3> QED
        BY <1>4, <3>1, <3>2
    <2>4. DrainTypeOK'
      BY <1>1, <1>3, <1>4, <2>1, <2>3 DEF DrainTypeOK, TypeOK, Register, Heartbeat
    <2>5. ~(Orphaned' /\ row # NoOwner)
      BY <2>1 DEF Orphaned
    <2> QED
      BY <1>1, <1>2, <2>1, <2>4, <2>5, ProcessStep
  <1>5. CASE Renew(p)
    <2>1. row \in OwnerInfo /\ clock + LeaseTtl \in Nat /\ NodeOf[p] \in Node
      BY <1>1, DrainTypeFacts, OwnershipAssumption
    <2>2. UNCHANGED <<clock, nodes, up, work, session>> /\ row.node = NodeOf[p]
      BY <1>5 DEF Renew
    <2>3. row' \in OwnerInfo /\ row'.node = NodeOf[p]
      BY <1>5, <2>1, <2>2 DEF Renew, OwnerInfo
    <2>4. DrainTypeOK'
      BY <1>1, <1>3, <2>2, <2>3 DEF DrainTypeOK, TypeOK
    <2>5. ~Orphaned'
      BY <2>1, <2>3, OwnershipAssumption DEF Orphaned, NoOwner
    <2> QED
      BY <1>1, <2>2, <2>4, <2>5, ProcessStep
  <1>6. CASE mig[p].phase = "idle" /\ TakeoverRead(p)
    <2> DEFINE t == [kind |-> "takeover", now |-> clock, seen |-> row, cand |-> NodeOf[p]]
    <2>1. t \in Task /\ t.kind = "takeover"
      BY <1>1, DrainTypeFacts DEF Task
    <2>2. work' = [work EXCEPT ![p] = t] /\ UNCHANGED <<clock, nodes, up, row, session>>
      BY <1>6 DEF TakeoverRead
    <2> HIDE DEF t
    <2>3. work' \in [Proc -> Task] /\ work'[p] = t /\ \A q \in Proc \ {p} : work'[q] = work[q]
      BY <1>1, <2>1, <2>2 DEF DrainTypeOK, TypeOK
    <2>4. DrainTypeOK'
      BY <1>1, <1>3, <2>2, <2>3 DEF DrainTypeOK, TypeOK
    <2>5. MigrationOK(mig'[p], work'[p]) /\ ~Holds(mig[p], work[p])
      BY <1>1, <1>6, <2>1, <2>3 DEF MigrationOK, Holds
    <2>6. ~(Orphaned' /\ row # NoOwner)
      BY <2>2 DEF Orphaned
    <2> QED
      BY <1>1, <1>2, <2>3, <2>4, <2>5, <2>6, ProcessStep
  <1> QED
    BY <1>4, <1>5, <1>6 DEF Lease

\* A takeover that grants the row ends the orphan; one that does not changes
\* nothing a migration relies on.
LEMMA TakeoverInv ==
  ASSUME DrainInv, NEW p \in Proc, Takeover(p)
  PROVE  DrainInv'
  <1>1. DrainTypeOK /\ Remember /\ UNCHANGED mig /\ MigrationOK(mig[p], work[p])
    BY DEF DrainInv, Takeover
  <1>2. Orphaned' /\ row = NoOwner => Orphaned
    BY <1>1, Remembered
  <1>3. work' = [work EXCEPT ![p] = Idle] /\ UNCHANGED <<clock, nodes, up>>
    BY DEF Takeover, TakeoverAcquire
  <1>4. work' \in [Proc -> Task] /\ work'[p] = Idle /\ \A q \in Proc \ {p} : work'[q] = work[q]
    BY <1>1, <1>3, DrainTypeFacts DEF DrainTypeOK, TypeOK
  <1>5. row' \in OwnerInfo /\ (row # NoOwner => row' # NoOwner)
    <2>1. CASE UNCHANGED row
      BY <1>1, <2>1, DrainTypeFacts
    <2>2. CASE Upsert(NodeOf[p], work[p].now)
      BY <1>1, <2>2, DrainTypeFacts, UpsertGives
    <2> QED
      BY <2>1, <2>2 DEF Takeover, TakeoverAcquire
  <1>6. session' \in [Proc -> Nat]
    <2>1. session \in [Proc -> Nat] /\ row.epoch + 1 \in Nat
      BY <1>1, DrainTypeFacts DEF DrainTypeOK, TypeOK
    <2>2. session' = session \/ session' = [session EXCEPT ![p] = row.epoch + 1]
      BY DEF Takeover, TakeoverAcquire
    <2> QED
      BY <2>1, <2>2
  <1>7. DrainTypeOK'
    <2>1. TypeOK'
      BY <1>1, <1>3, <1>4, <1>5, <1>6 DEF DrainTypeOK, TypeOK
    <2>2. last' \in OwnerInfo /\ lost' \in BOOLEAN
      BY <1>1, <1>5, Zenon DEF Remember, DrainTypeOK
    <2> QED
      BY <1>1, <2>1, <2>2 DEF DrainTypeOK
  <1>8. MigrationOK(mig'[p], work'[p])
    BY <1>1, <1>4 DEF MigrationOK, Idle
  <1>9. Holds(mig[p], work[p]) => Holds(mig'[p], work'[p])
    BY <1>1, <1>4 DEF Holds, Idle
  <1>10. ~(Orphaned' /\ row # NoOwner)
    BY <1>5 DEF Orphaned
  <1> QED
    BY <1>1, <1>2, <1>4, <1>7, <1>8, <1>9, <1>10, ProcessStep

-----------------------------------------------------------------------------
\* Every step preserves the invariant.
LEMMA DrainNextInv == DrainInv /\ [DrainNext]_drainVars => DrainInv'
  <1> SUFFICES ASSUME DrainInv, [DrainNext]_drainVars PROVE DrainInv'
    OBVIOUS
  <1>1. CASE UNCHANGED drainVars
    BY <1>1 DEF drainVars, DrainInv, DrainTypeOK, TypeOK, OrphanHeld, Orphaned
  <1>2. CASE Tick /\ UNCHANGED <<mig, last, lost>>
    <2>1. clock' \in Nat /\ UNCHANGED <<nodes, up, row, work, session, mig, last, lost>>
      BY <1>2, DrainTypeFacts DEF DrainInv, Tick
    <2> QED
      BY <2>1 DEF DrainInv, DrainTypeOK, TypeOK, OrphanHeld, Orphaned
  <1>3. ASSUME NEW p \in Proc, DrainStep(p)
        PROVE  DrainInv'
    BY <1>3, DrainListInv, DrainGetInv, DrainMarkInv, MigrateReadInv, MigrateClearInv,
       MigrateAssignInv, MigrateConfirmInv, MigrateRestoreInv, MigrateFailsInv, MigrateLosesInv
       DEF DrainStep
  <1> QED
    BY <1>1, <1>2, <1>3, LeaseInv, TakeoverInv, ReleaseInv, StopInv DEF DrainNext

LEMMA DrainInvariance == DrainSpec => []DrainInv
  BY DrainInitInv, DrainNextInv, PTL DEF DrainSpec

\* However many peers migrate the device at once, wherever their steps fall
\* between one another's and whichever statement of an assignment fails, a device
\* without an owner that had one is in the hands of a migration that will assign it
\* or put the owner back (migrate_device), unless it was released, a process ended
\* half way, or the storage failed to put the owner back or after it removed it.
THEOREM DrainKeepsDevice == DrainSpec => []NoDeviceLeftBehind
  <1>1. DrainInv => NoDeviceLeftBehind
    BY DEF DrainInv, OrphanHeld, Orphaned, Holds, NoDeviceLeftBehind, Migrating
  <1> QED
    BY <1>1, DrainInvariance, PTL
=============================================================================
