--------------------------- MODULE DrainMigration ---------------------------
(***************************************************************************)
(* Draining: every process periodically moves the device off peers that    *)
(* are marked draining. The owner row is cleared, the device is assigned   *)
(* again and, when that fails, the previous owner is put back. These are   *)
(* separate statements; other processes act in between. This module adds   *)
(* the steps that remove the owner row to the lease protocol of Ownership. *)
(***************************************************************************)
EXTENDS Ownership

CONSTANTS
  Releasing,   \* the processes that may release the device
  Failing      \* the processes whose statements may fail

ASSUME DrainAssumption == Releasing \subseteq Proc /\ Failing \subseteq Proc

VARIABLES
  mig,   \* the migration each process is executing
  last,  \* history: the last owner the row named
  lost   \* history: the row was removed by a release, or by a migration that was
         \* interrupted or whose storage failed when it put the owner back

drainVars == <<clock, nodes, up, row, work, session, mig, last, lost>>

\* The phases of drain_node and migrate_device and what was read before.
Migration == [phase : {"idle", "listed", "mark", "marked", "clear", "assign", "confirm", "restore"},
              from : Node \cup {NoNode}, inst : Proc \cup {NoProc}, prev : OwnerInfo]

NoMigration == [phase |-> "idle", from |-> NoNode, inst |-> NoProc, prev |-> NoOwner]

\* The history variables after a step.
Remember ==
  /\ last' = IF row' = NoOwner THEN last ELSE row'
  /\ lost' = (lost /\ row' = NoOwner)

Finish(p) == mig' = [mig EXCEPT ![p] = NoMigration]

-----------------------------------------------------------------------------
\* drain_expired_nodes finds a live draining peer in its snapshot of the nodes.
DrainList(p, n) ==
  /\ CanStart(p) /\ mig[p].phase = "idle"
  /\ n # NodeOf[p] /\ NodeAlive(n, clock) /\ nodes[n].draining
  /\ mig' = [mig EXCEPT ![p].phase = "listed", ![p].from = n]
  /\ UNCHANGED <<clock, nodes, up, row, work, session, last, lost>>

\* drain_node reads the node again: whatever instance is registered by now ...
DrainGet(p) ==
  /\ mig[p].phase = "listed"
  /\ mig' = [mig EXCEPT ![p].phase = "mark", ![p].inst = nodes[mig[p].from].inst]
  /\ UNCHANGED <<clock, nodes, up, row, work, session, last, lost>>

\* ... is marked draining, unless yet another one has registered. The devices of
\* the node are listed and migrated, those of a known protocol.
DrainMark(p) ==
  LET n == mig[p].from
      fenced == nodes[n].inst # mig[p].inst
  IN  /\ mig[p].phase = "mark"
      /\ nodes' = IF fenced THEN nodes ELSE [nodes EXCEPT ![n].draining = TRUE]
      /\ \/ /\ ~fenced /\ row.node = n
            /\ mig' = [mig EXCEPT ![p].phase = "marked", ![p].inst = NoProc]
         \/ Finish(p)
      /\ UNCHANGED <<clock, up, row, work, session, last, lost>>

\* migrate_device reads the node and the owner. A node that is no longer
\* draining, or another owner, ends the migration.
MigrateRead(p) ==
  LET n == mig[p].from
  IN  /\ mig[p].phase = "marked"
      /\ IF ~nodes[n].draining \/ (row.epoch > 0 /\ row.node # n)
         THEN Finish(p)
         ELSE mig' = [mig EXCEPT ![p].phase = IF row = NoOwner THEN "assign"
                                              ELSE "clear",
                                 ![p].prev = row]
      /\ UNCHANGED <<clock, nodes, up, row, work, session, last, lost>>

\* The storage fails before the row is cleared: the migration ends with an error.
MigrateFails(p) ==
  /\ p \in Failing
  /\ mig[p].phase \in {"listed", "mark", "marked", "clear"}
  /\ Finish(p)
  /\ UNCHANGED <<clock, nodes, up, row, work, session, last, lost>>

\* The error of a clear that took effect: nobody puts the owner back.
MigrateClearUnsure(p) ==
  /\ p \in Failing
  /\ mig[p].phase = "clear"
  /\ row' = NoOwner
  /\ Finish(p)
  /\ lost' = TRUE
  /\ UNCHANGED <<clock, nodes, up, work, session, last>>

\* OwnerRepository::clear deletes the row, whoever owns the device by now.
MigrateClear(p) ==
  /\ mig[p].phase = "clear"
  /\ row' = NoOwner
  /\ mig' = [mig EXCEPT ![p].phase = "assign"]
  /\ Remember
  /\ UNCHANGED <<clock, nodes, up, work, session>>

\* Mutant: the previous owner is not put back.
FallbackForgets(p) == Finish(p)

\* Assignment failed: the previous owner, if there was one, is put back.
Fallback(p) ==
  IF mig[p].prev = NoOwner THEN Finish(p)
                           ELSE mig' = [mig EXCEPT ![p].phase = "restore"]

\* A statement of assign fails, the upsert perhaps after it took effect.
AssignFails(p) ==
  /\ p \in Failing
  /\ \/ AcquireRow(p)
     \/ /\ work' = [work EXCEPT ![p] = Idle]
        /\ UNCHANGED <<clock, nodes, up, row, session>>

\* The steps of DeviceAssignmentService::assign. The owner it keeps ends the
\* migration; after the upsert the row is read back.
MigrateAssign(p) ==
  /\ mig[p].phase = "assign"
  /\ \/ AssignRead(p) /\ UNCHANGED mig
     \/ (\E c \in Node : AssignSelect(p, c)) /\ UNCHANGED mig
     \/ AssignKeep(p) /\ Finish(p)
     \/ AcquireRow(p) /\ mig' = [mig EXCEPT ![p].phase = "confirm"]
     \/ (AssignRefuse(p) \/ AssignFails(p)) /\ Fallback(p)
  /\ Remember

\* Any owner found after the upsert is the result, won or lost; a row that
\* another migration has deleted in between is an error, as is a failed read.
MigrateConfirm(p) ==
  /\ mig[p].phase = "confirm"
  /\ \/ row # NoOwner /\ Finish(p)
     \/ (row = NoOwner \/ p \in Failing) /\ Fallback(p)
  /\ UNCHANGED <<clock, nodes, up, row, work, session, last, lost>>

\* OwnerRepository::set writes the previous owner back, over any other.
MigrateRestore(p) ==
  /\ mig[p].phase = "restore"
  /\ row' = mig[p].prev
  /\ Finish(p)
  /\ Remember
  /\ UNCHANGED <<clock, nodes, up, work, session>>

\* set fails: the error is logged, and nobody tries again.
MigrateRestoreFails(p) ==
  /\ p \in Failing
  /\ mig[p].phase = "restore"
  /\ Finish(p)
  /\ lost' = (lost \/ row = NoOwner)
  /\ UNCHANGED <<clock, nodes, up, row, work, session, last>>

\* OwnerLeaseService::release deletes the row of this node and epoch.
Release(p) ==
  /\ Running(p) /\ p \in Releasing
  /\ session[p] > 0
  /\ row.node = NodeOf[p] /\ row.epoch = session[p]
  /\ row' = NoOwner
  /\ session' = [session EXCEPT ![p] = 0]
  /\ lost' = TRUE
  /\ UNCHANGED <<clock, nodes, up, work, mig, last>>

\* A migration that has cleared the row and not yet put an owner back.
Migrating(p) == mig[p].phase \in {"assign", "confirm", "restore"}

\* A process that stops leaves its migration as it is.
Stop(p) ==
  /\ Shutdown(p) \/ Exit(p)
  /\ Finish(p)
  /\ lost' = (lost \/ (row = NoOwner /\ Migrating(p)))
  /\ UNCHANGED last

\* The lease protocol of the processes, next to the migrations. Reconciling the
\* sessions only reads the row and is left to Ownership.
Lease(p) ==
  /\ \/ Register(p) \/ Heartbeat(p) \/ Renew(p)
     \/ mig[p].phase = "idle" /\ TakeoverRead(p)
  /\ Remember
  /\ UNCHANGED mig

Takeover(p) ==
  /\ TakeoverAcquire(p)
  /\ Remember
  /\ UNCHANGED mig

DrainStep(p) ==
  \/ \E n \in Node : DrainList(p, n)
  \/ DrainGet(p) \/ DrainMark(p) \/ MigrateRead(p) \/ MigrateClear(p)
  \/ MigrateAssign(p) \/ MigrateConfirm(p) \/ MigrateRestore(p)
  \/ MigrateFails(p) \/ MigrateClearUnsure(p) \/ MigrateRestoreFails(p)

DrainInit == Init /\ mig = [p \in Proc |-> NoMigration] /\ last = NoOwner /\ lost = FALSE

DrainNext ==
  \/ Tick /\ UNCHANGED <<mig, last, lost>>
  \/ \E p \in Proc : Lease(p) \/ Takeover(p) \/ DrainStep(p) \/ Release(p) \/ Stop(p)

\* The steps of a migration or a takeover follow one another in one task: they
\* happen unless the process stops.
DrainSpec ==
  /\ DrainInit
  /\ [][DrainNext]_drainVars
  /\ \A p \in Proc : /\ WF_drainVars(mig[p].phase # "idle" /\ DrainStep(p))
                     /\ WF_drainVars(Takeover(p))

-----------------------------------------------------------------------------
\* Properties.

\* A failed reassignment never leaves a device behind: a device that had an
\* owner and has none is in the hands of a migration that goes on to assign it or
\* to put the owner back. The exceptions are those in which nothing is left that
\* could: the device was released, the process of the migration stopped half way,
\* or the storage refused to take the previous owner back (rolling_upgrade.rs only
\* logs that) or failed after it had removed it.
NoDeviceLeftBehind ==
  last # NoOwner /\ row = NoOwner /\ ~lost => \E p \in Proc : Migrating(p)

\* A device that a migration took from its owner gets an owner again, whatever the
\* concurrent migrations of other peers do and whichever statement of an
\* assignment fails, or ends up as one of those exceptions.
ClearedDeviceIsRehomed ==
  (last # NoOwner /\ row = NoOwner /\ ~lost) ~> (row # NoOwner \/ lost)

\* Claim of runbooks/owner_jitter.md: the epochs of a device increase; a change
\* of the owning node takes an epoch above the previous owner's.
OwnerEpochIncreases ==
  [][row' # NoOwner /\ row'.node # last.node => row'.epoch > last.epoch]_drainVars
=============================================================================
