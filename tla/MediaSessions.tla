--------------------------- MODULE MediaSessions ---------------------------
(***************************************************************************)
(* One media session from its start to its end. API calls start, stop and  *)
(* control it, media nodes report what happened to it, and reconciliation  *)
(* passes, periodic ones and ones an operator asked for, repair it.        *)
(*                                                                         *)
(* An action is one transaction, one call of a media node or one call of   *)
(* the scheduler: other actors run in between. A pass works on the copies  *)
(* it read in its first transaction; a save is a compare-and-swap on the   *)
(* revision.                                                               *)
(***************************************************************************)
EXTENDS MediaNodes, Sequences

CONSTANTS
  Pass,       \* reconciliation passes that may run at the same time
  NoBinding,  \* absence of a binding
  MaxRequests \* bound on the API calls

ASSUME MediaSessionsAssumption ==
  /\ NoBinding \notin Binding
  /\ MaxRequests \in Nat

VARIABLES
  ses,     \* the row of the session
  bnd,     \* the rows of its bindings
  ops,     \* status of the operation of each kind of command
  api,     \* progress of the API call of each kind
  pass,    \* progress of each reconciliation pass
  evs,     \* events of each media node, in order
  sub,     \* epoch each event stream was opened with, 0: no stream
  pos,     \* sequence of each node the consumer has in memory
  cursor   \* persisted sequence of each node

dbVars == <<ses, bnd, ops>>

evVars == <<evs, sub, pos, cursor>>

mediaVars == <<nodeVars, dbVars, api, pass, evVars>>

-----------------------------------------------------------------------------
\* The aggregates.

SessionEnd == {"Stopped", "Failed"}

SessionState == {"none", "Allocating", "Inviting", "Active", "Stopping"} \cup SessionEnd

BindingEnd == {"Released", "Failed"}

BindingState == {"none", "Reserved", "Active", "NeedsVerification", "Releasing"} \cup BindingEnd

Session == [st : SessionState, stop : BOOLEAN, rev : Nat]

BindingRow == [st : BindingState, rev : Nat, node : Node \cup {NoNode}, ep : Nat]

NoSession == [st |-> "none", stop |-> FALSE, rev |-> 0]

NoBindingRow == [st |-> "none", rev |-> 0, node |-> NoNode, ep |-> 0]

SEnded(s) == s.st \in SessionEnd

BLive(r) == r.st \notin {"none"} \cup BindingEnd

Live == {b \in Binding : BLive(bnd[b])}

\* MediaSession::allowed_transition.
SNext(from) ==
  CASE from = "Allocating" -> {"Inviting"} \cup SessionEnd
    [] from = "Inviting"   -> {"Active"} \cup SessionEnd
    [] from = "Active"     -> {"Stopping"} \cup SessionEnd
    [] from = "Stopping"   -> SessionEnd
    [] OTHER -> {}

\* MediaBinding::allowed_transition.
BNext(from) ==
  CASE from = "Reserved" -> {"Active", "NeedsVerification", "Releasing", "Failed"}
    [] from = "Active" -> {"NeedsVerification", "Releasing", "Failed"}
    [] from = "NeedsVerification" -> {"Active", "Releasing", "Failed"}
    [] from = "Releasing" -> BindingEnd
    [] OTHER -> {}

\* transition_to, one revision each.
STo(s, st) == [s EXCEPT !.st = st, !.rev = @ + 1]

BTo(r, st) == [r EXCEPT !.st = st, !.rev = @ + 1]

\* MediaSession::stop: an active session stops by way of Stopping.
StopOf(s) == [STo(s, IF s.st = "Active" THEN "Stopping" ELSE "Stopped") EXCEPT !.stop = TRUE]

\* The walks of a settled command, one transition after the other.
Through(s) == CASE s.st = "Allocating" -> STo(STo(s, "Inviting"), "Active")
                [] s.st = "Inviting" -> STo(s, "Active")
                [] OTHER -> s

StoppedOf(s) == CASE SEnded(s) -> s
                  [] s.st = "Active" -> [STo(STo(s, "Stopping"), "Stopped") EXCEPT !.stop = TRUE]
                  [] OTHER -> STo(s, "Stopped")

FailedOf(s) == IF SEnded(s) THEN s ELSE STo(s, "Failed")

BFailedOf(r) == IF BLive(r) THEN BTo(r, "Failed") ELSE r

ReleasingOf(r) == IF BLive(r) /\ r.st # "Releasing" THEN BTo(r, "Releasing") ELSE r

ReleasedOf(r) == IF BLive(r) THEN BTo(ReleasingOf(r), "Released") ELSE r

\* Mutant: the update of the session has no WHERE clause.
SavesAnyway(s) == TRUE

\* Saves one transition at a time: UPDATE ... WHERE revision = new revision - 1.
SavesS(s) == ses.rev = s.rev

SavesB(b, r) == bnd[b].rev = r.rev

Result == {"Completed", "Accepted", "Unknown", "Failed"}

OpEnd == {"Succeeded", "Failed", "TimedOut"}

OpStatus == {"none", "Pending", "Running"} \cup OpEnd

Ended(k) == ops[k] \in OpEnd

-----------------------------------------------------------------------------
\* The media node behind a command: MediaPort::execute and its client.

\* The port refuses a node it does not know and an epoch that is not current.
Reachable(n, ep) == View(n).status # "Absent" /\ View(n).ep = ep

\* The client retries; after a timeout nobody knows whether the node acted, and
\* a transport error is a failure although the node may have acted.
StartOn(n, ep, res) ==
  \/ ~Reachable(n, ep) /\ res = "Failed" /\ UNCHANGED running
  \/ /\ Reachable(n, ep)
     /\ running' \in {[running EXCEPT ![n] = ep],
                      [running EXCEPT ![n] = IF res = "Completed" THEN ep ELSE @]}

StopOn(n, ep, res) ==
  \/ ~Reachable(n, ep) /\ res = "Failed" /\ UNCHANGED running
  \/ /\ Reachable(n, ep)
     /\ running' \in {[running EXCEPT ![n] = 0],
                      [running EXCEPT ![n] = IF res = "Completed" THEN 0 ELSE @]}

-----------------------------------------------------------------------------
\* API calls.

Kind == {"start", "stop", "control"}

Call == [pc : {"idle", "schedule", "reserve", "persist", "drop", "begin", "exec", "settle", "done"},
         b : Binding \cup {NoBinding}, node : Node \cup {NoNode}, ep : Nat,
         res : Result, tried : SUBSET Node]

NoCall == [pc |-> "idle", b |-> NoBinding, node |-> NoNode, ep |-> 0, res |-> "Failed",
           tried |-> {}]

Held == {api[k].b : k \in Kind} \cup {pass[r].b : r \in Pass} \cup {pass[r].nb : r \in Pass}

\* A generated identity is one nobody uses.
Unused == {b \in Binding : bnd[b].st = "none" /\ sched.at[b] = NoNode /\ b \notin Held}

Fresh(b) == b \in Unused /\ \A c \in Unused : b <= c

Goto(k, pc) == api' = [api EXCEPT ![k] = IF pc = "done" THEN [NoCall EXCEPT !.pc = pc]
                                        ELSE [@ EXCEPT !.pc = pc]]

\* The bound on API calls.
MayAsk == Cardinality({k \in Kind : api[k].pc # "idle"}) < MaxRequests

\* start_*: the owner is resolved and the binding named; nothing is stored yet.
StartRequest ==
  /\ MayAsk /\ api["start"].pc = "idle" /\ ses.st = "none"
  /\ \E b \in Binding :
       /\ Fresh(b)
       /\ api' = [api EXCEPT !["start"] = [NoCall EXCEPT !.pc = "schedule", !.b = b]]
  /\ UNCHANGED <<nodeVars, dbVars, pass, evVars>>

StartLive == StartRequest

StartPlayback == StartRequest

StartTalk == StartRequest

StartBroadcast == StartRequest

\* One round of reserve in port.rs, up to the call of the registry. The limit of
\* the scheduler is for all sessions, so others may have used it up; it excludes
\* the node like the node's own limit.
StartSchedule ==
  LET c == api["start"]
  IN  /\ c.pc = "schedule"
      /\ reg' = Evicted
      /\ \/ \E n \in Candidates(c.tried) :
              /\ LimitReached
              /\ api' = [api EXCEPT !["start"].tried = @ \cup {n}]
              /\ UNCHANGED sched
         \/ \E n \in Candidates(c.tried) :
              /\ ~Full
              /\ api' = [api EXCEPT !["start"] = [c EXCEPT !.pc = "reserve", !.node = n,
                                                         !.ep = reg[n].node.ep]]
              /\ ReserveLocal(c.b, n)
              /\ UNCHANGED faults
         \/ /\ Candidates(c.tried) = {}
            /\ Goto("start", "done")
            /\ UNCHANGED <<faults, sched>>
      /\ UNCHANGED <<boot, running, row, late, dbVars, pass, evVars>>

\* The registry answers; a node that refuses is excluded from the next round.
StartReserve ==
  LET c == api["start"]
  IN  /\ c.pc = "reserve"
      /\ \E ok \in BOOLEAN :
           /\ ReserveRemote(c.b, c.node, ok)
           /\ api' = [api EXCEPT !["start"] =
                        IF ok THEN [c EXCEPT !.pc = "persist", !.tried = {}]
                        ELSE [c EXCEPT !.pc = "schedule", !.tried = @ \cup {c.node}]]
      /\ UNCHANGED <<boot, running, row, late, faults, dbVars, pass, evVars>>

\* persist_start_resources: operation, session and binding in one transaction,
\* or an error after which the reservation is given back.
StartPersist ==
  LET c == api["start"]
  IN  /\ c.pc = "persist"
      /\ \/ /\ Goto("start", "begin")
            /\ ses' = [ses EXCEPT !.st = "Allocating", !.rev = 1]
            /\ bnd' = [bnd EXCEPT ![c.b] = [st |-> "Reserved", rev |-> 0,
                                           node |-> c.node, ep |-> c.ep]]
            /\ ops' = [ops EXCEPT !["start"] = "Pending"]
         \/ Goto("start", "drop") /\ UNCHANGED dbVars
      /\ UNCHANGED <<nodeVars, pass, evVars>>

\* stop_live: the user's wish is stored before the media node hears of it.
StopRequest ==
  /\ MayAsk /\ api["stop"].pc = "idle" /\ ses.st # "none"
  /\ \/ /\ SEnded(ses)
        /\ ops' = [ops EXCEPT !["stop"] = "Succeeded"]
        /\ Goto("stop", "done")
        /\ UNCHANGED <<ses, bnd>>
     \/ /\ ~SEnded(ses)
        /\ \E b \in Live :
             api' = [api EXCEPT !["stop"] = [NoCall EXCEPT !.pc = "begin", !.b = b,
                                           !.node = bnd[b].node, !.ep = bnd[b].ep]]
        /\ ses' = StopOf(ses)
        /\ ops' = [ops EXCEPT !["stop"] = "Pending"]
        /\ UNCHANGED bnd
  /\ UNCHANGED <<nodeVars, pass, evVars>>

\* control_playback, of a session that was started for playback; the model does
\* not keep the purpose of a session, and so any may be one.
ControlRequest ==
  /\ MayAsk /\ api["control"].pc = "idle" /\ ses.st = "Active"
  /\ \E b \in Live :
       api' = [api EXCEPT !["control"] = [NoCall EXCEPT !.pc = "begin", !.b = b,
                                           !.node = bnd[b].node, !.ep = bnd[b].ep]]
  /\ ops' = [ops EXCEPT !["control"] = "Pending"]
  /\ UNCHANGED <<nodeVars, ses, bnd, pass, evVars>>

\* execute_media_command, first half: the operation is Running before the call.
Begin(k) ==
  /\ api[k].pc = "begin"
  /\ IF Ended(k) THEN Goto(k, "done") /\ UNCHANGED ops
     ELSE Goto(k, "exec") /\ ops' = [ops EXCEPT ![k] = "Running"]
  /\ UNCHANGED <<nodeVars, ses, bnd, pass, evVars>>

\* Second half: the call itself.
Exec(k) ==
  LET c == api[k]
  IN  /\ c.pc = "exec"
      /\ \E res \in Result :
           /\ api' = [api EXCEPT ![k].pc = "settle", ![k].res = res]
           /\ CASE k = "start" -> StartOn(c.node, c.ep, res)
                [] k = "stop" -> StopOn(c.node, c.ep, res)
                [] OTHER -> UNCHANGED running
      /\ UNCHANGED <<boot, row, reg, late, faults, sched, dbVars, pass, evVars>>

\* The transaction that ends a command is rolled back as a whole when one of
\* its transitions is refused.
RolledBack(k, ok) == ~ok /\ Goto(k, "done") /\ UNCHANGED dbVars

\* dispatch_media_command after the call.
StartSettle ==
  LET c == api["start"]
      r == bnd[c.b]
      begun == ses.st = "Allocating" /\ "Active" \in BNext(r.st)
      open == ~SEnded(ses) /\ BLive(r) /\ ~Ended("start")
  IN  /\ c.pc = "settle"
      /\ CASE c.res = "Completed" ->
                \/ RolledBack("start", begun /\ ~Ended("start"))
                \/ /\ begun /\ ~Ended("start")
                   /\ ses' = Through(ses)
                   /\ bnd' = [bnd EXCEPT ![c.b] = BTo(r, "Active")]
                   /\ ops' = [ops EXCEPT !["start"] = "Succeeded"]
                   /\ Goto("start", "done")
           [] c.res \in {"Accepted", "Unknown"} ->
                \/ RolledBack("start", begun)
                \/ /\ begun
                   /\ ses' = STo(ses, "Inviting")
                   /\ bnd' = [bnd EXCEPT ![c.b] = BTo(r, "Active")]
                   /\ Goto("start", "done")
                   /\ UNCHANGED ops
           [] OTHER ->
                \/ RolledBack("start", open)
                \/ /\ open
                   /\ ses' = FailedOf(ses)
                   /\ bnd' = [bnd EXCEPT ![c.b] = BFailedOf(r)]
                   /\ ops' = [ops EXCEPT !["start"] = "Failed"]
                   /\ Goto("start", "drop")
      /\ UNCHANGED <<nodeVars, pass, evVars>>

\* dispatch_stop_command after the call.
StopSettle ==
  LET c == api["stop"]
      r == bnd[c.b]
      half == ~SEnded(ses) /\ ses.st # "Stopping"
  IN  /\ c.pc = "settle"
      /\ CASE c.res = "Completed" ->
                \/ RolledBack("stop", ~Ended("stop"))
                \/ /\ ~Ended("stop")
                   /\ ses' = StoppedOf(ses)
                   /\ bnd' = [bnd EXCEPT ![c.b] = ReleasedOf(r)]
                   /\ ops' = [ops EXCEPT !["stop"] = "Succeeded"]
                   /\ Goto("stop", "drop")
           [] c.res \in {"Accepted", "Unknown"} ->
                /\ ses' = IF half THEN StopOf(ses) ELSE ses
                /\ bnd' = [bnd EXCEPT ![c.b] = ReleasingOf(r)]
                /\ Goto("stop", IF c.res = "Unknown" THEN "drop" ELSE "done")
                /\ UNCHANGED ops
           [] OTHER ->
                \/ RolledBack("stop", ~Ended("stop") /\ ~SEnded(ses) /\ BLive(r))
                \/ /\ ~Ended("stop") /\ ~SEnded(ses) /\ BLive(r)
                   /\ ses' = FailedOf(ses)
                   /\ bnd' = [bnd EXCEPT ![c.b] = BFailedOf(r)]
                   /\ ops' = [ops EXCEPT !["stop"] = "Failed"]
                   /\ Goto("stop", "drop")
      /\ UNCHANGED <<nodeVars, pass, evVars>>

\* dispatch_control_command after the call.
ControlSettle ==
  /\ api["control"].pc = "settle"
  /\ Goto("control", "done")
  /\ ops' = IF Ended("control") THEN ops
            ELSE CASE api["control"].res = "Completed" -> [ops EXCEPT !["control"] = "Succeeded"]
                   [] api["control"].res = "Failed" -> [ops EXCEPT !["control"] = "Failed"]
                   [] OTHER -> ops
  /\ UNCHANGED <<nodeVars, ses, bnd, pass, evVars>>

\* The release after the transaction; its error is only logged.
Drop(k) ==
  /\ api[k].pc = "drop"
  /\ Release(api[k].b)
  /\ Goto(k, "done")
  /\ UNCHANGED <<boot, running, row, late, faults, dbVars, pass, evVars>>

\* A deadline or a cancellation ends an operation, whatever its command does.
TimeOut(k) ==
  /\ Fault
  /\ ops[k] \in {"Pending", "Running"}
  /\ ops' = [ops EXCEPT ![k] = "TimedOut"]
  /\ UNCHANGED <<boot, running, row, reg, late, sched, ses, bnd, api, pass, evVars>>

-----------------------------------------------------------------------------
\* reconcile: one pass, over copies of the session and its binding.

PassPc == {"idle", "orphan", "list", "lookup", "migrate", "schedule", "reserve", "bump", "create",
           "begin", "exec", "settle", "dropnew", "dropold"}

PassState == [pc : PassPc, s : Session, b : Binding \cup {NoBinding}, br : BindingRow,
              nb : Binding \cup {NoBinding}, node : Node \cup {NoNode}, ep : Nat,
              res : Result, op : OpStatus, tried : SUBSET Node]

NoPass == [pc |-> "idle", s |-> NoSession, b |-> NoBinding, br |-> NoBindingRow,
           nb |-> NoBinding, node |-> NoNode, ep |-> 0, res |-> "Failed", op |-> "none",
           tried |-> {}]

\* What a pass does not need any more is forgotten.
Step(r, pc) ==
  pass' = [pass EXCEPT ![r] =
             CASE pc = "dropold" -> [NoPass EXCEPT !.pc = pc, !.b = pass[r].b]
               [] pc = "dropnew" -> [NoPass EXCEPT !.pc = pc, !.b = pass[r].b, !.nb = pass[r].nb]
               [] OTHER -> [@ EXCEPT !.pc = pc]]

\* `?` in reconcile: the error ends the pass and its transaction.
Abort(r) == pass' = [pass EXCEPT ![r] = NoPass] /\ UNCHANGED dbVars

\* The newest live binding, as get_by_media_session picks it.
Newest == CHOOSE b \in Live : \A c \in Live : c <= b

\* First transaction: what nobody wants any more is released at once, the rest
\* is copied.
PassScan(r) ==
  /\ pass[r].pc = "idle" /\ ses.st # "none"
  /\ Live # {} \/ \E n \in Node : running[n] # 0
  /\ \/ /\ Live = {}
        /\ Step(r, "orphan")
        /\ UNCHANGED dbVars
     \/ /\ Live # {}
        /\ LET b == Newest
               copy == [NoPass EXCEPT !.s = ses, !.b = b, !.br = bnd[b]]
           IN  IF ses.stop \/ SEnded(ses)
               THEN /\ ses' = IF SEnded(ses) THEN ses ELSE StopOf(ses)
                    /\ bnd' = [bnd EXCEPT ![b] = ReleasedOf(bnd[b])]
                    /\ pass' = [pass EXCEPT ![r] = [NoPass EXCEPT !.pc = "orphan", !.b = b]]
                    /\ UNCHANGED ops
               ELSE /\ pass' = [pass EXCEPT ![r] = [copy EXCEPT !.pc = "list"]]
                    /\ UNCHANGED dbVars
  /\ UNCHANGED <<nodeVars, api, evVars>>

\* A scanned node reports the session although the copies have it nowhere or on
\* another node: stop_orphan_session.
PassOrphan(r, n) ==
  /\ pass[r].pc \in {"orphan", "list"}
  /\ pass[r].pc = "list" => n # pass[r].br.node
  /\ n \in Listed /\ reg[n].node.status # "Left" /\ running[n] # 0
  /\ \E res \in Result : StopOn(n, running[n], res)
  /\ UNCHANGED <<boot, row, reg, late, faults, sched, dbVars, api, pass, evVars>>

PassOrphansDone(r) ==
  /\ pass[r].pc = "orphan"
  /\ \/ pass[r].b # NoBinding /\ Step(r, "dropold")
     \/ Abort(r)
  /\ UNCHANGED <<nodeVars, dbVars, api, evVars>>

\* fail_session on the copies.
FailSession(r) ==
  LET p == pass[r]
  IN  \/ /\ SavesS(p.s) /\ SavesB(p.b, p.br)
         /\ ses' = FailedOf(p.s)
         /\ bnd' = [bnd EXCEPT ![p.b] = BFailedOf(p.br)]
         /\ Step(r, "dropold")
         /\ UNCHANGED ops
      \/ ~(SavesS(p.s) /\ SavesB(p.b, p.br)) /\ Abort(r)

\* converge_active on a copy and a binding; the session is saved only when it
\* moves, the binding likewise.
Converges(s, b, r) ==
  /\ s.st \in {"Allocating", "Inviting", "Active"}
  /\ Through(s) # s => SavesS(s)
  /\ r.st \in {"Reserved", "NeedsVerification"} => SavesB(b, r)

Converged(r) == IF r.st \in {"Reserved", "NeedsVerification"} THEN BTo(r, "Active") ELSE r

\* The nodes list_nodes returned, each asked for its sessions.
PassList(r) ==
  LET p == pass[r]
      n == p.br.node
      v == reg[n].node
  IN  /\ p.pc = "list"
      /\ reg' = Evicted
      /\ \/ n \notin Listed /\ Step(r, "lookup") /\ UNCHANGED dbVars
         \/ n \in Listed /\ v.status = "Left" /\ Abort(r)
         \/ n \in Listed /\ v.status # "Left" /\ Abort(r)
         \/ n \in Listed /\ v.status = "Draining" /\ Step(r, "migrate") /\ UNCHANGED dbVars
         \/ /\ n \in Listed /\ v.status = "Active"
            /\ CASE running[n] = 0 -> Step(r, "migrate") /\ UNCHANGED dbVars
                 [] running[n] # 0 /\ running[n] # p.br.ep -> FailSession(r)
                 [] OTHER ->
                      IF Converges(p.s, p.b, p.br)
                      THEN /\ ses' = IF Through(p.s) # p.s THEN Through(p.s) ELSE ses
                           /\ bnd' = IF Converged(p.br) # p.br
                                     THEN [bnd EXCEPT ![p.b] = Converged(p.br)] ELSE bnd
                           /\ pass' = [pass EXCEPT ![r] = NoPass]
                           /\ UNCHANGED ops
                      ELSE Abort(r)
      /\ UNCHANGED <<boot, running, row, late, faults, sched, api, evVars>>

\* A node that is not listed, by classify_inactive_node: gone when the registry
\* has lost it, to be verified when its health is bad (any report may say so).
PassLookup(r) ==
  LET p == pass[r]
      v == View(p.br.node)
  IN  /\ p.pc = "lookup"
      /\ \/ v.status = "Absent" /\ Step(r, "migrate") /\ UNCHANGED dbVars
         \/ v.status # "Absent" /\ Abort(r)
         \/ /\ v.status \in {"Active", "Draining"}
            /\ IF p.s.st = "Active" /\ p.br.st = "Active"
               THEN /\ SavesB(p.b, p.br)
                    /\ bnd' = [bnd EXCEPT ![p.b] = BTo(p.br, "NeedsVerification")]
                    /\ pass' = [pass EXCEPT ![r] = NoPass]
                    /\ UNCHANGED <<ses, ops>>
               ELSE Step(r, "migrate") /\ UNCHANGED dbVars
      /\ UNCHANGED <<nodeVars, api, evVars>>

\* migrate_or_fail: the device is not ready, or a new binding is named.
PassMigrate(r) ==
  /\ pass[r].pc = "migrate"
  /\ \/ FailSession(r)
     \/ /\ \E b \in Binding :
             /\ Fresh(b)
             /\ pass' = [pass EXCEPT ![r].pc = "schedule", ![r].nb = b]
        /\ UNCHANGED dbVars
  /\ UNCHANGED <<nodeVars, api, evVars>>

\* The same rounds as those of StartSchedule; without a node the session fails.
PassSchedule(r) ==
  LET p == pass[r]
  IN  /\ p.pc = "schedule"
      /\ reg' = Evicted
      /\ \/ \E n \in Candidates(p.tried) :
              /\ LimitReached
              /\ pass' = [pass EXCEPT ![r].tried = @ \cup {n}]
              /\ UNCHANGED <<sched, dbVars>>
         \/ \E n \in Candidates(p.tried) :
              /\ ~Full
              /\ pass' = [pass EXCEPT ![r] = [p EXCEPT !.pc = "reserve", !.node = n,
                                                     !.ep = reg[n].node.ep]]
              /\ ReserveLocal(p.nb, n)
              /\ UNCHANGED <<faults, dbVars>>
         \/ /\ Candidates(p.tried) = {}
            /\ FailSession(r)
            /\ UNCHANGED <<faults, sched>>
      /\ UNCHANGED <<boot, running, row, late, api, evVars>>

PassReserve(r) ==
  LET p == pass[r]
  IN  /\ p.pc = "reserve"
      /\ \E ok \in BOOLEAN :
           /\ ReserveRemote(p.nb, p.node, ok)
           /\ pass' = [pass EXCEPT ![r] =
                         IF ok THEN [p EXCEPT !.pc = "bump", !.tried = {}]
                         ELSE [p EXCEPT !.pc = "schedule", !.tried = @ \cup {p.node}]]
      /\ UNCHANGED <<boot, running, row, late, faults, dbVars, api, evVars>>

\* bump_generation, a transaction of its own.
PassBump(r) ==
  LET p == pass[r]
      s == [p.s EXCEPT !.rev = @ + 1]
  IN  /\ p.pc = "bump"
      /\ \/ /\ SavesS(p.s)
            /\ ses' = s
            /\ pass' = [pass EXCEPT ![r].pc = "create", ![r].s = s]
            /\ UNCHANGED <<bnd, ops>>
         \/ ~SavesS(p.s) /\ Abort(r)
      /\ UNCHANGED <<nodeVars, api, evVars>>

\* Mutant: the old binding is left as it is.
CreateKeepsOld(r) ==
  LET p == pass[r]
  IN  /\ p.pc = "create"
      /\ bnd' = [bnd EXCEPT ![p.nb] = [st |-> "Reserved", rev |-> 0,
                                       node |-> p.node, ep |-> p.ep]]
      /\ pass' = [pass EXCEPT ![r].pc = "begin", ![r].op = "Pending"]
      /\ UNCHANGED <<nodeVars, ses, ops, api, evVars>>

\* dispatch_reconnect_command: the old binding fails, the new one is reserved.
\* Another save of the old binding in between ends the attempt here.
PassCreate(r) ==
  LET p == pass[r]
  IN  /\ p.pc = "create"
      /\ \/ /\ SavesB(p.b, p.br)
            /\ bnd' = [bnd EXCEPT ![p.b] = BFailedOf(p.br),
                                  ![p.nb] = [st |-> "Reserved", rev |-> 0,
                                             node |-> p.node, ep |-> p.ep]]
            /\ pass' = [pass EXCEPT ![r].pc = "begin", ![r].op = "Pending"]
            /\ UNCHANGED <<ses, ops>>
         \/ ~SavesB(p.b, p.br) /\ Step(r, "dropold") /\ UNCHANGED dbVars
      /\ UNCHANGED <<nodeVars, api, evVars>>

PassBegin(r) ==
  /\ pass[r].pc = "begin"
  /\ IF pass[r].op \in OpEnd THEN Step(r, "dropnew")
     ELSE pass' = [pass EXCEPT ![r].pc = "exec", ![r].op = "Running"]
  /\ UNCHANGED <<nodeVars, dbVars, api, evVars>>

PassExec(r) ==
  LET p == pass[r]
  IN  /\ p.pc = "exec"
      /\ \E res \in Result :
           /\ pass' = [pass EXCEPT ![r].pc = "settle", ![r].res = res]
           /\ StartOn(p.node, p.ep, res)
      /\ UNCHANGED <<boot, row, reg, late, faults, sched, dbVars, api, evVars>>

PassTimeOut(r) ==
  /\ Fault
  /\ pass[r].op \in {"Pending", "Running"}
  /\ pass' = [pass EXCEPT ![r].op = "TimedOut"]
  /\ UNCHANGED <<boot, running, row, reg, late, sched, dbVars, api, evVars>>

\* After the call, on the copies: what was saved before an error is committed.
\* The operation ends with its command unless it ended before; nobody reads it
\* after the pass.
PassSettle(r) ==
  LET p == pass[r]
      new == [st |-> "Reserved", rev |-> 0, node |-> p.node, ep |-> p.ep]
      moves == Through(p.s) # p.s
      sOk == p.s.st \in {"Allocating", "Inviting", "Active"} /\ (moves => SavesS(p.s))
      bOk == SavesB(p.nb, new)
  IN  /\ p.pc = "settle"
      /\ IF p.res # "Failed"
         THEN /\ ses' = IF sOk /\ moves THEN Through(p.s) ELSE ses
              /\ bnd' = IF sOk /\ bOk THEN [bnd EXCEPT ![p.nb] = BTo(new, "Active")] ELSE bnd
              /\ Step(r, IF sOk /\ bOk THEN "dropold" ELSE "dropnew")
         ELSE /\ bnd' = IF bOk THEN [bnd EXCEPT ![p.nb] = BTo(new, "Failed")] ELSE bnd
              /\ ses' = IF bOk /\ SavesS(p.s) THEN FailedOf(p.s) ELSE ses
              /\ Step(r, IF bOk /\ SavesS(p.s) /\ p.op \notin OpEnd THEN "dropnew" ELSE "dropold")
      /\ UNCHANGED <<nodeVars, ops, api, evVars>>

\* The releases after the transactions; their errors are only logged.
PassDropNew(r) ==
  /\ pass[r].pc = "dropnew"
  /\ Release(pass[r].nb)
  /\ Step(r, "dropold")
  /\ UNCHANGED <<boot, running, row, late, faults, dbVars, api, evVars>>

PassDropOld(r) ==
  /\ pass[r].pc = "dropold"
  /\ Release(pass[r].b)
  /\ pass' = [pass EXCEPT ![r] = NoPass]
  /\ UNCHANGED <<boot, running, row, late, faults, dbVars, api, evVars>>

\* force_cleanup_node: an operator ends what a node reports.
CleanupNode(r, n) ==
  /\ Fault
  /\ pass[r].pc = "idle" /\ n \in Listed /\ running[n] # 0
  /\ Live # {}
  /\ LET b == Newest
     IN  /\ bnd[b].node = n /\ bnd[b].ep = running[n]
         /\ ses' = FailedOf(ses)
         /\ bnd' = [bnd EXCEPT ![b] = BFailedOf(bnd[b])]
         /\ pass' = [pass EXCEPT ![r].pc = "dropold", ![r].b = b]
  /\ UNCHANGED <<boot, running, row, reg, late, sched, ops, api, evVars>>

PassStep(r) ==
  \/ PassScan(r) \/ PassOrphansDone(r) \/ PassList(r) \/ PassLookup(r) \/ PassMigrate(r)
  \/ PassSchedule(r) \/ PassReserve(r) \/ PassBump(r) \/ PassCreate(r) \/ PassBegin(r) \/ PassExec(r) \/ PassSettle(r)
  \/ PassDropNew(r) \/ PassDropOld(r)

-----------------------------------------------------------------------------
\* Events of the media nodes and MediaEventConsumer.

EventKind == {"Started", "Stopped", "Failed"}

Event == [kind : EventKind, b : Binding \cup {NoBinding}, ep : Nat, srev : Nat, brev : Nat,
          op : {"none", "start"}, seen : BOOLEAN]

\* An event with a processed-message record; the rest of it matters no more.
Seen == [kind |-> "Started", b |-> NoBinding, ep |-> 0, srev |-> 0, brev |-> 0,
         op |-> "none", seen |-> TRUE]

\* A node reports on its stream with the revisions of the moment, with or
\* without the operation that started it (the node is external).
Emit(n) ==
  /\ Fault
  /\ running[n] # 0
  /\ \E k \in EventKind, o \in {"none", "start"} :
       \E b \in {c \in Binding : bnd[c].node = n /\ bnd[c].ep = running[n]} :
         /\ evs' = [evs EXCEPT ![n] = Append(@, [kind |-> k, b |-> b, ep |-> running[n],
                                               srev |-> ses.rev, brev |-> bnd[b].rev, op |-> o,
                                               seen |-> FALSE])]
         /\ running' = IF k = "Started" THEN running ELSE [running EXCEPT ![n] = 0]
  /\ UNCHANGED <<boot, row, reg, late, sched, dbVars, api, pass, sub, pos, cursor>>

\* consume_node after a stream broke: it opens the next one with the epoch the
\* registry has by then and from the larger of the two sequences. A node that
\* was not listed for a while has lost the sequence in memory.
Subscribe(n) ==
  /\ View(n).status \in {"Active", "Draining"}
  /\ sub' = [sub EXCEPT ![n] = View(n).ep]
  /\ pos' \in {[pos EXCEPT ![n] = IF cursor[n] > @ THEN cursor[n] ELSE @],
               [pos EXCEPT ![n] = cursor[n]]}
  /\ UNCHANGED <<nodeVars, dbVars, api, pass, evs, cursor>>

\* validate_callback and the same checks in apply_media_event.
Valid(n, e) ==
  /\ bnd[e.b].node = n /\ bnd[e.b].ep = e.ep
  /\ bnd[e.b].rev = e.brev /\ ses.rev = e.srev

\* apply_started: the first of two transitions is saved on its own.
AppliedStarted(s, r) == [s |-> Through(s), b |-> Converged(r), saved |-> TRUE]

\* apply_stopped makes up to two transitions of an aggregate and saves it once,
\* which the WHERE clause refuses.
AppliedStopped(s, r) ==
  LET two == s.st = "Active" \/ r.st \in {"Active", "NeedsVerification"}
  IN  [s |-> IF SEnded(s) THEN s ELSE StoppedOf(s),
       b |-> IF r.st = "Reserved" THEN r ELSE ReleasedOf(r),
       saved |-> ~two]

AppliedFailed(s, r) == [s |-> FailedOf(s), b |-> BFailedOf(r), saved |-> TRUE]

Applied(k, s, r) == CASE k = "Started" -> AppliedStarted(s, r)
                      [] k = "Stopped" -> AppliedStopped(s, r)
                      [] OTHER -> AppliedFailed(s, r)

\* An operation that is not Running cannot be completed, which is an error.
OpRuns(e) == e.op = "none" \/ ops[e.op] = "Running"

\* process_event for a node's next event, or for one it delivers again; one that
\* was processed only moves the cursor, which has passed it.
Consume(n, i) ==
  LET e == evs[n][i]
      a == Applied(e.kind, ses, bnd[e.b])
      known == sub[n] = e.ep
      done == e.op # "none" /\ Ended(e.op)
      ok == Valid(n, e) /\ ~done /\ OpRuns(e) /\ a.saved
  IN  /\ sub[n] # 0 /\ i \in 1 .. Len(evs[n]) /\ i <= pos[n] + 1
      /\ ~e.seen
      /\ pos' = [pos EXCEPT ![n] = IF i > @ THEN i ELSE @]
      /\ cursor' = IF known /\ i > cursor[n] THEN [cursor EXCEPT ![n] = i] ELSE cursor
      /\ evs' = IF known THEN [evs EXCEPT ![n][i] = Seen] ELSE evs
      /\ IF known /\ ok
         THEN /\ ses' = a.s
              /\ bnd' = [bnd EXCEPT ![e.b] = a.b]
              /\ ops' = IF e.op = "none" THEN ops
                        ELSE [ops EXCEPT ![e.op] = IF e.kind = "Started" THEN "Succeeded"
                                                   ELSE "Failed"]
         ELSE UNCHANGED dbVars
      /\ UNCHANGED <<nodeVars, api, pass, sub>>

-----------------------------------------------------------------------------
\* The signaling process stops and starts again: calls and passes are gone, the
\* scheduler is empty, the registry is loaded from the rows.
Crash ==
  /\ Fault
  /\ api' = [k \in Kind |-> IF api[k].pc = "idle" THEN NoCall ELSE [NoCall EXCEPT !.pc = "done"]]
  /\ pass' = [r \in Pass |-> NoPass]
  /\ sched' = NoSched
  /\ reg' = Loaded
  /\ late' = {}
  /\ sub' = [n \in Node |-> 0]
  /\ pos' = [n \in Node |-> 0]
  /\ UNCHANGED <<boot, running, row, dbVars, evs, cursor>>

MediaInit ==
  /\ NodesInit
  /\ ses = NoSession
  /\ bnd = [b \in Binding |-> NoBindingRow]
  /\ ops = [k \in Kind |-> "none"]
  /\ api = [k \in Kind |-> NoCall]
  /\ pass = [r \in Pass |-> NoPass]
  /\ evs = [n \in Node |-> <<>>]
  /\ sub = [n \in Node |-> 1] /\ pos = [n \in Node |-> 0] /\ cursor = [n \in Node |-> 0]

MediaNext ==
  \/ StartLive \/ StartPlayback \/ StartTalk \/ StartBroadcast
  \/ StartSchedule \/ StartReserve \/ StartPersist \/ StopRequest \/ ControlRequest
  \/ \E k \in Kind : Begin(k) \/ Exec(k) \/ Drop(k)
  \/ StartSettle \/ StopSettle \/ ControlSettle
  \/ \E k \in Kind : TimeOut(k)
  \/ \E r \in Pass : PassStep(r) \/ PassTimeOut(r) \/ \E n \in Node : PassOrphan(r, n) \/ CleanupNode(r, n)
  \/ \E n \in Node :
       \/ NodeStep(n) /\ UNCHANGED <<dbVars, api, pass, evVars>>
       \/ Emit(n) \/ Subscribe(n)
       \/ \E i \in 1 .. MaxFaults : Consume(n, i)
  \/ Crash

MediaSpec == MediaInit /\ [][MediaNext]_mediaVars

-----------------------------------------------------------------------------
\* Every variable has its shape.
MediaTypeOK ==
  /\ NodesTypeOK
  /\ ses \in Session
  /\ bnd \in [Binding -> BindingRow]
  /\ ops \in [Kind -> OpStatus]
  /\ api \in [Kind -> Call]
  /\ pass \in [Pass -> PassState]
  /\ \A n \in Node : \A i \in 1 .. Len(evs[n]) : evs[n][i] \in Event

\* A session never has two bindings that live, whatever a callback, a stop or a
\* restart does while a pass migrates it (media_service_reconnect.rs saves the
\* old binding as failed first).
OneLiveBinding == Cardinality(Live) <= 1

\* What ended stays ended: no callback, settled command or late pass brings a
\* session or a binding back from its final state.
EndIsKept ==
  [][/\ SEnded(ses) => ses'.st = ses.st
     /\ \A b \in Binding : bnd[b].st \in BindingEnd => bnd'[b].st = bnd[b].st]_mediaVars
=============================================================================
