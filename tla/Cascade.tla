------------------------------ MODULE Cascade ------------------------------
(***************************************************************************)
(* A GB28181 platform as a client of upper platforms: CascadeManager with  *)
(* its upstream links, and the state machine Gb28181Cascade of one of them *)
(* with its registration, keepalive, media bridges, subscriptions and      *)
(* reports.                                                                *)
(*                                                                         *)
(* The machine does no I/O: its inputs are commands of the application,    *)
(* requests and responses of the upper platform in any order, and Tick. A  *)
(* tick finds some of the deadlines passed; which ones is an arbitrary     *)
(* choice. Requests and responses that are rejected or not matched change  *)
(* nothing and are no actions.                                             *)
(***************************************************************************)
EXTENDS Integers, FiniteSets, CascadeBridges, CascadeReports

CONSTANTS
  Link,        \* platform links
  TheLink,     \* the link whose machine is modelled
  Resource,    \* devices that a link may control
  NoLink,      \* absence of a link
  Call,        \* Call-IDs of upstream INVITEs
  Sub,         \* subscription keys: Call-ID and From tag
  SubCall,     \* the Call-ID of each key
  NoBye,       \* Call-IDs for which build_bye_from_bridge fails
  ActiveExpires, \* media_bridge_active_timeout_seconds > 0
  MaxBridges,  \* media_bridge_max_sessions
  MaxSubs,     \* subscription_max_subscriptions
  MaxRetries,  \* max_retries
  MaxFailures, \* keepalive_max_failures
  NotifyMaxRetries,
  MaxAttempt   \* bound: an upstream calls a nonce stale only so often

ASSUME CascadeAssumption ==
  /\ TheLink \in Link /\ NoLink \notin Link
  /\ {MaxBridges, MaxSubs, MaxRetries, MaxFailures, NotifyMaxRetries, MaxAttempt} \subseteq Nat
  /\ MaxAttempt > MaxRetries
  /\ IsFiniteSet(Call) /\ IsFiniteSet(Sub)
  /\ NoBye \subseteq Call /\ ActiveExpires \in BOOLEAN

VARIABLES
  ups,     \* links the manager holds a machine for
  control, \* the link that controls each resource
  reg,     \* registration of the machine
  told,    \* the last connection event given to the application
  bridge,  \* state of the bridge of each Call-ID
  open,    \* bridges requested from the application and neither stopped nor lost
  lost,    \* calls whose last bridge ended without an event
  dialog,  \* whether the upstream has acknowledged the dialog of the call's last bridge
  sub,     \* subscriptions and the retries of their pending NOTIFY
  order,   \* the live subscriptions, least recently active first
  store,   \* reports held back
  raised   \* alarms raised so far

bridgeVars == <<bridge, open, lost, dialog>>

subVars == <<sub, order>>

reportVars == <<store, raised>>

managerVars == <<ups, control>>

cascadeVars == <<ups, control, reg, told, bridge, open, lost, dialog, sub, order, store, raised>>

-----------------------------------------------------------------------------
RegState == {"Idle", "Registering", "Registered", "Failed", "Deregistering"}

\* ka: whether a keepalive was sent on this registration and is unanswered.
Registration ==
  [st : RegState, attempt : 0 .. MaxAttempt, auth : BOOLEAN, cached : BOOLEAN,
   ka : {"never", "pending", "idle"}, fails : 0 .. MaxFailures]

Idle == [st |-> "Idle", attempt |-> 0, auth |-> FALSE, cached |-> FALSE, ka |-> "never", fails |-> 0]

SubState == [st : {"None", "Quiet", "Pending"}, tries : 0 .. NotifyMaxRetries]

NoSub == [st |-> "None", tries |-> 0]

Live(f) == {s \in Sub : f[s].st # "None"}

CascadeInit ==
  /\ ups = {} /\ control = [r \in Resource |-> NoLink]
  /\ reg = Idle /\ told = "none"
  /\ bridge = [c \in Call |-> "None"] /\ open = [c \in Call |-> 0]
  /\ lost = {} /\ dialog = [c \in Call |-> FALSE]
  /\ sub = [s \in Sub |-> NoSub] /\ order = <<>>
  /\ store = NoReports /\ raised = {}

-----------------------------------------------------------------------------
(* Registration and keepalive (machine.rs, machine_response.rs).           *)

\* start_registering and on_register, from Idle or Failed.
Started == [Idle EXCEPT !.st = "Registering", !.attempt = IF reg.st = "Failed" THEN reg.attempt ELSE 0]

\* Mutant: the retries are not counted.
FailureUncounted(attempt, deregister) ==
  IF deregister \/ attempt >= MaxRetries + 1 THEN Idle
  ELSE [Idle EXCEPT !.st = "Failed", !.attempt = 1]

\* fail_or_retry.
Failure(attempt, deregister) ==
  IF deregister \/ attempt >= MaxRetries THEN Idle
  ELSE [Idle EXCEPT !.st = "Failed", !.attempt = attempt + 1]

\* on_register and on_deregister of a registered link. With a cached challenge
\* the request carries credentials, which may turn out to be unavailable.
Renewals(st) ==
  {[Idle EXCEPT !.st = st, !.cached = reg.cached]}
    \cup IF reg.cached THEN {Failure(0, st = "Deregistering")} ELSE {}

\* challenge_and_resend.
Resent == [reg EXCEPT !.attempt = @ + 1, !.auth = TRUE,
                      !.cached = IF reg.st = "Deregistering" THEN @ ELSE TRUE]

\* 2xx with an expiry: Keepalive::new, whatever the failures before a refresh.
\* The response may bring a challenge of its own.
Granted(cached) == [Idle EXCEPT !.st = "Registered", !.cached = cached]

\* One more keepalive failed, or timed out.
KeepaliveFailed ==
  IF reg.fails + 1 >= MaxFailures THEN Idle
  ELSE [reg EXCEPT !.ka = "idle", !.fails = @ + 1]

\* on_keepalive_tick, when its deadline has passed.
KeepaliveTick == IF reg.ka = "pending" THEN KeepaliveFailed ELSE [reg EXCEPT !.ka = "pending"]

\* Mutant: a failed refresh keeps the subscriptions for the retry.
ClearedWhenIdle(r, f) == IF r.st = "Idle" THEN [s \in Sub |-> NoSub] ELSE f

\* subscriptions.clear() wherever the link becomes Idle or Failed.
ClearedBy(r, f) == IF r.st \in {"Idle", "Failed"} THEN [s \in Sub |-> NoSub] ELSE f

\* CascadePlatformDisconnected on every way to Idle, Connected on every 2xx;
\* a link that will retry says nothing.
ToldBy(r) ==
  IF r = reg THEN told
  ELSE IF r.st = "Idle" THEN "down"
  ELSE IF r.st = "Registered" THEN "up" ELSE told

Settle(r, f) ==
  /\ reg' = r
  /\ told' = ToldBy(r)
  /\ sub' = ClearedBy(r, f)
  /\ order' = SelectSeq(order, LAMBDA s : s \in Live(sub'))

\* on_register as a command; Registering and Deregistering ignore it.
Register ==
  /\ TheLink \in ups
  /\ \/ reg.st \in {"Idle", "Failed"} /\ Settle(Started, sub)
     \/ reg.st = "Registered" /\ \E r \in Renewals("Registering") : Settle(r, sub)
  /\ UNCHANGED <<managerVars, bridgeVars, reportVars>>

\* on_deregister; a link that is registering or failed ignores it.
Deregister ==
  /\ TheLink \in ups
  /\ reg.st = "Registered"
  /\ \E r \in Renewals("Deregistering") : Settle(r, sub)
  /\ UNCHANGED <<managerVars, bridgeVars, reportVars>>

\* handle_register_response, handle_deregister_response: any response with the
\* Call-ID of the registration counts, whichever request it answers.
RegisterAnswer ==
  /\ TheLink \in ups
  /\ reg.st \in {"Registering", "Deregistering"}
  /\ LET dereg == reg.st = "Deregistering"
     IN  \/ ~reg.auth /\ Settle(Resent, sub)                         \* 401
         \/ reg.auth /\ Settle(Failure(reg.attempt, dereg), sub)     \* 401
         \/ /\ reg.auth /\ ~dereg /\ reg.attempt < MaxAttempt        \* 401 stale
            /\ Settle(Resent, sub)
         \/ Settle(Failure(reg.attempt, dereg), sub)                 \* 3xx to 6xx
         \/ Settle(Idle, sub)                                        \* 2xx, Expires 0
         \/ ~dereg /\ \E c \in {reg.cached, TRUE} : Settle(Granted(c), sub)  \* 2xx
  /\ UNCHANGED <<managerVars, bridgeVars, reportVars>>

\* handle_keepalive_response: also the late answer to a keepalive that timed out.
KeepaliveAnswer ==
  /\ TheLink \in ups
  /\ reg.st = "Registered" /\ reg.ka # "never"
  /\ \/ Settle([reg EXCEPT !.ka = "idle", !.fails = 0], sub)
     \/ Settle(KeepaliveFailed, sub)
  /\ UNCHANGED <<managerVars, bridgeVars, reportVars>>

-----------------------------------------------------------------------------
(* Media bridges.                                                          *)

\* Every Call-ID c meets the effect eff[c].
Bridged(eff) ==
  /\ bridge' = [c \in Call |-> eff[c].to]
  /\ open' = [c \in Call |-> CASE eff[c].tell = "requested" -> open[c] + 1
                               [] eff[c].tell \in {"stopped", "lost"} -> open[c] - 1
                               [] OTHER -> open[c]]
  /\ lost' = {c \in Call : eff[c].tell = "lost" \/ (c \in lost /\ eff[c].tell # "requested")}
  /\ dialog' = [c \in Call |-> CASE eff[c].dialog = "up" -> TRUE
                                 [] eff[c].dialog = "down" -> FALSE
                                 [] OTHER -> dialog[c]]

\* bridges.len() >= media_bridge_max_sessions.
Full == Cardinality({c \in Call : bridge[c] # "None"}) >= MaxBridges

Only(c, e) == [d \in Call |-> IF d = c THEN e ELSE Keep(bridge[d])]

\* INVITE needs a registered link; the requests inside a dialog do not.
UpstreamRequest(c) ==
  /\ TheLink \in ups
  /\ \/ reg.st = "Registered" /\ Bridged(Only(c, OnInvite(bridge[c], Full)))
     \/ Bridged(Only(c, OnAck(bridge[c], c \notin NoBye)))
     \/ Bridged(Only(c, OnBye(bridge[c])))
     \/ Bridged(Only(c, OnCancel(bridge[c])))
  /\ UNCHANGED <<managerVars, reg, told, subVars, reportVars>>

\* BridgeMediaReady and BridgeMediaStop. The identifiers of bridges that are
\* gone match nothing.
MediaCommand(c) ==
  /\ TheLink \in ups
  /\ \/ Bridged(Only(c, OnMediaReady(bridge[c])))
     \/ Bridged(Only(c, OnMediaStop(bridge[c], c \notin NoBye)))
  /\ UNCHANGED <<managerVars, reg, told, subVars, reportVars>>

-----------------------------------------------------------------------------
(* Subscriptions (subscription/mod.rs).                                    *)

\* handle_subscribe with Expires 0: the final NOTIFY is not awaited.
Unsubscribe(s) ==
  /\ TheLink \in ups /\ reg.st = "Registered"
  /\ sub' = [sub EXCEPT ![s] = NoSub]
  /\ order' = Remove(order, s)
  /\ UNCHANGED <<managerVars, reg, told, bridgeVars, reportVars>>

\* enforce_subscription_capacity: the least recently active one makes room.
Evicted(s) ==
  IF Len(order) >= MaxSubs /\ s \notin Live(sub) /\ order # <<>> THEN {Head(order)} ELSE {}

\* handle_subscribe: a new subscription or a refresh, with its first NOTIFY.
Subscribe(s) ==
  /\ TheLink \in ups /\ reg.st = "Registered"
  /\ sub' = [t \in Sub |-> IF t = s THEN [st |-> "Pending", tries |-> 0]
                           ELSE IF t \in Evicted(s) THEN NoSub ELSE sub[t]]
  /\ order' = Append(SelectSeq(order, LAMBDA t : t # s /\ t \notin Evicted(s)), s)
  /\ UNCHANGED <<managerVars, reg, told, bridgeVars, reportVars>>

\* handle_response of a NOTIFY finds a subscription by its Call-ID alone: one
\* of the live keys of the call. A 2xx must match the pending CSeq; any other
\* final response ends the subscription, even one to an earlier NOTIFY.
NotifyAnswer(s) ==
  /\ TheLink \in ups
  /\ LET found == CHOOSE t \in {t \in Live(sub) : SubCall[t] = SubCall[s]} : TRUE
     IN  /\ s \in Live(sub)
         /\ \/ /\ sub[found].st = "Pending"
               /\ sub' = [sub EXCEPT ![found] = [st |-> "Quiet", tries |-> 0]]
            \/ sub' = [sub EXCEPT ![found] = NoSub]
  /\ order' = SelectSeq(order, LAMBDA t : t \in Live(sub'))
  /\ UNCHANGED <<managerVars, reg, told, bridgeVars, reportVars>>

\* subscription::on_tick: expired ones end, a NOTIFY without answer is sent
\* again until its retries are used up.
Ticked(expired, silent) ==
  [s \in Sub |->
     IF s \in expired \/ (s \in silent /\ sub[s].tries >= NotifyMaxRetries) THEN NoSub
     ELSE IF s \in silent THEN [sub[s] EXCEPT !.tries = @ + 1]
     ELSE sub[s]]

-----------------------------------------------------------------------------
(* Reports and the tick.                                                   *)

\* report::enqueue.
Report ==
  /\ TheLink \in ups
  /\ \/ \E a \in Alarm \ raised :
          store' = EnqueueAlarm(store, a) /\ raised' = raised \cup {a}
     \/ \E k \in Snapshot : store' = EnqueueSnapshot(store, k) /\ UNCHANGED raised
  /\ UNCHANGED <<managerVars, reg, told, bridgeVars, subVars>>

\* What on_tick does to the registration: due when its own deadline (refresh_at,
\* retry_at or the transaction timeout) has passed, otherwise it is at most the
\* turn of the keepalive.
TickedReg(due) ==
  CASE reg.st = "Registered" /\ due -> Renewals("Registering")
    [] reg.st = "Registered" /\ ~due -> {reg, KeepaliveTick}
    [] reg.st = "Failed" /\ due -> {Started}
    [] reg.st \in {"Registering", "Deregistering"} /\ due ->
         {Failure(reg.attempt, reg.st = "Deregistering")}
    [] OTHER -> {reg}

\* Active bridges that no tick can end, and that end any tick once they expire.
Stuck == {c \in NoBye : bridge[c] = "Active" /\ ActiveExpires}

\* on_tick: bridges, subscriptions, registration, reports, in that order, at a
\* moment when the deadlines of at least the given calls have passed. Reports
\* are sent only by a link that is still registered after the rest.
Tick(calls, due) ==
  /\ TheLink \in ups
  /\ \E late \in SUBSET {c \in Call \ Stuck : bridge[c] # "None"} :
       /\ calls \subseteq late
       /\ Bridged([c \in Call |-> IF c \in late THEN OnExpiry(bridge[c], ActiveExpires)
                                  ELSE Keep(bridge[c])])
  /\ \E r \in TickedReg(due) :
       \E expired \in SUBSET Live(sub) :
         \E silent \in SUBSET {s \in Sub \ expired : sub[s].st = "Pending"} :
           Settle(r, Ticked(expired, silent))
  /\ \E n \in 0 .. Len(store.snaps) :
       store' = IF reg'.st = "Registered" THEN Flushed(Pruned(store, n)) ELSE Pruned(store, n)
  /\ UNCHANGED <<managerVars, raised>>

\* on_tick at a moment when a bridge has expired whose BYE cannot be built: it
\* returns the error. The expired bridges it met before (in the order of a
\* hash map) are removed, their outputs are gone with the error, and the rest
\* of the tick is not done.
TickFails ==
  /\ TheLink \in ups
  /\ Stuck # {}
  /\ \E before \in SUBSET {c \in Call \ Stuck : bridge[c] # "None"} :
       Bridged([c \in Call |-> IF c \in before THEN Lose ELSE Keep(bridge[c])])
  /\ UNCHANGED <<managerVars, reg, told, subVars, reportVars>>

-----------------------------------------------------------------------------
(* The manager (cascade/manager.rs).                                       *)

\* add_upstream: every link has a remote platform of its own. The bridges a
\* removed machine took with it are not those of the new one.
AddUpstream(l) ==
  /\ l \notin ups
  /\ ups' = ups \cup {l}
  /\ IF l = TheLink THEN open' = [c \in Call |-> 0] ELSE UNCHANGED open
  /\ UNCHANGED <<control, reg, told, bridge, lost, dialog, subVars, reportVars>>

\* Mutant: the control of a removed link stays.
RemoveKeepsControl(l) ==
  /\ l \in ups
  /\ ups' = ups \ {l}
  /\ IF l # TheLink THEN UNCHANGED <<reg, told, bridgeVars, subVars, reportVars>>
     ELSE /\ reg' = Idle /\ told' = "none" /\ store' = NoReports
          /\ bridge' = [c \in Call |-> "None"] /\ dialog' = [c \in Call |-> FALSE]
          /\ lost' = {}
          /\ sub' = [s \in Sub |-> NoSub] /\ order' = <<>>
          /\ UNCHANGED <<open, raised>>
  /\ UNCHANGED control

\* remove_upstream drops the machine with all it holds and tells nobody.
RemoveUpstream(l) ==
  /\ l \in ups
  /\ ups' = ups \ {l}
  /\ control' = [r \in Resource |-> IF control[r] = l THEN NoLink ELSE control[r]]
  /\ IF l # TheLink THEN UNCHANGED <<reg, told, bridgeVars, subVars, reportVars>>
     ELSE /\ reg' = Idle /\ told' = "none" /\ store' = NoReports
          /\ bridge' = [c \in Call |-> "None"] /\ dialog' = [c \in Call |-> FALSE]
          /\ lost' = {}
          /\ sub' = [s \in Sub |-> NoSub] /\ order' = <<>>
          /\ UNCHANGED <<open, raised>>

AcquireControl(r, l) ==
  /\ l \in ups
  /\ control[r] \in {NoLink, l}
  /\ control' = [control EXCEPT ![r] = l]
  /\ UNCHANGED <<ups, reg, told, bridgeVars, subVars, reportVars>>

ReleaseControl(r, l) ==
  /\ control[r] = l
  /\ control' = [control EXCEPT ![r] = NoLink]
  /\ UNCHANGED <<ups, reg, told, bridgeVars, subVars, reportVars>>

-----------------------------------------------------------------------------
CascadeNext ==
  \/ Register \/ Deregister \/ RegisterAnswer \/ KeepaliveAnswer
  \/ \E c \in Call : UpstreamRequest(c) \/ MediaCommand(c)
  \/ \E s \in Sub : Unsubscribe(s) \/ Subscribe(s) \/ NotifyAnswer(s)
  \/ Report \/ (\E due \in BOOLEAN : Tick({}, due)) \/ TickFails
  \/ \E l \in Link : AddUpstream(l) \/ RemoveUpstream(l)
  \/ \E r \in Resource, l \in Link : AcquireControl(r, l) \/ ReleaseControl(r, l)

\* The driver ticks for ever and time passes: no deadline of a bridge, nor
\* that of a registration that waits, is missed for ever. Nothing is assumed
\* while a bridge is stuck: from its deadline on every tick fails.
CascadeFairness ==
  /\ \A c \in Call : WF_cascadeVars(Stuck = {} /\ \E due \in BOOLEAN : Tick({c}, due))
  /\ WF_cascadeVars(Stuck = {} /\ reg.st # "Registered" /\ Tick({}, TRUE))

CascadeSpec == CascadeInit /\ [][CascadeNext]_cascadeVars /\ CascadeFairness

-----------------------------------------------------------------------------
\* The variables keep their types; reports share one bound, and bridges and
\* subscriptions stay within theirs.
CascadeTypeOK ==
  /\ ups \subseteq Link /\ control \in [Resource -> Link \cup {NoLink}]
  /\ reg \in Registration /\ told \in {"none", "up", "down"}
  /\ bridge \in [Call -> BridgeState] /\ open \in [Call -> Int]
  /\ lost \subseteq Call /\ dialog \in [Call -> BOOLEAN]
  /\ sub \in [Sub -> SubState] /\ ToSet(order) = Live(sub) /\ Len(order) = Cardinality(Live(sub))
  /\ ToSet(store.snaps) \subseteq Snapshot /\ ToSet(store.queue) \subseteq Alarm
  /\ raised \subseteq Alarm
  /\ Len(store.snaps) + Len(store.queue) <= MaxReports
  /\ Cardinality({c \in Call : bridge[c] # "None"}) <= MaxBridges

\* The application was asked for the media of exactly the bridges the machine
\* has (one CascadePlayRequested and not yet its CascadePlayStopped), but for
\* the ones that were lost: by a stop of a call whose BYE cannot be built
\* (on_media_stop), or with a tick that failed at such a call (on_tick). A
\* dialog the upstream acknowledged ends only by a BYE, with the same exceptions.
BridgesAccounted ==
  TheLink \in ups =>
    \A c \in Call :
      /\ open[c] = IF bridge[c] = "None" THEN 0 ELSE 1
      /\ c \in lost => c \in NoBye \/ (ActiveExpires /\ NoBye # {})
      /\ dialog[c] => bridge[c] = "Active" \/ c \in lost \cup NoBye

\* What the application was told about the connection agrees with the machine
\* in every state that lasts, and a subscription lives only on a connection
\* that was announced and has not failed since.
LinkTold ==
  /\ reg.st = "Idle" => told # "up"
  /\ reg.st = "Registered" => told = "up"
  /\ Live(sub) # {} => told = "up" /\ reg.st \notin {"Idle", "Failed"}

\* Only a link the manager knows controls a resource (control_owner after
\* remove_upstream).
ControlHasLink == \A r \in Resource : control[r] \in ups \cup {NoLink}

\* An alarm that was raised waits in the queue until it is sent by a registered
\* link, unless the queue holds nothing but other alarms and is full, or the
\* link is removed (push_to_queue, enforce_bounds, flush). A link that is
\* configured to hold no reports at all holds no alarm either.
AlarmsKept ==
  [][ /\ \A a \in ToSet(store.queue) \ ToSet(store'.queue) :
           \/ reg'.st = "Registered" /\ store'.queue = <<>>
           \/ TheLink \notin ups'
           \/ Len(store.queue) = MaxReports /\ store.snaps = <<>>
      /\ MaxReports > 0 => \A a \in raised' \ raised : a \in ToSet(store'.queue) ]_cascadeVars

\* Every bridge ends, whatever the upstream and the application do or leave out
\* (the deadlines of bridge.rs on_tick), unless active bridges have no deadline
\* and it is one, or a bridge without a BYE blocks the ticks again and again.
BridgesEnd ==
  \A c \in Call :
    (TheLink \in ups /\ bridge[c] # "None")
      ~> (bridge[c] = "None" \/ (bridge[c] = "Active" /\ ~ActiveExpires) \/ Stuck # {})

\* A link that the application believes connected and that is not registered
\* any more either registers again or says that it is disconnected, unless a
\* bridge without a BYE blocks the ticks again and again.
LinkSettles ==
  (told = "up" /\ reg.st # "Registered") ~> (reg.st = "Registered" \/ told # "up" \/ Stuck # {})
=============================================================================
