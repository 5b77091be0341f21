-------------------------- MODULE SignallingProofs --------------------------
(***************************************************************************)
(* Signalling, for any number of links, calls, reports, requests, receive  *)
(* loops and table sizes. First the cascade: its bridges, what the         *)
(* application is told about a link, who controls a resource, and the      *)
(* reports that wait for a link. Then the SIP driver: a request reaches    *)
(* the access machine once, its copies are answered alike, and a dialog    *)
(* was offered to its peer.                                                *)
(***************************************************************************)
EXTENDS Cascade, SipDriver, FiniteSetTheorems, SequenceTheorems, TLAPS

-----------------------------------------------------------------------------
\* The inductive invariant, one part per piece of the machine.

\* The manager's table.
ControlInv ==
  /\ ups \subseteq Link
  /\ control \in [Resource -> Link \cup {NoLink}]
  /\ ControlHasLink

\* A registration. The attempts of a request without credentials are those of
\* the failures before it, and only a request that waits for its answer has any.
RegOK(r) ==
  /\ r \in Registration
  /\ ~r.auth => r.attempt <= MaxRetries
  /\ r.st \notin {"Registering", "Deregistering"} => ~r.auth

RegInv ==
  /\ RegOK(reg)
  /\ told \in {"none", "up", "down"}
  /\ sub \in [Sub -> SubState]

\* A machine the manager does not hold is a machine that does not exist yet.
GoneInv ==
  TheLink \notin ups =>
    /\ reg = Idle /\ told = "none" /\ sub = [s \in Sub |-> NoSub]
    /\ lost = {} /\ \A c \in Call : bridge[c] = "None" /\ ~dialog[c]

BridgeInv ==
  /\ bridge \in [Call -> BridgeState] /\ open \in [Call -> Int] /\ dialog \in [Call -> BOOLEAN]
  /\ lost \subseteq Call
  /\ BridgesAccounted
  /\ Cardinality({c \in Call : bridge[c] # "None"}) <= MaxBridges

ReportInv ==
  /\ store \in Store
  /\ Len(store.snaps) + Len(store.queue) <= MaxReports

CascadeInv == ControlInv /\ RegInv /\ LinkTold /\ GoneInv /\ BridgeInv /\ ReportInv

-----------------------------------------------------------------------------
\* Registration.

LEMMA IdleOK == RegOK(Idle) /\ Idle.st = "Idle"
  BY CascadeAssumption DEF RegOK, Registration, RegState, Idle

\* Registrations without credentials.
LEMMA FreshOK ==
  ASSUME NEW st \in RegState, NEW a \in 0 .. MaxRetries
  PROVE  /\ RegOK([Idle EXCEPT !.st = st, !.attempt = a])
         /\ [Idle EXCEPT !.st = st, !.attempt = a].st = st
  <1> DEFINE r == [Idle EXCEPT !.st = st, !.attempt = a]
  <1>1. Idle \in Registration
    BY IdleOK DEF RegOK
  <1>2. a \in 0 .. MaxAttempt
    BY CascadeAssumption
  <1>3. r \in Registration
    BY <1>1, <1>2, Zenon DEF Registration
  <1>4. r.auth = FALSE /\ r.attempt = a /\ r.st = st
    BY DEF Idle
  <1> HIDE DEF r
  <1>5. RegOK(r)
    BY <1>3, <1>4, CascadeAssumption DEF RegOK
  <1> QED
    BY <1>4, <1>5 DEF r

LEMMA CachedOK ==
  ASSUME NEW st \in RegState, NEW c \in BOOLEAN
  PROVE  /\ RegOK([Idle EXCEPT !.st = st, !.cached = c])
         /\ [Idle EXCEPT !.st = st, !.cached = c].st = st
  <1> DEFINE r == [Idle EXCEPT !.st = st, !.cached = c]
  <1>1. Idle \in Registration
    BY IdleOK DEF RegOK
  <1>2. r \in Registration
    BY <1>1, Zenon DEF Registration
  <1>3. r.auth = FALSE /\ r.attempt = 0 /\ r.st = st
    BY DEF Idle
  <1> HIDE DEF r
  <1>4. RegOK(r)
    BY <1>2, <1>3, CascadeAssumption DEF RegOK
  <1> QED
    BY <1>3, <1>4 DEF r

LEMMA FailureOK ==
  ASSUME NEW a \in Nat, NEW d \in BOOLEAN
  PROVE  RegOK(Failure(a, d)) /\ Failure(a, d).st \in {"Idle", "Failed"}
  <1>1. CASE d \/ a >= MaxRetries
    BY <1>1, IdleOK DEF Failure
  <1>2. CASE ~d /\ ~(a >= MaxRetries)
    <2>1. Failure(a, d) = [Idle EXCEPT !.st = "Failed", !.attempt = a + 1]
      BY <1>2 DEF Failure
    <2>2. a + 1 \in 0 .. MaxRetries
      BY <1>2, CascadeAssumption
    <2>3. "Failed" \in RegState
      BY DEF RegState
    <2>4. RegOK(Failure(a, d)) /\ Failure(a, d).st = "Failed"
      BY <2>1, <2>2, <2>3, FreshOK, Zenon
    <2> QED
      BY <2>4
  <1> QED
    BY <1>1, <1>2

LEMMA RegFacts ==
  ASSUME RegInv
  PROVE  /\ reg \in Registration /\ reg.st \in RegState /\ reg.attempt \in 0 .. MaxAttempt
         /\ reg.attempt \in Nat /\ reg.auth \in BOOLEAN /\ reg.cached \in BOOLEAN
         /\ reg.fails \in 0 .. MaxFailures
         /\ ~reg.auth => reg.attempt \in 0 .. MaxRetries
  BY CascadeAssumption DEF RegInv, RegOK, Registration

LEMMA StartedOK ==
  ASSUME RegInv, reg.st \in {"Idle", "Failed"}
  PROVE  RegOK(Started) /\ Started.st = "Registering"
  <1>1. reg.attempt \in 0 .. MaxRetries /\ 0 \in 0 .. MaxRetries
    BY RegFacts, CascadeAssumption DEF RegInv, RegOK
  <1>2. "Registering" \in RegState
    BY DEF RegState
  <1>3. \/ Started = [Idle EXCEPT !.st = "Registering", !.attempt = reg.attempt]
        \/ Started = [Idle EXCEPT !.st = "Registering", !.attempt = 0]
    BY DEF Started
  <1> QED
    BY <1>1, <1>2, <1>3, FreshOK, Zenon

LEMMA RenewalsOK ==
  ASSUME RegInv, NEW st \in {"Registering", "Deregistering"}, NEW r \in Renewals(st)
  PROVE  RegOK(r) /\ r.st \in {st, "Idle", "Failed"}
  <1>1. CASE r = [Idle EXCEPT !.st = st, !.cached = reg.cached]
    <2>1. st \in RegState /\ reg.cached \in BOOLEAN
      BY RegFacts DEF RegState
    <2>2. RegOK(r) /\ r.st = st
      BY <1>1, <2>1, CachedOK, Zenon
    <2> QED
      BY <2>2
  <1>2. CASE r = Failure(0, st = "Deregistering")
    BY <1>2, FailureOK
  <1> QED
    BY <1>1, <1>2 DEF Renewals

LEMMA GrantedOK ==
  ASSUME NEW c \in BOOLEAN
  PROVE  RegOK(Granted(c)) /\ Granted(c).st = "Registered"
  <1>1. "Registered" \in RegState
    BY DEF RegState
  <1> QED
    BY <1>1, CachedOK, Zenon DEF Granted

LEMMA ResentOK ==
  ASSUME RegInv, reg.st \in {"Registering", "Deregistering"}, ~reg.auth \/ reg.attempt < MaxAttempt
  PROVE  RegOK(Resent) /\ Resent.st = reg.st
  <1>1. reg.attempt + 1 \in 0 .. MaxAttempt
    BY RegFacts, CascadeAssumption
  <1>2. (IF reg.st = "Deregistering" THEN reg.cached ELSE TRUE) \in BOOLEAN
    BY RegFacts
  <1>3. Resent = [reg EXCEPT !.attempt = reg.attempt + 1, !.auth = TRUE,
                      !.cached = IF reg.st = "Deregistering" THEN reg.cached ELSE TRUE]
    BY DEF Resent
  <1>4. Resent \in Registration
    BY <1>1, <1>2, <1>3, RegFacts, Zenon DEF Registration
  <1>5. Resent.auth = TRUE /\ Resent.st = reg.st
    BY <1>3, RegFacts DEF Registration
  <1> QED
    BY <1>4, <1>5 DEF RegOK

LEMMA KeepaliveOK ==
  ASSUME RegInv, reg.st = "Registered"
  PROVE  /\ RegOK(KeepaliveFailed) /\ KeepaliveFailed.st \in {"Registered", "Idle"}
         /\ RegOK(KeepaliveTick) /\ KeepaliveTick.st \in {"Registered", "Idle"}
         /\ RegOK([reg EXCEPT !.ka = "idle", !.fails = 0])
         /\ [reg EXCEPT !.ka = "idle", !.fails = 0].st = "Registered"
  <1> DEFINE f == [reg EXCEPT !.ka = "idle", !.fails = reg.fails + 1]
             k == [reg EXCEPT !.ka = "pending"]
             a == [reg EXCEPT !.ka = "idle", !.fails = 0]
  <1>1. reg \in Registration /\ reg.fails \in 0 .. MaxFailures /\ 0 \in 0 .. MaxFailures
    BY RegFacts, CascadeAssumption
  <1>2. a \in Registration /\ k \in Registration
    BY <1>1, Zenon DEF Registration
  <1>3. a.auth = reg.auth /\ a.attempt = reg.attempt /\ a.st = reg.st
    BY <1>1 DEF Registration
  <1>4. k.auth = reg.auth /\ k.attempt = reg.attempt /\ k.st = reg.st
    BY <1>1 DEF Registration
  <1>5. f.auth = reg.auth /\ f.attempt = reg.attempt /\ f.st = reg.st
    BY <1>1 DEF Registration
  <1>6. ASSUME ~(reg.fails + 1 >= MaxFailures)
        PROVE  f \in Registration
    <2>1. reg.fails + 1 \in 0 .. MaxFailures
      BY <1>1, <1>6, CascadeAssumption
    <2> QED
      BY <1>1, <2>1, Zenon DEF Registration
  <1> HIDE DEF a, f, k
  <1>7. RegOK(a) /\ RegOK(k)
    BY <1>2, <1>3, <1>4 DEF RegInv, RegOK
  <1>8. ~(reg.fails + 1 >= MaxFailures) => RegOK(f)
    BY <1>5, <1>6 DEF RegInv, RegOK
  <1>9. RegOK(KeepaliveFailed) /\ KeepaliveFailed.st \in {"Registered", "Idle"}
    <2>1. KeepaliveFailed = IF reg.fails + 1 >= MaxFailures THEN Idle ELSE f
      BY DEF KeepaliveFailed, f
    <2> QED
      BY <1>5, <1>8, <2>1, IdleOK
  <1>10. RegOK(KeepaliveTick) /\ KeepaliveTick.st \in {"Registered", "Idle"}
    BY <1>4, <1>7, <1>9 DEF KeepaliveTick, k
  <1> QED
    BY <1>3, <1>7, <1>9, <1>10 DEF a

\* Where every change of the registration ends: subscriptions go with it, and
\* the application is told.
LEMMA SettleInv ==
  ASSUME RegInv, LinkTold, NEW r, NEW f \in [Sub -> SubState], Settle(r, f),
         RegOK(r), Live(f) \subseteq Live(sub)
  PROVE  RegInv' /\ LinkTold'
  <1>1. reg' = r /\ told' = ToldBy(r) /\ sub' = ClearedBy(r, f)
    BY DEF Settle
  <1>2. NoSub \in SubState /\ NoSub.st = "None"
    BY CascadeAssumption DEF NoSub, SubState
  <1>3. sub' \in [Sub -> SubState]
    BY <1>1, <1>2 DEF ClearedBy
  <1>4. told' \in {"none", "up", "down"}
    BY <1>1 DEF ToldBy, RegInv
  <1>5. RegInv'
    BY <1>1, <1>3, <1>4 DEF RegInv
  <1>6. (Live(sub))' # {} => r.st \notin {"Idle", "Failed"} /\ Live(sub) # {}
    <2>1. CASE r.st \in {"Idle", "Failed"}
      <3>1. sub' = [s \in Sub |-> NoSub]
        BY <1>1, <2>1 DEF ClearedBy
      <3> QED
        BY <1>2, <3>1 DEF Live
    <2>2. CASE r.st \notin {"Idle", "Failed"}
      <3>1. sub' = f
        BY <1>1, <2>2 DEF ClearedBy
      <3> QED
        BY <2>2, <3>1 DEF Live
    <2> QED
      BY <2>1, <2>2
  <1>7. CASE r = reg
    <2>1. told' = told /\ reg' = reg
      BY <1>1, <1>7 DEF ToldBy
    <2> QED
      BY <1>5, <1>6, <1>7, <2>1 DEF LinkTold
  <1>8. CASE r # reg
    <2>1. told' = IF r.st = "Idle" THEN "down" ELSE IF r.st = "Registered" THEN "up" ELSE told
      BY <1>1, <1>8 DEF ToldBy
    <2>2. (Live(sub))' # {} => told' = "up" /\ r.st \notin {"Idle", "Failed"}
      BY <1>6, <2>1 DEF LinkTold
    <2> QED
      BY <1>1, <1>5, <2>1, <2>2 DEF LinkTold
  <1> QED
    BY <1>7, <1>8

-----------------------------------------------------------------------------
\* Steps of the machine, part by part.

LEMMA MachineStep ==
  ASSUME CascadeInv, TheLink \in ups, UNCHANGED managerVars,
         RegInv', LinkTold', BridgeInv', ReportInv'
  PROVE  CascadeInv'
  <1>1. ControlInv'
    BY DEF CascadeInv, ControlInv, ControlHasLink, managerVars
  <1>2. GoneInv'
    BY DEF GoneInv, managerVars
  <1> QED
    BY <1>1, <1>2 DEF CascadeInv

LEMMA RegStays ==
  ASSUME RegInv, LinkTold, UNCHANGED <<reg, told, sub>>
  PROVE  RegInv' /\ LinkTold'
  BY DEF RegInv, LinkTold, Live

LEMMA BridgesStay ==
  ASSUME BridgeInv, UNCHANGED <<ups, bridge, open, lost, dialog>>
  PROVE  BridgeInv'
  BY DEF BridgeInv, BridgesAccounted

LEMMA ReportsStay ==
  ASSUME ReportInv, UNCHANGED store
  PROVE  ReportInv'
  BY DEF ReportInv

\* The commands and the answers that change the registration alone.
LEMMA RegistrationInv ==
  ASSUME CascadeInv, Register \/ Deregister \/ RegisterAnswer \/ KeepaliveAnswer
  PROVE  CascadeInv'
  <1>1. RegInv /\ LinkTold /\ sub \in [Sub -> SubState] /\ BridgeInv /\ ReportInv
    BY DEF CascadeInv, RegInv
  <1>2. TheLink \in ups /\ UNCHANGED <<managerVars, bridgeVars, reportVars>>
    BY DEF Register, Deregister, RegisterAnswer, KeepaliveAnswer
  <1>3. BridgeInv' /\ ReportInv'
    BY <1>1, <1>2, BridgesStay, ReportsStay DEF managerVars, bridgeVars, reportVars
  <1>4. \E r : RegOK(r) /\ Settle(r, sub)
    <2>1. CASE Register
      BY <1>1, <2>1, StartedOK, RenewalsOK DEF Register
    <2>2. CASE Deregister
      BY <1>1, <2>2, RenewalsOK DEF Deregister
    <2>3. CASE RegisterAnswer
      <3>1. /\ reg.st \in {"Registering", "Deregistering"} /\ reg.attempt \in Nat
            /\ (reg.st = "Deregistering") \in BOOLEAN
            /\ reg.cached \in BOOLEAN /\ RegOK(Idle)
        BY <1>1, <2>3, RegFacts, IdleOK DEF RegisterAnswer
      <3>2. \/ ~reg.auth /\ Settle(Resent, sub)
            \/ reg.attempt < MaxAttempt /\ Settle(Resent, sub)
            \/ Settle(Failure(reg.attempt, reg.st = "Deregistering"), sub)
            \/ Settle(Idle, sub)
            \/ \E c \in {reg.cached, TRUE} : Settle(Granted(c), sub)
        BY <2>3 DEF RegisterAnswer
      <3> QED
        BY <1>1, <3>1, <3>2, ResentOK, FailureOK, GrantedOK
    <2>4. CASE KeepaliveAnswer
      BY <1>1, <2>4, KeepaliveOK DEF KeepaliveAnswer
    <2> QED
      BY <2>1, <2>2, <2>3, <2>4
  <1>5. RegInv' /\ LinkTold'
    BY <1>1, <1>4, SettleInv
  <1> QED
    BY <1>2, <1>3, <1>5, MachineStep

-----------------------------------------------------------------------------
\* Bridges.

\* The ways to lose a bridge: its own BYE, or that of another one in a tick.
Losing(c) == c \in NoBye \/ (ActiveExpires /\ NoBye # {})

\* What an effect may do to a bridge of call c in state s: the application hears
\* of its beginning and, unless the bridge is lost, of its end, and with it ends
\* an acknowledged dialog.
EffectOK(c, s, e) ==
  /\ e.to \in BridgeState
  /\ s = "None" /\ e.to # "None" => e.tell = "requested" /\ e.dialog = "down"
  /\ s # "None" /\ e.to = "None" => e.tell \in {"stopped", "lost"}
  /\ (s = "None" <=> e.to = "None") => e.tell = "nothing"
  /\ e.tell = "lost" => Losing(c)
  /\ e.dialog = "up" => e.to = "Active" \/ c \in NoBye
  /\ s = "Active" /\ e.to # "Active" => e.dialog = "down" \/ e.tell = "lost"

\* Every operator of bridge.rs is of that kind, and only an INVITE that finds
\* room makes a bridge.
LEMMA EffectsOK ==
  ASSUME NEW c \in Call, NEW s \in BridgeState, NEW full \in BOOLEAN
  PROVE  /\ EffectOK(c, s, Keep(s)) /\ Keep(s).to = s
         /\ EffectOK(c, s, OnInvite(s, full)) /\ (s = "None" /\ full => OnInvite(s, full).to = "None")
         /\ EffectOK(c, s, OnAck(s, c \notin NoBye)) /\ (s = "None" => OnAck(s, c \notin NoBye).to = "None")
         /\ EffectOK(c, s, OnBye(s)) /\ (s = "None" => OnBye(s).to = "None")
         /\ EffectOK(c, s, OnCancel(s)) /\ (s = "None" => OnCancel(s).to = "None")
         /\ EffectOK(c, s, OnMediaReady(s)) /\ (s = "None" => OnMediaReady(s).to = "None")
         /\ /\ EffectOK(c, s, OnMediaStop(s, c \notin NoBye))
            /\ s = "None" => OnMediaStop(s, c \notin NoBye).to = "None"
         /\ EffectOK(c, s, OnExpiry(s, ActiveExpires)) /\ (s = "None" => OnExpiry(s, ActiveExpires).to = "None")
         /\ s # "None" /\ Losing(c) => EffectOK(c, s, Lose)
  <1> USE DEF BridgeState, EffectOK, Keep, Answer, Stop
  <1>1. EffectOK(c, s, Keep(s)) /\ Keep(s).to = s
    OBVIOUS
  <1>2. EffectOK(c, s, OnInvite(s, full)) /\ (s = "None" /\ full => OnInvite(s, full).to = "None")
    BY DEF OnInvite
  <1>3. EffectOK(c, s, OnAck(s, c \notin NoBye)) /\ (s = "None" => OnAck(s, c \notin NoBye).to = "None")
    <2>1. CASE c \in NoBye
      BY <2>1 DEF OnAck, StopWithBye
    <2>2. CASE c \notin NoBye
      BY <2>2 DEF OnAck, StopWithBye
    <2> QED
      BY <2>1, <2>2
  <1>4. EffectOK(c, s, OnBye(s)) /\ (s = "None" => OnBye(s).to = "None")
    BY DEF OnBye
  <1>5. EffectOK(c, s, OnCancel(s)) /\ (s = "None" => OnCancel(s).to = "None")
    BY DEF OnCancel
  <1>6. EffectOK(c, s, OnMediaReady(s)) /\ (s = "None" => OnMediaReady(s).to = "None")
    BY DEF OnMediaReady
  <1>7. /\ EffectOK(c, s, OnMediaStop(s, c \notin NoBye))
        /\ s = "None" => OnMediaStop(s, c \notin NoBye).to = "None"
    <2>1. CASE c \in NoBye
      BY <2>1 DEF OnMediaStop, StopWithBye, Lose, Losing
    <2>2. CASE c \notin NoBye
      BY <2>2 DEF OnMediaStop, StopWithBye
    <2> QED
      BY <2>1, <2>2
  <1>8. EffectOK(c, s, OnExpiry(s, ActiveExpires)) /\ (s = "None" => OnExpiry(s, ActiveExpires).to = "None")
    BY DEF OnExpiry, StopWithBye
  <1>9. s # "None" /\ Losing(c) => EffectOK(c, s, Lose)
    BY DEF Lose
  <1> QED
    BY <1>1, <1>2, <1>3, <1>4, <1>5, <1>6, <1>7, <1>8, <1>9

\* Bridges in use.
InUse(f) == {c \in Call : f[c] # "None"}

LEMMA InUseFinite ==
  ASSUME NEW f
  PROVE  IsFiniteSet(InUse(f)) /\ Cardinality(InUse(f)) \in Nat
  <1>1. InUse(f) \in SUBSET Call /\ IsFiniteSet(Call)
    BY CascadeAssumption DEF InUse
  <1>2. IsFiniteSet(InUse(f))
    BY <1>1, FS_Subset
  <1> QED
    BY <1>2, FS_CardinalityType

\* Effects of that kind keep the account, while they keep the capacity.
LEMMA BridgedInv ==
  ASSUME BridgeInv, TheLink \in ups, UNCHANGED ups, NEW eff, Bridged(eff),
         \A c \in Call : EffectOK(c, bridge[c], eff[c]),
         Cardinality(InUse(bridge')) <= MaxBridges
  PROVE  BridgeInv'
  <1>1. /\ bridge \in [Call -> BridgeState] /\ open \in [Call -> Int]
        /\ dialog \in [Call -> BOOLEAN] /\ BridgesAccounted
    BY DEF BridgeInv
  <1>2. bridge' = [c \in Call |-> eff[c].to]
    BY DEF Bridged
  <1>3. bridge' \in [Call -> BridgeState]
    BY <1>2 DEF EffectOK
  <1>4. dialog' \in [Call -> BOOLEAN] /\ \A c \in Call :
          dialog'[c] = CASE eff[c].dialog = "up" -> TRUE
                         [] eff[c].dialog = "down" -> FALSE
                         [] OTHER -> dialog[c]
    BY <1>1 DEF Bridged
  <1>5. open' \in [Call -> Int] /\ \A c \in Call :
          open'[c] = CASE eff[c].tell = "requested" -> open[c] + 1
                       [] eff[c].tell \in {"stopped", "lost"} -> open[c] - 1
                       [] OTHER -> open[c]
    BY <1>1 DEF Bridged
  <1>6. /\ lost' \subseteq Call
        /\ \A c \in Call : c \in lost' <=> eff[c].tell = "lost" \/ (c \in lost /\ eff[c].tell # "requested")
    BY DEF Bridged
  <1>7. BridgesAccounted'
    <2> SUFFICES ASSUME NEW c \in Call
                 PROVE  /\ open'[c] = IF bridge'[c] = "None" THEN 0 ELSE 1
                        /\ c \in lost' => Losing(c)
                        /\ dialog'[c] => bridge'[c] = "Active" \/ c \in lost' \cup NoBye
      BY DEF BridgesAccounted, Losing
    <2>1. bridge'[c] = eff[c].to /\ EffectOK(c, bridge[c], eff[c]) /\ open[c] \in Int
      BY <1>1, <1>2
    <2>2. /\ open[c] = IF bridge[c] = "None" THEN 0 ELSE 1
          /\ c \in lost => Losing(c)
          /\ dialog[c] => bridge[c] = "Active" \/ c \in lost \cup NoBye
      BY <1>1 DEF BridgesAccounted, Losing
    <2>3. open'[c] = IF bridge'[c] = "None" THEN 0 ELSE 1
      <3>1. CASE bridge[c] = "None"
        BY <1>5, <2>1, <2>2, <3>1 DEF EffectOK
      <3>2. CASE bridge[c] # "None"
        BY <1>5, <2>1, <2>2, <3>2 DEF EffectOK
      <3> QED
        BY <3>1, <3>2
    <2>4. c \in lost' => Losing(c)
      BY <1>6, <2>1, <2>2 DEF EffectOK
    <2>5. dialog'[c] => bridge'[c] = "Active" \/ c \in lost' \cup NoBye
      <3>1. CASE eff[c].dialog = "up"
        BY <2>1, <3>1 DEF EffectOK
      <3>2. CASE eff[c].dialog # "up" /\ dialog'[c]
        <4>1. dialog[c] /\ eff[c].dialog # "down"
          BY <1>4, <3>2
        <4>2. eff[c].tell # "requested"
          BY <2>1, <4>1 DEF EffectOK
        <4> QED
          BY <1>6, <2>1, <2>2, <4>1, <4>2 DEF EffectOK
      <3> QED
        BY <3>1, <3>2
    <2> QED
      BY <2>3, <2>4, <2>5
  <1> QED
    BY <1>3, <1>4, <1>5, <1>6, <1>7 DEF BridgeInv, InUse

\* Effects that make no bridge keep the capacity.
LEMMA NoMoreBridges ==
  ASSUME BridgeInv, NEW eff, Bridged(eff), \A c \in Call : bridge[c] = "None" => eff[c].to = "None"
  PROVE  Cardinality(InUse(bridge')) <= MaxBridges
  <1>1. bridge' = [c \in Call |-> eff[c].to]
    BY DEF Bridged
  <1>2. InUse(bridge') \in SUBSET InUse(bridge)
    BY <1>1 DEF InUse
  <1>3. Cardinality(InUse(bridge')) <= Cardinality(InUse(bridge))
    BY <1>2, InUseFinite, FS_Subset
  <1>4. Cardinality(InUse(bridge)) <= MaxBridges /\ MaxBridges \in Nat
    BY CascadeAssumption DEF BridgeInv, InUse
  <1> QED
    BY <1>3, <1>4, InUseFinite

LEMMA OneMoreBridge ==
  ASSUME BridgeInv, ~Full, NEW c \in Call, NEW eff, Bridged(eff),
         \A d \in Call \ {c} : eff[d].to = bridge[d]
  PROVE  Cardinality(InUse(bridge')) <= MaxBridges
  <1>1. bridge' = [d \in Call |-> eff[d].to]
    BY DEF Bridged
  <1>2. InUse(bridge') \in SUBSET (InUse(bridge) \cup {c})
    BY <1>1 DEF InUse
  <1>3. /\ IsFiniteSet(InUse(bridge) \cup {c})
        /\ Cardinality(InUse(bridge) \cup {c}) <= Cardinality(InUse(bridge)) + 1
    BY InUseFinite, FS_AddElement
  <1>4. Cardinality(InUse(bridge')) <= Cardinality(InUse(bridge) \cup {c})
    BY <1>2, <1>3, FS_Subset
  <1>5. Cardinality(InUse(bridge)) + 1 <= MaxBridges /\ MaxBridges \in Nat
    <2>1. ~(Cardinality(InUse(bridge)) >= MaxBridges)
      BY DEF Full, InUse
    <2>2. MaxBridges \in Nat /\ Cardinality(InUse(bridge)) \in Nat
      BY CascadeAssumption, InUseFinite
    <2> QED
      BY <2>1, <2>2
  <1>6. Cardinality(InUse(bridge) \cup {c}) \in Nat
    BY <1>3, FS_CardinalityType
  <1> QED
    BY <1>3, <1>4, <1>5, <1>6, InUseFinite

\* An effect on one call.
LEMMA OnlyInv ==
  ASSUME BridgeInv, TheLink \in ups, UNCHANGED ups, NEW c \in Call, NEW e,
         Bridged(Only(c, e)), EffectOK(c, bridge[c], e),
         bridge[c] = "None" /\ Full => e.to = "None"
  PROVE  BridgeInv'
  <1> DEFINE eff == Only(c, e)
  <1>1. \A d \in Call : bridge[d] \in BridgeState
    BY DEF BridgeInv
  <1>2. eff[c] = e /\ \A d \in Call \ {c} : eff[d] = Keep(bridge[d])
    BY DEF Only
  <1> HIDE DEF eff
  <1>3. \A d \in Call \ {c} : EffectOK(d, bridge[d], eff[d]) /\ eff[d].to = bridge[d]
    BY <1>1, <1>2, EffectsOK
  <1>4. Bridged(eff)
    BY DEF eff
  <1>5. Cardinality(InUse(bridge')) <= MaxBridges
    <2>1. CASE bridge[c] = "None" => e.to = "None"
      BY <1>2, <1>3, <1>4, <2>1, NoMoreBridges
    <2>2. CASE ~Full
      BY <1>3, <1>4, <2>2, OneMoreBridge
    <2> QED
      BY <2>1, <2>2
  <1> QED
    BY <1>2, <1>3, <1>4, <1>5, BridgedInv

LEMMA BridgeStepInv ==
  ASSUME CascadeInv, NEW c \in Call, UpstreamRequest(c) \/ MediaCommand(c)
  PROVE  CascadeInv'
  <1>1. RegInv /\ LinkTold /\ BridgeInv /\ ReportInv /\ bridge[c] \in BridgeState
    BY DEF CascadeInv, BridgeInv
  <1>2. TheLink \in ups /\ UNCHANGED <<managerVars, reg, told, subVars, reportVars>>
    BY DEF UpstreamRequest, MediaCommand
  <1>3. \E e : /\ Bridged(Only(c, e)) /\ EffectOK(c, bridge[c], e)
               /\ bridge[c] = "None" /\ Full => e.to = "None"
    <2>1. Full \in BOOLEAN
      BY DEF Full
    <2> QED
      BY <1>1, <2>1, EffectsOK DEF UpstreamRequest, MediaCommand
  <1>4. BridgeInv'
    BY <1>1, <1>2, <1>3, OnlyInv DEF managerVars
  <1>5. RegInv' /\ LinkTold' /\ ReportInv'
    BY <1>1, <1>2, RegStays, ReportsStay DEF subVars, reportVars
  <1> QED
    BY <1>2, <1>4, <1>5, MachineStep

-----------------------------------------------------------------------------
\* Subscriptions.

LEMMA SubscriptionInv ==
  ASSUME CascadeInv, NEW s \in Sub, Unsubscribe(s) \/ Subscribe(s) \/ NotifyAnswer(s)
  PROVE  CascadeInv'
  <1>1. /\ RegInv /\ LinkTold /\ BridgeInv /\ ReportInv /\ sub \in [Sub -> SubState]
    BY DEF CascadeInv, RegInv
  <1>2. TheLink \in ups /\ UNCHANGED <<managerVars, reg, told, bridgeVars, reportVars>>
    BY DEF Unsubscribe, Subscribe, NotifyAnswer
  <1>3. /\ NoSub \in SubState /\ NoSub.st = "None"
        /\ [st |-> "Pending", tries |-> 0] \in SubState /\ [st |-> "Quiet", tries |-> 0] \in SubState
    BY CascadeAssumption DEF NoSub, SubState
  <1>4. /\ sub' \in [Sub -> SubState]
        /\ (Live(sub))' \subseteq Live(sub) \/ reg.st = "Registered"
    <2>1. CASE Unsubscribe(s)
      BY <1>1, <1>3, <2>1 DEF Unsubscribe
    <2>2. CASE Subscribe(s)
      BY <1>1, <1>3, <2>2 DEF Subscribe
    <2>3. CASE NotifyAnswer(s)
      <3> DEFINE found == CHOOSE t \in {t \in Live(sub) : SubCall[t] = SubCall[s]} : TRUE
      <3>1. found \in Live(sub) /\ found \in Sub
        <4>1. s \in {t \in Live(sub) : SubCall[t] = SubCall[s]}
          BY <2>3 DEF NotifyAnswer
        <4> QED
          BY <4>1 DEF Live
      <3>2. \/ sub' = [sub EXCEPT ![found] = [st |-> "Quiet", tries |-> 0]]
            \/ sub' = [sub EXCEPT ![found] = NoSub]
        BY <2>3 DEF NotifyAnswer
      <3> HIDE DEF found
      <3>3. sub' \in [Sub -> SubState] /\ \A t \in Sub \ {found} : sub'[t] = sub[t]
        BY <1>1, <1>3, <3>1, <3>2
      <3> QED
        BY <3>1, <3>3 DEF Live
    <2> QED
      BY <2>1, <2>2, <2>3
  <1>5. RegInv' /\ LinkTold'
    BY <1>1, <1>2, <1>4 DEF RegInv, LinkTold
  <1>6. BridgeInv' /\ ReportInv'
    BY <1>1, <1>2, BridgesStay, ReportsStay DEF managerVars, bridgeVars, reportVars
  <1> QED
    BY <1>2, <1>5, <1>6, MachineStep

-----------------------------------------------------------------------------
\* Reports.

\* What is left of a sequence without its oldest elements.
LEMMA DropOldestFacts ==
  ASSUME NEW S, NEW s \in Seq(S), NEW n \in Nat
  PROVE  /\ DropOldest(s, n) \in Seq(S)
         /\ n <= Len(s) => Len(DropOldest(s, n)) = Len(s) - n
         /\ n >= Len(s) => Len(DropOldest(s, n)) = 0
         /\ n = 0 => DropOldest(s, n) = s
  <1> DEFINE m == Smaller(n, Len(s))
  <1>1. Len(s) \in Nat /\ m \in 0 .. Len(s) /\ (n <= Len(s) => m = n) /\ (n >= Len(s) => m = Len(s))
    BY DEF Smaller
  <1>2. DropOldest(s, n) = SubSeq(s, 1 + m, Len(s))
    BY DEF DropOldest
  <1> HIDE DEF m
  <1>3. 1 + m \in Int /\ Len(s) \in Int /\ \A i \in (1 + m) .. Len(s) : s[i] \in S
    BY <1>1
  <1>4. /\ SubSeq(s, 1 + m, Len(s)) \in Seq(S)
        /\ Len(SubSeq(s, 1 + m, Len(s))) = IF 1 + m <= Len(s) THEN Len(s) - (1 + m) + 1 ELSE 0
    BY <1>3, SubSeqProperties
  <1>5. Len(DropOldest(s, n)) = Len(s) - m
    BY <1>1, <1>2, <1>4
  <1>6. n = 0 => DropOldest(s, n) = s
    BY <1>1, <1>2, SubSeqFull
  <1> QED
    BY <1>1, <1>2, <1>4, <1>5, <1>6

\* The arithmetic of enforce_bounds: of x snapshots and y alarms the n oldest
\* snapshots go, k of them stay, and then the m oldest alarms.
LEMMA BoundArithmetic ==
  ASSUME NEW x \in Nat, NEW y \in Nat, NEW z \in Nat, NEW n \in Nat, NEW k \in Nat, NEW m \in Nat,
         NEW q \in Nat,
         n = (IF x + y > z THEN x + y - z ELSE 0),
         n <= x => k = x - n, n >= x => k = 0,
         m = (IF k + y > z THEN k + y - z ELSE 0),
         m <= y => q = y - m, m >= y => q = 0
  PROVE  k + q <= z /\ (y <= z => m = 0)
  OBVIOUS

LEMMA ExcessNat ==
  ASSUME NEW x \in Nat, NEW y \in Nat, NEW z \in Nat
  PROVE  (IF x + y > z THEN x + y - z ELSE 0) \in Nat
  OBVIOUS

LEMMA StoreFacts ==
  ASSUME NEW st \in Store
  PROVE  /\ st.snaps \in Seq(Snapshot) /\ st.queue \in Seq(Alarm)
         /\ Len(st.snaps) \in Nat /\ Len(st.queue) \in Nat
  <1>1. st.snaps \in Seq(Snapshot) /\ st.queue \in Seq(Alarm)
    BY DEF Store
  <1> QED
    BY <1>1

\* enforce_bounds keeps the bound and touches the queue only when there is no
\* other way.
LEMMA BoundedFacts ==
  ASSUME NEW st \in Store
  PROVE  /\ Bounded(st) \in Store
         /\ Len(Bounded(st).snaps) + Len(Bounded(st).queue) <= MaxReports
         /\ Len(st.queue) <= MaxReports => Bounded(st).queue = st.queue
  <1> DEFINE x == Len(st.snaps)
             y == Len(st.queue)
             n == Excess(st)
             kept == DropOldest(st.snaps, n)
             k == Len(kept)
             rest == [st EXCEPT !.snaps = kept]
             m == Excess(rest)
             q == Len(DropOldest(st.queue, m))
  <1>1. /\ st.snaps \in Seq(Snapshot) /\ st.queue \in Seq(Alarm)
        /\ x \in Nat /\ y \in Nat /\ MaxReports \in Nat
    BY StoreFacts, ReportsAssumption
  <1>2. n = (IF x + y > MaxReports THEN x + y - MaxReports ELSE 0)
    BY DEF Excess
  <1>3. rest.snaps = kept /\ rest.queue = st.queue
    BY DEF Store
  <1>4. m = (IF k + y > MaxReports THEN k + y - MaxReports ELSE 0)
    BY <1>3 DEF Excess
  <1>5. Bounded(st) = [snaps |-> kept, queue |-> DropOldest(st.queue, m)]
    BY DEF Bounded
  <1>6. Bounded(st).snaps = kept /\ Bounded(st).queue = DropOldest(st.queue, m)
    BY <1>5
  <1> HIDE DEF rest, m, n
  <1>7. n \in Nat
    <2> HIDE DEF x, y
    <2> QED
      BY <1>1, <1>2, ExcessNat
  <1>8. kept \in Seq(Snapshot) /\ (n <= x => k = x - n) /\ (n >= x => k = 0)
    BY <1>1, <1>7, DropOldestFacts
  <1> HIDE DEF kept
  <1>9. k \in Nat
    BY <1>8
  <1>10. m \in Nat
    <2> HIDE DEF x, y, k
    <2> QED
      BY <1>1, <1>4, <1>9, ExcessNat
  <1>11. /\ DropOldest(st.queue, m) \in Seq(Alarm)
         /\ (m <= y => q = y - m) /\ (m >= y => q = 0)
         /\ m = 0 => DropOldest(st.queue, m) = st.queue
    BY <1>1, <1>10, DropOldestFacts
  <1>12. q \in Nat
    BY <1>11
  <1>13. Bounded(st) \in Store
    BY <1>5, <1>8, <1>11 DEF Store
  <1>14. k + q <= MaxReports /\ (y <= MaxReports => m = 0)
    <2> HIDE DEF x, y, k, q
    <2> QED
      BY <1>1, <1>2, <1>4, <1>7, <1>8, <1>9, <1>10, <1>11, <1>12, BoundArithmetic
  <1> QED
    BY <1>6, <1>11, <1>13, <1>14

LEMMA SumArithmetic ==
  ASSUME NEW x \in Nat, NEW y \in Nat, NEW z \in Nat, x + y <= z
  PROVE  /\ y <= z
         /\ ~(y < z) => y = z /\ x = 0
  OBVIOUS

LEMMA LessArithmetic ==
  ASSUME NEW x \in Nat, NEW y \in Nat, NEW z \in Nat, x + y <= z,
         NEW n \in Nat, n <= x, NEW w \in Nat, w <= y
  PROVE  (x - n) + w <= z
  OBVIOUS

\* A store within its bound.
Within(st) == st \in Store /\ Len(st.snaps) + Len(st.queue) <= MaxReports

\* An alarm gets into the queue, and another one leaves it only from a queue
\* full of alarms.
LEMMA EnqueueAlarmFacts ==
  ASSUME NEW st, Within(st), NEW a \in Alarm
  PROVE  /\ Within(EnqueueAlarm(st, a))
         /\ MaxReports > 0 => a \in ToSet(EnqueueAlarm(st, a).queue)
         /\ \A b \in ToSet(st.queue) : \/ b \in ToSet(EnqueueAlarm(st, a).queue)
                                       \/ Len(st.queue) = MaxReports /\ st.snaps = <<>>
  <1> DEFINE p == Pushed(st.queue, a)
             q == [st EXCEPT !.queue = p]
  <1>1. /\ st.snaps \in Seq(Snapshot) /\ st.queue \in Seq(Alarm) /\ st \in Store
        /\ Len(st.snaps) \in Nat /\ Len(st.queue) \in Nat /\ MaxReports \in Nat
        /\ Len(st.snaps) + Len(st.queue) <= MaxReports
    BY StoreFacts, ReportsAssumption DEF Within
  <1>2. EnqueueAlarm(st, a) = Bounded(q)
    BY DEF EnqueueAlarm
  <1>3. p \in Seq(Alarm)
    BY <1>1 DEF Pushed
  <1>4. q \in Store /\ q.queue = p
    BY <1>1, <1>3 DEF Store
  <1> HIDE DEF q
  <1>5. Within(EnqueueAlarm(st, a)) /\ (Len(p) <= MaxReports => EnqueueAlarm(st, a).queue = p)
    BY <1>2, <1>4, BoundedFacts DEF Within
  <1>6. CASE Len(st.queue) < MaxReports
    <2>1. p = Append(st.queue, a)
      BY <1>1, <1>6 DEF Pushed
    <2>2. Len(p) = Len(st.queue) + 1 /\ p[Len(st.queue) + 1] = a
          /\ \A i \in 1 .. Len(st.queue) : p[i] = st.queue[i]
      BY <1>1, <2>1
    <2>3. EnqueueAlarm(st, a).queue = p
      BY <1>1, <1>5, <1>6, <2>2
    <2>4. a \in ToSet(p) /\ \A b \in ToSet(st.queue) : b \in ToSet(p)
      BY <1>1, <1>3, <2>2 DEF ToSet
    <2> QED
      BY <1>5, <2>3, <2>4
  <1>7. CASE ~(Len(st.queue) < MaxReports) /\ st.queue # <<>>
    <2>1. p = Append(Tail(st.queue), a)
      BY <1>1, <1>7 DEF Pushed
    <2>2. Tail(st.queue) \in Seq(Alarm) /\ Len(Tail(st.queue)) = Len(st.queue) - 1
      BY <1>1, <1>7
    <2>3. Len(p) = Len(st.queue) /\ p[Len(st.queue)] = a /\ Len(st.queue) > 0
      BY <1>1, <1>7, <2>1, <2>2
    <2>4. Len(st.queue) = MaxReports /\ Len(st.snaps) = 0
      <3>1. ~(Len(st.queue) < MaxReports) => Len(st.queue) = MaxReports /\ Len(st.snaps) = 0
        BY <1>1, SumArithmetic, Zenon
      <3> QED
        BY <1>7, <3>1, Zenon
    <2>5. st.snaps = <<>>
      BY <1>1, <2>4
    <2>6. EnqueueAlarm(st, a).queue = p
      BY <1>1, <1>5, <2>3, <2>4
    <2>7. a \in ToSet(p)
      BY <1>1, <1>3, <2>3 DEF ToSet
    <2> QED
      BY <1>5, <2>4, <2>5, <2>6, <2>7
  <1>8. CASE ~(Len(st.queue) < MaxReports) /\ st.queue = <<>>
    <2>1. MaxReports = 0 /\ ToSet(st.queue) = {}
      BY <1>1, <1>8 DEF ToSet
    <2> QED
      BY <1>5, <2>1
  <1> QED
    BY <1>6, <1>7, <1>8

\* A snapshot never costs an alarm.
LEMMA EnqueueSnapshotFacts ==
  ASSUME NEW st, Within(st), NEW k \in Snapshot
  PROVE  Within(EnqueueSnapshot(st, k)) /\ EnqueueSnapshot(st, k).queue = st.queue
  <1> DEFINE w == Without(st.snaps, k)
             q == [st EXCEPT !.snaps = Append(w, k)]
  <1>1. /\ st.snaps \in Seq(Snapshot) /\ st.queue \in Seq(Alarm) /\ st \in Store
        /\ Len(st.snaps) \in Nat /\ Len(st.queue) \in Nat /\ MaxReports \in Nat
        /\ Len(st.snaps) + Len(st.queue) <= MaxReports
    BY StoreFacts, ReportsAssumption DEF Within
  <1>2. w \in Seq(Snapshot)
    <2>1. CASE k \notin ToSet(st.snaps)
      BY <1>1, <2>1 DEF Without
    <2>2. CASE k \in ToSet(st.snaps)
      <3> DEFINE i == CHOOSE i \in DOMAIN st.snaps : st.snaps[i] = k
      <3>1. i \in 1 .. Len(st.snaps)
        <4>1. \E j \in DOMAIN st.snaps : st.snaps[j] = k
          BY <2>2 DEF ToSet
        <4> QED
          BY <1>1, <4>1
      <3>2. w = SubSeq(st.snaps, 1, i - 1) \o SubSeq(st.snaps, i + 1, Len(st.snaps))
        BY <2>2 DEF Without, RemoveAt
      <3> HIDE DEF i, w
      <3>3. SubSeq(st.snaps, 1, i - 1) \in Seq(Snapshot)
        <4>1. \A j \in 1 .. (i - 1) : st.snaps[j] \in Snapshot
          BY <1>1, <3>1
        <4> QED
          BY <3>1, <4>1, SubSeqProperties
      <3>4. SubSeq(st.snaps, i + 1, Len(st.snaps)) \in Seq(Snapshot)
        <4>1. \A j \in (i + 1) .. Len(st.snaps) : st.snaps[j] \in Snapshot
          BY <1>1, <3>1
        <4> QED
          BY <1>1, <3>1, <4>1, SubSeqProperties
      <3> QED
        BY <3>2, <3>3, <3>4, ConcatProperties
    <2> QED
      BY <2>1, <2>2
  <1> HIDE DEF w
  <1>3. Append(w, k) \in Seq(Snapshot)
    BY <1>2
  <1>4. q \in Store /\ q.queue = st.queue
    BY <1>1, <1>3 DEF Store
  <1>5. EnqueueSnapshot(st, k) = Bounded(q)
    BY DEF EnqueueSnapshot, w
  <1> HIDE DEF q
  <1>6. Len(st.queue) <= MaxReports
    BY <1>1, SumArithmetic, Zenon
  <1> QED
    BY <1>4, <1>5, <1>6, BoundedFacts DEF Within

\* prune_expired keeps every alarm; flush sends them all.
LEMMA PrunedFacts ==
  ASSUME NEW st, Within(st), NEW n \in 0 .. Len(st.snaps)
  PROVE  Within(Pruned(st, n)) /\ Pruned(st, n).queue = st.queue
  <1>1. /\ st.snaps \in Seq(Snapshot) /\ st.queue \in Seq(Alarm) /\ st \in Store
        /\ Len(st.snaps) \in Nat /\ Len(st.queue) \in Nat /\ MaxReports \in Nat
        /\ Len(st.snaps) + Len(st.queue) <= MaxReports
    BY StoreFacts, ReportsAssumption DEF Within
  <1>2. n \in Nat /\ n <= Len(st.snaps)
    BY <1>1
  <1>3. DropOldest(st.snaps, n) \in Seq(Snapshot) /\ Len(DropOldest(st.snaps, n)) = Len(st.snaps) - n
    BY <1>1, <1>2, DropOldestFacts
  <1>4. /\ Pruned(st, n) \in Store /\ Pruned(st, n).queue = st.queue
        /\ Pruned(st, n).snaps = DropOldest(st.snaps, n)
    BY <1>1, <1>3 DEF Pruned, Store
  <1>5. (Len(st.snaps) - n) + Len(st.queue) <= MaxReports
    <2>1. Len(st.queue) <= Len(st.queue)
      BY <1>1
    <2> QED
      BY <1>1, <1>2, <2>1, LessArithmetic, Zenon
  <1> QED
    BY <1>3, <1>4, <1>5, Zenon DEF Within

LEMMA FlushedFacts ==
  ASSUME NEW st, Within(st)
  PROVE  Within(Flushed(st)) /\ Flushed(st).queue = <<>>
  <1> DEFINE m == Smaller(Len(st.snaps), MaxReports - Smaller(Len(st.queue), MaxReports))
  <1>1. /\ st.snaps \in Seq(Snapshot) /\ st.queue \in Seq(Alarm)
        /\ Len(st.snaps) \in Nat /\ Len(st.queue) \in Nat /\ MaxReports \in Nat
        /\ Len(st.snaps) + Len(st.queue) <= MaxReports
    BY StoreFacts, ReportsAssumption DEF Within
  <1>2. m \in Nat /\ m <= Len(st.snaps)
    BY <1>1 DEF Smaller
  <1>3. Flushed(st) = [snaps |-> DropOldest(st.snaps, m), queue |-> <<>>]
    BY DEF Flushed
  <1> HIDE DEF m
  <1>4. DropOldest(st.snaps, m) \in Seq(Snapshot) /\ Len(DropOldest(st.snaps, m)) = Len(st.snaps) - m
    BY <1>1, <1>2, DropOldestFacts
  <1>5. /\ Flushed(st) \in Store /\ Flushed(st).queue = <<>>
        /\ Flushed(st).snaps = DropOldest(st.snaps, m)
    BY <1>3, <1>4 DEF Store
  <1>6. Len(Flushed(st).queue) \in Nat /\ Len(Flushed(st).queue) <= Len(st.queue)
    BY <1>1, <1>5
  <1>7. (Len(st.snaps) - m) + Len(Flushed(st).queue) <= MaxReports
    BY <1>1, <1>2, <1>6, LessArithmetic, Zenon
  <1> QED
    BY <1>4, <1>5, <1>7, Zenon DEF Within

LEMMA ReportStepInv ==
  ASSUME CascadeInv, Report
  PROVE  CascadeInv'
  <1>1. RegInv /\ LinkTold /\ BridgeInv /\ Within(store)
    BY DEF CascadeInv, ReportInv, Within
  <1>2. TheLink \in ups /\ UNCHANGED <<managerVars, reg, told, bridgeVars, subVars>>
    BY DEF Report
  <1>3. ReportInv'
    BY <1>1, EnqueueAlarmFacts, EnqueueSnapshotFacts DEF Report, ReportInv, Within
  <1>4. RegInv' /\ LinkTold' /\ BridgeInv'
    BY <1>1, <1>2, RegStays, BridgesStay DEF managerVars, bridgeVars, subVars
  <1> QED
    BY <1>2, <1>3, <1>4, MachineStep

\* on_tick: the deadlines of bridges, subscriptions and the registration.
LEMMA TickedOK ==
  ASSUME RegInv, NEW expired, NEW silent \in SUBSET {s \in Sub \ expired : sub[s].st = "Pending"}
  PROVE  Ticked(expired, silent) \in [Sub -> SubState] /\ Live(Ticked(expired, silent)) \subseteq Live(sub)
  <1> SUFFICES ASSUME NEW s \in Sub
               PROVE  /\ Ticked(expired, silent)[s] \in SubState
                      /\ Ticked(expired, silent)[s].st # "None" => sub[s].st # "None"
    BY DEF Ticked, Live
  <1>1. sub[s] \in SubState /\ NoSub \in SubState /\ NoSub.st = "None"
    BY CascadeAssumption DEF RegInv, NoSub, SubState
  <1>2. CASE s \in expired \/ (s \in silent /\ sub[s].tries >= NotifyMaxRetries)
    BY <1>1, <1>2 DEF Ticked
  <1>3. CASE ~(s \in expired \/ (s \in silent /\ sub[s].tries >= NotifyMaxRetries)) /\ s \in silent
    <2> DEFINE t == [sub[s] EXCEPT !.tries = sub[s].tries + 1]
    <2>1. sub[s].tries + 1 \in 0 .. NotifyMaxRetries
      BY <1>1, <1>3, CascadeAssumption DEF SubState
    <2>2. t \in SubState /\ t.st = sub[s].st
      BY <1>1, <2>1 DEF SubState
    <2>3. Ticked(expired, silent)[s] = t
      BY <1>3 DEF Ticked
    <2> QED
      BY <2>2, <2>3
  <1>4. CASE s \notin expired /\ s \notin silent
    BY <1>1, <1>4 DEF Ticked
  <1> QED
    BY <1>2, <1>3, <1>4

LEMMA TickedRegOK ==
  ASSUME RegInv, NEW due \in BOOLEAN, NEW r \in TickedReg(due)
  PROVE  RegOK(r)
  <1>1. RegOK(reg) /\ reg.attempt \in Nat /\ reg.st \in RegState
    BY RegFacts DEF RegInv
  <1>2. CASE reg.st = "Registered" /\ due
    BY <1>2, RenewalsOK DEF TickedReg
  <1>3. CASE reg.st = "Registered" /\ ~due
    BY <1>1, <1>3, KeepaliveOK DEF TickedReg
  <1>4. CASE reg.st = "Failed" /\ due
    BY <1>4, StartedOK DEF TickedReg
  <1>5. CASE reg.st \in {"Registering", "Deregistering"} /\ due
    <2>1. r = Failure(reg.attempt, reg.st = "Deregistering")
      BY <1>5 DEF TickedReg
    <2> QED
      BY <1>1, <2>1, FailureOK
  <1>6. CASE reg.st \notin {"Registered"} /\ ~(reg.st # "Idle" /\ due)
    BY <1>1, <1>6 DEF TickedReg
  <1> QED
    BY <1>1, <1>2, <1>3, <1>4, <1>5, <1>6 DEF RegState

LEMMA TickInv ==
  ASSUME CascadeInv, NEW calls, NEW due \in BOOLEAN, Tick(calls, due)
  PROVE  CascadeInv'
  <1>1. RegInv /\ LinkTold /\ BridgeInv /\ Within(store) /\ \A c \in Call : bridge[c] \in BridgeState
    BY DEF CascadeInv, ReportInv, Within, BridgeInv
  <1>2. TheLink \in ups /\ UNCHANGED managerVars
    BY DEF Tick
  <1>3. BridgeInv'
    <2>1. PICK over : Bridged([c \in Call |-> IF c \in over THEN OnExpiry(bridge[c], ActiveExpires)
                                             ELSE Keep(bridge[c])])
      BY DEF Tick
    <2> DEFINE eff == [c \in Call |-> IF c \in over THEN OnExpiry(bridge[c], ActiveExpires)
                                     ELSE Keep(bridge[c])]
    <2>2. \A c \in Call : eff[c] \in {OnExpiry(bridge[c], ActiveExpires), Keep(bridge[c])}
      OBVIOUS
    <2>3. Bridged(eff)
      BY <2>1
    <2> HIDE DEF eff
    <2>4. \A c \in Call : EffectOK(c, bridge[c], eff[c]) /\ (bridge[c] = "None" => eff[c].to = "None")
      BY <1>1, <2>2, EffectsOK
    <2> QED
      BY <1>1, <1>2, <2>3, <2>4, NoMoreBridges, BridgedInv DEF managerVars
  <1>4. RegInv' /\ LinkTold'
    <2>1. PICK r \in TickedReg(due) : \E expired \in SUBSET Live(sub) :
            \E silent \in SUBSET {s \in Sub \ expired : sub[s].st = "Pending"} :
              Settle(r, Ticked(expired, silent))
      BY DEF Tick
    <2>2. PICK expired, silent : /\ silent \in SUBSET {s \in Sub \ expired : sub[s].st = "Pending"}
                                 /\ Settle(r, Ticked(expired, silent))
      BY <2>1
    <2> QED
      BY <1>1, <2>2, TickedOK, TickedRegOK, SettleInv
  <1>5. ReportInv'
    <2>1. PICK n \in 0 .. Len(store.snaps) :
            store' = IF reg'.st = "Registered" THEN Flushed(Pruned(store, n)) ELSE Pruned(store, n)
      BY DEF Tick
    <2> QED
      BY <1>1, <2>1, PrunedFacts, FlushedFacts DEF ReportInv, Within
  <1> QED
    BY <1>2, <1>3, <1>4, <1>5, MachineStep

LEMMA TickFailsInv ==
  ASSUME CascadeInv, TickFails
  PROVE  CascadeInv'
  <1>1. RegInv /\ LinkTold /\ BridgeInv /\ ReportInv /\ \A c \in Call : bridge[c] \in BridgeState
    BY DEF CascadeInv, BridgeInv
  <1>2. TheLink \in ups /\ UNCHANGED <<managerVars, reg, told, subVars, reportVars>>
    BY DEF TickFails
  <1>3. \A c \in Call : Losing(c)
    BY DEF TickFails, Stuck, Losing
  <1>4. PICK before \in SUBSET {c \in Call \ Stuck : bridge[c] # "None"} :
          Bridged([c \in Call |-> IF c \in before THEN Lose ELSE Keep(bridge[c])])
    BY DEF TickFails
  <1> DEFINE eff == [c \in Call |-> IF c \in before THEN Lose ELSE Keep(bridge[c])]
  <1>5. \A c \in Call : eff[c] = Keep(bridge[c]) \/ (eff[c] = Lose /\ bridge[c] # "None")
    OBVIOUS
  <1>6. Bridged(eff)
    BY <1>4
  <1> HIDE DEF eff
  <1>7. \A c \in Call : EffectOK(c, bridge[c], eff[c]) /\ (bridge[c] = "None" => eff[c].to = "None")
    <2> SUFFICES ASSUME NEW c \in Call
                 PROVE  EffectOK(c, bridge[c], eff[c]) /\ (bridge[c] = "None" => eff[c].to = "None")
      OBVIOUS
    <2>1. CASE eff[c] = Keep(bridge[c])
      BY <1>1, <2>1 DEF EffectOK, Keep
    <2>2. CASE eff[c] = Lose /\ bridge[c] # "None"
      BY <1>1, <1>3, <2>2, EffectsOK
    <2> QED
      BY <1>5, <2>1, <2>2
  <1>8. BridgeInv'
    BY <1>1, <1>2, <1>6, <1>7, NoMoreBridges, BridgedInv DEF managerVars
  <1>9. RegInv' /\ LinkTold' /\ ReportInv'
    BY <1>1, <1>2, RegStays, ReportsStay DEF subVars, reportVars
  <1> QED
    BY <1>2, <1>8, <1>9, MachineStep

-----------------------------------------------------------------------------
\* The manager.

LEMMA AddUpstreamInv ==
  ASSUME CascadeInv, NEW l \in Link, AddUpstream(l)
  PROVE  CascadeInv'
  <1>1. /\ l \notin ups /\ ups' = ups \cup {l}
        /\ UNCHANGED <<control, reg, told, bridge, lost, dialog, sub, order, store, raised>>
        /\ IF l = TheLink THEN open' = [c \in Call |-> 0] ELSE UNCHANGED open
    BY DEF AddUpstream, subVars, reportVars
  <1>2. ControlInv'
    BY <1>1 DEF CascadeInv, ControlInv, ControlHasLink
  <1>3. RegInv' /\ LinkTold' /\ ReportInv'
    BY <1>1, RegStays, ReportsStay DEF CascadeInv
  <1>4. GoneInv'
    BY <1>1 DEF CascadeInv, GoneInv
  <1>5. BridgeInv'
    <2>1. CASE l = TheLink
      <3>1. lost' = {} /\ \A c \in Call : bridge'[c] = "None" /\ ~dialog'[c] /\ open'[c] = 0
        BY <1>1, <2>1 DEF CascadeInv, GoneInv
      <3>2. open' \in [Call -> Int]
        BY <1>1, <2>1
      <3> QED
        BY <1>1, <3>1, <3>2 DEF CascadeInv, BridgeInv, BridgesAccounted
    <2>2. CASE l # TheLink
      BY <1>1, <2>2 DEF CascadeInv, BridgeInv, BridgesAccounted
    <2> QED
      BY <2>1, <2>2
  <1> QED
    BY <1>2, <1>3, <1>4, <1>5 DEF CascadeInv

\* Nothing of a machine survives its removal, and no control does.
LEMMA RemoveUpstreamInv ==
  ASSUME CascadeInv, NEW l \in Link, RemoveUpstream(l)
  PROVE  CascadeInv'
  <1>1. /\ ups' = ups \ {l}
        /\ control' = [r \in Resource |-> IF control[r] = l THEN NoLink ELSE control[r]]
    BY DEF RemoveUpstream
  <1>2. ControlInv'
    BY <1>1 DEF CascadeInv, ControlInv, ControlHasLink
  <1>3. CASE l # TheLink
    <2>1. UNCHANGED <<reg, told, bridge, open, lost, dialog, sub, order, store, raised>>
      BY <1>3 DEF RemoveUpstream, bridgeVars, subVars, reportVars
    <2>2. TheLink \in ups' <=> TheLink \in ups
      BY <1>1, <1>3
    <2>3. RegInv' /\ LinkTold' /\ ReportInv'
      BY <2>1, RegStays, ReportsStay DEF CascadeInv
    <2>4. GoneInv' /\ BridgeInv'
      BY <2>1, <2>2 DEF CascadeInv, GoneInv, BridgeInv, BridgesAccounted
    <2> QED
      BY <1>2, <2>3, <2>4 DEF CascadeInv
  <1>4. CASE l = TheLink
    <2>1. /\ reg' = Idle /\ told' = "none" /\ store' = NoReports
          /\ bridge' = [c \in Call |-> "None"] /\ dialog' = [c \in Call |-> FALSE]
          /\ lost' = {} /\ sub' = [s \in Sub |-> NoSub] /\ UNCHANGED open
      BY <1>4 DEF RemoveUpstream
    <2>2. TheLink \notin ups'
      BY <1>1, <1>4
    <2>3. NoSub \in SubState /\ NoSub.st = "None"
      BY CascadeAssumption DEF NoSub, SubState
    <2>4. RegInv'
      BY <2>1, <2>3, IdleOK DEF RegInv
    <2>5. LinkTold'
      BY <2>1, <2>3, IdleOK DEF LinkTold, Live
    <2>6. GoneInv'
      BY <2>1 DEF GoneInv
    <2>7. BridgeInv'
      <3>1. Cardinality(InUse(bridge')) <= MaxBridges
        <4>1. InUse(bridge') = {}
          BY <2>1 DEF InUse
        <4>2. Cardinality(InUse(bridge')) = 0 /\ MaxBridges \in Nat
          BY <4>1, FS_EmptySet, CascadeAssumption
        <4> QED
          BY <4>2
      <3> QED
        BY <2>1, <2>2, <3>1 DEF CascadeInv, BridgeInv, BridgesAccounted, BridgeState, InUse
    <2>8. ReportInv'
      BY <2>1, ReportsAssumption DEF ReportInv, NoReports, Store
    <2> QED
      BY <1>2, <2>4, <2>5, <2>6, <2>7, <2>8 DEF CascadeInv
  <1> QED
    BY <1>3, <1>4

LEMMA ControlStepInv ==
  ASSUME CascadeInv, NEW r \in Resource, NEW l \in Link, AcquireControl(r, l) \/ ReleaseControl(r, l)
  PROVE  CascadeInv'
  <1>1. UNCHANGED <<ups, reg, told, bridge, open, lost, dialog, sub, store>>
    BY DEF AcquireControl, ReleaseControl, bridgeVars, subVars, reportVars
  <1>2. ControlInv'
    BY DEF CascadeInv, ControlInv, ControlHasLink, AcquireControl, ReleaseControl
  <1>3. RegInv' /\ LinkTold' /\ ReportInv' /\ BridgeInv'
    BY <1>1, RegStays, ReportsStay, BridgesStay DEF CascadeInv
  <1>4. GoneInv'
    BY <1>1 DEF CascadeInv, GoneInv
  <1> QED
    BY <1>2, <1>3, <1>4 DEF CascadeInv

-----------------------------------------------------------------------------
LEMMA CascadeInitInv == CascadeInit => CascadeInv
  <1> SUFFICES ASSUME CascadeInit PROVE CascadeInv
    OBVIOUS
  <1>1. ControlInv
    BY DEF CascadeInit, ControlInv, ControlHasLink
  <1>2. NoSub \in SubState /\ NoSub.st = "None"
    BY CascadeAssumption DEF NoSub, SubState
  <1>3. RegInv /\ LinkTold
    BY <1>2, IdleOK DEF CascadeInit, RegInv, LinkTold, Live
  <1>4. GoneInv
    BY DEF CascadeInit, GoneInv
  <1>5. BridgeInv
    <2>1. InUse(bridge) = {}
      BY DEF CascadeInit, InUse
    <2>2. Cardinality(InUse(bridge)) = 0 /\ MaxBridges \in Nat
      BY <2>1, FS_EmptySet, CascadeAssumption
    <2> QED
      BY <2>2 DEF CascadeInit, BridgeInv, BridgesAccounted, BridgeState, InUse
  <1>6. ReportInv
    BY ReportsAssumption DEF CascadeInit, ReportInv, NoReports, Store
  <1> QED
    BY <1>1, <1>3, <1>4, <1>5, <1>6 DEF CascadeInv

LEMMA CascadeNextInv == CascadeInv /\ [CascadeNext]_cascadeVars => CascadeInv'
  <1> SUFFICES ASSUME CascadeInv, [CascadeNext]_cascadeVars PROVE CascadeInv'
    OBVIOUS
  <1>1. CASE UNCHANGED cascadeVars
    BY <1>1, RegStays, BridgesStay, ReportsStay
       DEF cascadeVars, CascadeInv, ControlInv, ControlHasLink, GoneInv
  <1>2. CASE \E due \in BOOLEAN : Tick({}, due)
    BY <1>2, TickInv
  <1> QED
    BY <1>1, <1>2, RegistrationInv, BridgeStepInv, SubscriptionInv, ReportStepInv,
       TickFailsInv, AddUpstreamInv, RemoveUpstreamInv, ControlStepInv DEF CascadeNext

LEMMA CascadeInvariance == CascadeSpec => []CascadeInv
  BY CascadeInitInv, CascadeNextInv, PTL DEF CascadeSpec

\* The application has been asked for the media of exactly the bridges that
\* exist and of lost ones, whatever order requests, commands and deadlines come
\* in, and a bridge is lost only where a BYE cannot be built (bridge.rs).
THEOREM BridgesInAccount == CascadeSpec => []BridgesAccounted
  BY CascadeInvariance, PTL DEF CascadeInv, BridgeInv

\* What the application was told agrees with the registration, and no
\* subscription outlives the connection (fail_or_retry, keepalive_failure,
\* subscriptions.clear).
THEOREM LinkAnnounced == CascadeSpec => []LinkTold
  BY CascadeInvariance, PTL DEF CascadeInv

\* Only a link the manager holds controls a resource (remove_upstream).
THEOREM ControlByLinks == CascadeSpec => []ControlHasLink
  BY CascadeInvariance, PTL DEF CascadeInv, ControlInv

\* The bridges stay within media_bridge_max_sessions and the reports within
\* report_max_queue_size.
THEOREM CascadeBounded ==
  CascadeSpec => [](/\ Cardinality({c \in Call : bridge[c] # "None"}) <= MaxBridges
                    /\ Len(store.snaps) + Len(store.queue) <= MaxReports)
  BY CascadeInvariance, PTL DEF CascadeInv, BridgeInv, ReportInv

\* The reports of a step: which alarms it may take out of the queue.
LEMMA ReportsOf ==
  ASSUME CascadeInv, [CascadeNext]_cascadeVars
  PROVE  \/ UNCHANGED <<store, raised>>
         \/ UNCHANGED raised /\ TheLink \notin ups'
         \/ /\ UNCHANGED raised /\ reg'.st = "Registered" /\ store'.queue = <<>>
         \/ UNCHANGED raised /\ store'.queue = store.queue
         \/ \E a \in Alarm : store' = EnqueueAlarm(store, a) /\ raised' = raised \cup {a}
  <1>1. Within(store)
    BY DEF CascadeInv, ReportInv, Within
  <1>2. CASE Report
    BY <1>1, <1>2, EnqueueSnapshotFacts DEF Report
  <1>3. ASSUME NEW due \in BOOLEAN, Tick({}, due)
        PROVE  \/ UNCHANGED raised /\ reg'.st = "Registered" /\ store'.queue = <<>>
               \/ UNCHANGED raised /\ store'.queue = store.queue
    <2>1. PICK n \in 0 .. Len(store.snaps) :
            store' = IF reg'.st = "Registered" THEN Flushed(Pruned(store, n)) ELSE Pruned(store, n)
      BY <1>3 DEF Tick
    <2> QED
      BY <1>1, <1>3, <2>1, PrunedFacts, FlushedFacts DEF Tick
  <1>4. ASSUME NEW l \in Link, RemoveUpstream(l)
        PROVE  UNCHANGED <<store, raised>> \/ (UNCHANGED raised /\ TheLink \notin ups')
    BY <1>4 DEF RemoveUpstream, reportVars
  <1>5. CASE UNCHANGED reportVars
    BY <1>5 DEF reportVars
  <1>6. CASE \/ Register \/ Deregister \/ RegisterAnswer \/ KeepaliveAnswer
             \/ \E c \in Call : UpstreamRequest(c) \/ MediaCommand(c)
             \/ \E s \in Sub : Unsubscribe(s) \/ Subscribe(s) \/ NotifyAnswer(s)
             \/ TickFails \/ \E l \in Link : AddUpstream(l)
             \/ \E r \in Resource, l \in Link : AcquireControl(r, l) \/ ReleaseControl(r, l)
    BY <1>5, <1>6 DEF Register, Deregister, RegisterAnswer, KeepaliveAnswer, UpstreamRequest,
       MediaCommand, Unsubscribe, Subscribe, NotifyAnswer, TickFails, AddUpstream, AcquireControl, ReleaseControl
  <1>7. CASE UNCHANGED cascadeVars
    BY <1>7 DEF cascadeVars
  <1> QED
    BY <1>2, <1>3, <1>4, <1>6, <1>7 DEF CascadeNext

\* An alarm that was raised waits until it is sent, unless only alarms compete
\* for a full queue or the link is removed (push_to_queue, enforce_bounds, flush).
THEOREM AlarmsWait == CascadeSpec => AlarmsKept
  <1> DEFINE Kept == /\ \A a \in ToSet(store.queue) \ ToSet(store'.queue) :
                          \/ reg'.st = "Registered" /\ store'.queue = <<>>
                          \/ TheLink \notin ups'
                          \/ Len(store.queue) = MaxReports /\ store.snaps = <<>>
                     /\ MaxReports > 0 => \A a \in raised' \ raised : a \in ToSet(store'.queue)
  <1>1. CascadeInv /\ [CascadeNext]_cascadeVars => Kept
    <2> SUFFICES ASSUME CascadeInv, [CascadeNext]_cascadeVars PROVE Kept
      OBVIOUS
    <2>1. Within(store)
      BY DEF CascadeInv, ReportInv, Within
    <2>2. ASSUME NEW a \in Alarm, store' = EnqueueAlarm(store, a), raised' = raised \cup {a}
          PROVE  Kept
      BY <2>1, <2>2, EnqueueAlarmFacts
    <2> QED
      BY <2>2, ReportsOf
  <1>2. CascadeInv /\ [CascadeNext]_cascadeVars => [Kept]_cascadeVars
    BY <1>1
  <1> QED
    BY <1>2, CascadeInvariance, PTL DEF CascadeSpec, AlarmsKept

-----------------------------------------------------------------------------
\* The SIP driver: its inductive invariant.

Fields == {"st", "method", "prov", "final", "n", "timers", "idle"}

\* A transaction keeps provisional and final responses apart.
Sound(e) ==
  /\ DOMAIN e = Fields /\ e.idle \in Nat
  /\ e.final \subseteq Response /\ e.prov \subseteq Response
  /\ \A r \in e.prov : Provisional(r)

\* One that is in a table has not ended.
EntryOK(e) == Sound(e) /\ e.st # "Terminated"

\* What a loop is doing: a request that is no ACK, with at most one provisional
\* response before the last one.
WorkOK(w) ==
  /\ w.pc # "idle" => w.m \in Request /\ Header[w.m].method # "ACK"
  /\ w.pc \in {"establish", "provide"} =>
       \/ Len(w.replies) = 1
       \/ Len(w.replies) = 2 /\ Provisional(w.replies[1])
  /\ w.pc = "establish" => Establishes(w.m, Head(w.replies))

Pc == {"idle", "dialog", "access", "establish", "provide"}

PeerSet == [left : -1 .. Timeout + T4, age : -1 .. Timeout, tag : Nat]

SipTypeOK ==
  /\ DOMAIN server = Key /\ \A k \in Key : EntryOK(server[k])
  /\ dialogs \in [1 .. MaxTags -> Dialog]
  /\ loop \in [Loop -> [pc : Pc, m : Request \cup {NoRequest}, replies : Seq(Response)]]
  /\ \A l \in Loop : WorkOK(loop[l])
  /\ tags \in Nat
  /\ peer \in [Request -> PeerSet]
  /\ air \in [Key -> SUBSET Response] /\ finals \in [Key -> SUBSET Response]
  /\ handed \in [Request -> Nat]

Handles(l, m) == loop[l].pc # "idle" /\ loop[l].m = m

\* The request is on its way to the access machine.
Waits(l, m) == loop[l].pc \in {"dialog", "access"} /\ loop[l].m = m

\* The request has not been answered finally: no timer runs.
Unanswered(e) == e.st \in {"Trying", "Proceeding"} /\ DOMAIN e.timers = {}

\* For how long timers H and J are meant to run: from the first copy.
Window(p) == IF p.age = -1 THEN Timeout ELSE Timeout - p.age

\* For how long copies come that are not late.
Near(p) == IF p.left < Window(p) THEN p.left ELSE Window(p)

\* A request of which no copy was taken has left no trace.
NoTrace(m) ==
  /\ ~Present(server[KeyOf(m)]) /\ finals[KeyOf(m)] = {} /\ handed[m] = 0
  /\ \A l \in Loop : ~Handles(l, m)

NotSentOK(m) ==
  /\ peer[m].left = -1 => peer[m].age = -1
  /\ peer[m].age = -1 => NoTrace(m) /\ air[KeyOf(m)] = {}

\* An entry belongs to the request that started it.
OwnEntry(m) == Present(server[KeyOf(m)]) => server[KeyOf(m)].method = Header[m].method

\* While an INVITE is handled, by one loop, its transaction waits for the answer.
InviteHeld(m) ==
  Header[m].method = "INVITE" /\ Header[m].keyed /\ KeyOf(m) \notin evicted =>
    \A l \in Loop : Handles(l, m) =>
      /\ server[KeyOf(m)].st = "Proceeding" /\ DOMAIN server[KeyOf(m)].timers = {}
      /\ server[KeyOf(m)].idle = 0
      /\ \A i \in Loop : Handles(i, m) => i = l

\* The timer k is the only one and outlasts the copies, which come for left.
Outlasts(e, k, left) == k \in DOMAIN e.timers /\ e.timers[k] \in Nat /\ left <= e.timers[k]

\* The entry stays for as long as copies of its request come: it waits for an
\* answer, or for a timer that is due after the last copy.
Guards(e, left) ==
  \/ Unanswered(e) /\ e.final = {}
  \/ e.st = "Completed" /\ Invite(e) /\ DOMAIN e.timers \subseteq {"G", "H"} /\ Outlasts(e, "H", left)
  \/ e.st = "Completed" /\ ~Invite(e) /\ DOMAIN e.timers = {"J"} /\ Outlasts(e, "J", left)
  \/ e.st = "Confirmed" /\ Invite(e) /\ DOMAIN e.timers = {"I"} /\ Outlasts(e, "I", left)

\* A request has an entry that guards against the copies that are not late,
\* keeps what was answered and will not be idle for too long.
Guarded(m) ==
  /\ ~Header[m].tcp /\ Present(server[KeyOf(m)])
  /\ server[KeyOf(m)].idle + Near(peer[m]) <= Timeout
  /\ server[KeyOf(m)].final = finals[KeyOf(m)]
  /\ Guards(server[KeyOf(m)], Near(peer[m]))

OnceOK(m) ==
  /\ handed[m] <= 1
  /\ \A l \in Loop : Waits(l, m) => handed[m] = 0 /\ \A i \in Loop : Waits(i, m) => i = l
  /\ Near(peer[m]) > 0 => NoTrace(m) \/ Guarded(m)

\* What holds of every request that is no ACK.
RequestOK(m) ==
  /\ NotSentOK(m) /\ OwnEntry(m) /\ InviteHeld(m)
  /\ Tracked(m) /\ ~Accepted(m) /\ m \notin late => OnceOK(m)

\* When an ACK was sent copies of its INVITE come for T4 at most. One with a CSeq
\* of its own finds no entry and gets no answer.
AckOK(n) ==
  /\ peer[n].left # -1 =>
       \A m \in Request : Header[m].method # "ACK" /\ KeyOf(m) = KeyOf(n) =>
         peer[m].left <= T4 /\ peer[m].left # -1
  /\ Conforming(n) => ~Present(server[KeyOf(n)]) /\ finals[KeyOf(n)] = {}

RequestsOK == \A m \in Request : IF Header[m].method = "ACK" THEN AckOK(m) ELSE RequestOK(m)

Ok(t) == [code |-> "2xx", tag |-> t]

\* A dialog was offered by a success that was sent, or that is about to be, or
\* an INVITE has been evicted.
Offered ==
  \A t \in Up(dialogs) :
    \/ \E k \in Key : Ok(t) \in finals[k]
    \/ \E l \in Loop : /\ loop[l].pc = "provide" /\ Head(loop[l].replies) = Ok(t)
                       /\ Header[loop[l].m].method = "INVITE"
    \/ \E m \in Request : Header[m].method = "INVITE" /\ KeyOf(m) \in evicted

SipInv == SipTypeOK /\ RequestsOK /\ Offered

-----------------------------------------------------------------------------
\* Requests and their keys.

LEMMA HeaderFacts ==
  ASSUME NEW m \in Request
  PROVE  /\ Header[m].tcp \in BOOLEAN /\ Header[m].keyed \in BOOLEAN /\ Header[m].cseq \in Nat
         /\ KeyOf(m) \in Key
  BY SipAssumption DEF Key

\* Requests that are no ACKs have keys of their own.
LEMMA OwnKey ==
  ASSUME NEW m \in Request, NEW n \in Request, KeyOf(m) = KeyOf(n),
         Header[m].method # "ACK", Header[n].method # "ACK"
  PROVE  m = n
  BY SipAssumption DEF Acknowledges

\* Another request with the key of an INVITE is an ACK for it.
LEMMA SharedKey ==
  ASSUME NEW m \in Request, NEW n \in Request, KeyOf(m) = KeyOf(n), Header[m].method # "ACK",
         Header[n].method = "ACK"
  PROVE  /\ Acknowledges(n, m) /\ ~Conforming(n)
         /\ Header[n].tcp = Header[m].tcp /\ Header[m].method = "INVITE"
  BY SipAssumption DEF Acknowledges, Conforming, KeyOf

\* The table that holds the entry of a request.
LEMMA TableOf ==
  ASSUME NEW m \in Request, Header[m].method # "ACK"
  PROVE  KeyOf(m) \in TcpKey <=> Header[m].tcp
  <1>1. ASSUME KeyOf(m) \in TcpKey PROVE Header[m].tcp
    <2>1. PICK n \in Request : Header[n].tcp /\ KeyOf(n) = KeyOf(m)
      BY <1>1 DEF TcpKey
    <2> QED
      BY <2>1, SipAssumption DEF Acknowledges
  <1> QED
    BY <1>1 DEF TcpKey

LEMMA Times ==
  /\ T1 \in Nat /\ T2 \in Nat /\ T4 \in Nat /\ Timeout \in Nat /\ TransactionTtl \in Nat
  /\ T4 > 0 /\ T4 < Timeout /\ Timeout < TransactionTtl
  BY TransactionAssumption

\* Until when copies come that are not late.
LEMMA NearFacts ==
  ASSUME NEW p \in PeerSet
  PROVE  /\ Near(p) \in Int /\ Near(p) <= p.left /\ Near(p) <= Timeout
         /\ p.left > 0 /\ p.age # Timeout => Near(p) > 0
         /\ Near(p) > 0 => p.left > 0
  BY Times DEF PeerSet, Near, Window

-----------------------------------------------------------------------------
\* Entries of the table.

LEMMA EmptyEntry == EntryOK(NoTransaction) /\ ~Present(NoTransaction)
  BY DEF EntryOK, Sound, Present, NoTransaction, Fields

\* What changes about an entry.
LEMMA ArmFacts ==
  ASSUME NEW e, DOMAIN e = Fields, NEW k, NEW t
  PROVE  LET a == Arm(e, k, t) IN
         /\ DOMAIN a = Fields /\ a.st = e.st /\ a.method = e.method /\ a.prov = e.prov
         /\ a.final = e.final /\ a.idle = e.idle
         /\ DOMAIN a.timers = {k} \cup DOMAIN e.timers /\ a.timers[k] = t
         /\ \A j \in DOMAIN e.timers : j # k => a.timers[j] = e.timers[j]
  BY DEF Arm, Fields

LEMMA DisarmFacts ==
  ASSUME NEW e, DOMAIN e = Fields, NEW ks
  PROVE  LET a == Disarm(e, ks) IN
         /\ DOMAIN a = Fields /\ a.st = e.st /\ a.method = e.method /\ a.prov = e.prov
         /\ a.final = e.final /\ a.idle = e.idle
         /\ DOMAIN a.timers = DOMAIN e.timers \ ks
         /\ \A j \in DOMAIN e.timers : j \notin ks => a.timers[j] = e.timers[j]
  BY DEF Disarm, Fields, RestrictDomain, Restrict

LEMMA EnterFacts ==
  ASSUME NEW e, DOMAIN e = Fields, NEW st
  PROVE  LET a == Enter(e, st) IN
         /\ DOMAIN a = Fields /\ a.st = st /\ a.method = e.method /\ a.prov = e.prov
         /\ a.final = e.final /\ a.idle = e.idle /\ a.timers = e.timers
  BY DEF Enter, Fields

\* Two transactions that differ in what no property of theirs depends on.
Like(a, e) == Sound(a) /\ a.method = e.method

LEMMA LikeSelf ==
  ASSUME NEW e, Sound(e)
  PROVE  Like(e, e)
  BY DEF Like

LEMMA ArmLike ==
  ASSUME NEW e, NEW c, Like(c, e), NEW k, NEW t
  PROVE  Like(Arm(c, k, t), e)
  BY ArmFacts DEF Sound, Like

LEMMA DisarmLike ==
  ASSUME NEW e, NEW c, Like(c, e), NEW ks
  PROVE  Like(Disarm(c, ks), e)
  BY DisarmFacts DEF Sound, Like

LEMMA EnterLike ==
  ASSUME NEW e, NEW c, Like(c, e), NEW st
  PROVE  Like(Enter(c, st), e)
  BY EnterFacts DEF Sound, Like

LEMMA WaitLike ==
  ASSUME NEW e, NEW c, Like(c, e), NEW k, NEW t
  PROVE  Like(Wait(c, k, t), e)
  BY ArmLike, EnterLike DEF Wait

LEMMA CountLike ==
  ASSUME NEW e, Sound(e), NEW n
  PROVE  LET a == [e EXCEPT !.n = n] IN
         /\ Like(a, e) /\ DOMAIN a = Fields /\ a.st = e.st /\ a.final = e.final
         /\ a.prov = e.prov /\ a.idle = e.idle /\ a.timers = e.timers
  BY DEF Sound, Like, Fields

LEMMA KeepLike ==
  ASSUME NEW e, Sound(e), NEW r \in Response
  PROVE  LET a == [e EXCEPT !.final = {r}] IN
         /\ Like(a, e) /\ DOMAIN a = Fields /\ a.st = e.st /\ a.final = {r}
         /\ a.prov = e.prov /\ a.idle = e.idle /\ a.timers = e.timers
  BY DEF Sound, Like, Fields

LEMMA ProvLike ==
  ASSUME NEW e, Sound(e), NEW r \in Response, Provisional(r)
  PROVE  LET a == [e EXCEPT !.prov = {r}] IN
         /\ Like(a, e) /\ DOMAIN a = Fields /\ a.st = e.st /\ a.final = e.final
         /\ a.prov = {r} /\ a.idle = e.idle /\ a.timers = e.timers
  BY DEF Sound, Like, Fields

LEMMA AbsorbFacts ==
  ASSUME NEW e, Sound(e)
  PROVE  LET a == Absorb(e) IN
         /\ EntryOK(a) /\ (Present(a) => a.method = e.method)
         /\ e.st # "Terminated" => /\ Like(a, e) /\ a.st = e.st /\ a.final = e.final
                                   /\ a.prov = e.prov /\ a.timers = e.timers /\ a.idle = 0
  <1>1. CASE e.st = "Terminated"
    BY <1>1, EmptyEntry DEF Absorb
  <1>2. CASE e.st # "Terminated"
    BY <1>2 DEF Absorb, Sound, EntryOK, Like, Fields
  <1> QED
    BY <1>1, <1>2

\* A step of a transaction on a request.
LEMMA RequestSound ==
  ASSUME NEW e, Sound(e), NEW method, NEW reliable \in BOOLEAN
  PROVE  LET s == ServerRequest(e, method, reliable) IN
         Like(s.tx, e) /\ s.send \subseteq e.prov \cup e.final
  <1>1. Like(e, e)
    BY DEF Like
  <1>2. /\ Stays(e).tx = e /\ Stays(e).send = {} /\ Delivers(e).tx = e /\ Delivers(e).send = {}
        /\ \A rs : Sends(e, rs).tx = e /\ Sends(e, rs).send = rs
    BY DEF Stays, Delivers, Sends
  <1>3. ASSUME ~Invite(e)
        PROVE  LET s == OnNonInviteRequest(e, method) IN
               Like(s.tx, e) /\ s.send \subseteq e.prov \cup e.final
    BY <1>1, <1>2 DEF OnNonInviteRequest
  <1>4. LET s == OnInviteRequest(e, method) IN Like(s.tx, e) /\ s.send \subseteq e.prov \cup e.final
    BY <1>1, <1>2 DEF OnInviteRequest
  <1>5. LET s == OnInviteRequestCompleted(e, method, reliable) IN
        Like(s.tx, e) /\ s.send \subseteq e.prov \cup e.final
    <2> DEFINE c == [e EXCEPT !.n = CountUp(@)]
               a == Arm(c, "G", Interval(reliable, CountUp(e.n)))
               b == Wait(Enter(Disarm(e, {"G", "H"}), "Confirmed"), "I", TimerIK(reliable))
    <2>0. Like(c, e)
      BY CountLike
    <2> HIDE DEF c
    <2>1. Like(a, e)
      BY <2>0, ArmLike
    <2>2. Like(b, e)
      BY <1>1, DisarmLike, EnterLike, WaitLike
    <2> HIDE DEF a, b, c
    <2>3. /\ Sends(a, e.final).tx = a /\ Sends(a, e.final).send = e.final
          /\ Delivers(b).tx = b /\ Delivers(b).send = {}
      BY DEF Sends, Delivers
    <2>4. Confirm(e, reliable) = Delivers(b)
      BY DEF Confirm, b
    <2>5. CASE method = "INVITE" /\ ~reliable
      BY <2>1, <2>3, <2>5 DEF OnInviteRequestCompleted, a, c
    <2>6. CASE method = "INVITE" /\ reliable
      BY <1>1, <1>2, <2>6 DEF OnInviteRequestCompleted
    <2>7. CASE method = "ACK"
      BY <2>2, <2>3, <2>4, <2>7 DEF OnInviteRequestCompleted
    <2>8. CASE method \notin {"ACK", "INVITE"}
      BY <1>1, <1>2, <2>8 DEF OnInviteRequestCompleted
    <2> QED
      BY <2>5, <2>6, <2>7, <2>8
  <1> QED
    BY <1>1, <1>2, <1>3, <1>4, <1>5 DEF ServerRequest

\* A step of a transaction on a response of the transaction user.
LEMMA ResponseSound ==
  ASSUME NEW e, Sound(e), NEW r \in Response, NEW reliable \in BOOLEAN
  PROVE  LET s == ServerResponse(e, r, reliable) IN Like(s.tx, e) /\ s.send \subseteq {r}
  <1>1. Like(e, e) /\ Stays(e).tx = e /\ Stays(e).send = {}
    BY DEF Like, Stays
  <1>2. LET s == OnInviteTuResponse(e, r, reliable) IN Like(s.tx, e) /\ s.send \subseteq {r}
    <2> DEFINE p == [e EXCEPT !.prov = {r}]
               d == Enter(e, "Terminated")
               f == [e EXCEPT !.final = {r}]
               c == Arm(Enter(f, "Completed"), "H", Timeout)
               g == Arm(c, "G", Interval(reliable, 0))
    <2>1. Provisional(r) => Like(p, e)
      BY ProvLike
    <2>2. Like(d, e)
      BY <1>1, EnterLike
    <2>0. Like(f, e)
      BY KeepLike
    <2>3. Like(c, e)
      <3> HIDE DEF f
      <3> QED
        BY <2>0, EnterLike, ArmLike
    <2>4. Like(g, e)
      <3> HIDE DEF c
      <3> QED
        BY <2>3, ArmLike
    <2>5. OnInviteTuResponse(e, r, reliable) =
            IF Provisional(r) THEN Sends(p, {r}) ELSE IF Success(r) THEN Sends(d, {r})
            ELSE Sends(IF reliable THEN c ELSE g, {r})
      BY DEF OnInviteTuResponse
    <2> HIDE DEF p, d, c, g
    <2> QED
      BY <2>1, <2>2, <2>3, <2>4, <2>5 DEF Sends
  <1>3. LET s == OnNonInviteTuResponse(e, r, reliable) IN Like(s.tx, e) /\ s.send \subseteq {r}
    <2> DEFINE q == [e EXCEPT !.prov = {r}]
               p == Enter(q, "Proceeding")
               f == [e EXCEPT !.final = {r}]
               c == Wait(Enter(f, "Completed"), "J", TimerJ(reliable))
    <2>0. Like(f, e) /\ (Provisional(r) => Like(q, e))
      BY KeepLike, ProvLike
    <2>1. Provisional(r) => Like(p, e)
      <3> HIDE DEF q
      <3> QED
        BY <2>0, EnterLike
    <2>3. Like(c, e)
      <3> HIDE DEF f
      <3> QED
        BY <2>0, EnterLike, WaitLike
    <2>5. OnNonInviteTuResponse(e, r, reliable) = IF Provisional(r) THEN Sends(p, {r}) ELSE Sends(c, {r})
      BY DEF OnNonInviteTuResponse
    <2> HIDE DEF p, c
    <2> QED
      BY <2>1, <2>3, <2>5 DEF Sends
  <1> QED
    BY <1>1, <1>2, <1>3 DEF ServerResponse

\* A step of a transaction on a timer.
LEMMA TimerSound ==
  ASSUME NEW e, Sound(e), NEW k, NEW reliable \in BOOLEAN
  PROVE  LET s == ServerTimer(e, k, reliable) IN Like(s.tx, e) /\ s.send \subseteq e.final
  <1> DEFINE c == [e EXCEPT !.n = CountUp(@)]
             g == Arm(c, "G", Interval(reliable, CountUp(e.n)))
             d == Enter(e, "Terminated")
  <1>0. Like(c, e)
    BY CountLike
  <1>1. Like(e, e) /\ Like(d, e) /\ Like(g, e)
    <2> HIDE DEF c
    <2> QED
      BY <1>0, LikeSelf, ArmLike, EnterLike
  <1>2. ServerTimer(e, k, reliable) \in {Sends(g, e.final), Stays(d), Stays(e)}
    BY DEF ServerTimer
  <1> HIDE DEF c, g, d
  <1> QED
    BY <1>1, <1>2 DEF Sends, Stays

\* A tick of one entry.
LEMMA FireSound ==
  ASSUME NEW acc, EntryOK(acc.tx), NEW k, NEW due, NEW reliable \in BOOLEAN
  PROVE  LET f == FireServer(acc, k, due, reliable) IN
         /\ EntryOK(f.tx) /\ (Present(f.tx) => f.tx.method = acc.tx.method)
         /\ f.send \subseteq acc.send \cup Response
  <1>1. CASE k \notin due \/ ~Present(acc.tx) \/ ~Armed(acc.tx, k)
    BY <1>1 DEF FireServer
  <1>2. CASE ~(k \notin due \/ ~Present(acc.tx) \/ ~Armed(acc.tx, k))
    <2> DEFINE d == Disarm(acc.tx, {k})
               s == ServerTimer(d, k, reliable)
    <2>1. Like(d, acc.tx)
      BY LikeSelf, DisarmLike DEF EntryOK
    <2>2. Like(s.tx, d) /\ s.send \subseteq d.final
      BY <2>1, TimerSound DEF Like
    <2>3. FireServer(acc, k, due, reliable) = [tx |-> Absorb(s.tx), send |-> acc.send \cup s.send]
      BY <1>2 DEF FireServer
    <2> HIDE DEF d, s
    <2>4. EntryOK(Absorb(s.tx)) /\ (Present(Absorb(s.tx)) => Absorb(s.tx).method = s.tx.method)
      BY <2>2, AbsorbFacts DEF Like
    <2> QED
      BY <2>1, <2>2, <2>3, <2>4 DEF Like, Sound
  <1> QED
    BY <1>1, <1>2

LEMMA TickSound ==
  ASSUME NEW e, EntryOK(e), NEW reliable \in BOOLEAN
  PROVE  LET s == TickServer(e, reliable)
             a == Reclaim(s.tx) IN
         EntryOK(a) /\ (Present(a) => a.method = e.method) /\ s.send \subseteq Response
  <1> DEFINE due == Due(e)
             f0 == [tx |-> e, send |-> {}]
             f1 == FireServer(f0, "G", due, reliable)
             f2 == FireServer(f1, "H", due, reliable)
             f3 == FireServer(f2, "I", due, reliable)
             f4 == FireServer(f3, "J", due, reliable)
  <1>1. TickServer(e, reliable) = f4
    BY DEF TickServer
  <1>2. EntryOK(f0.tx) /\ f0.tx = e /\ f0.send = {}
    OBVIOUS
  <1> HIDE DEF f0, due
  <1>3. EntryOK(f1.tx) /\ (Present(f1.tx) => f1.tx.method = f0.tx.method) /\ f1.send \subseteq f0.send \cup Response
    BY <1>2, FireSound
  <1>a. ~Present(e) => f1 = f0
    BY <1>2 DEF FireServer
  <1> HIDE DEF f1
  <1>4. EntryOK(f2.tx) /\ (Present(f2.tx) => f2.tx.method = f1.tx.method) /\ f2.send \subseteq f1.send \cup Response
    BY <1>3, FireSound
  <1>b. ~Present(f1.tx) => f2 = f1
    BY DEF FireServer
  <1> HIDE DEF f2
  <1>5. EntryOK(f3.tx) /\ (Present(f3.tx) => f3.tx.method = f2.tx.method) /\ f3.send \subseteq f2.send \cup Response
    BY <1>4, FireSound
  <1>c. ~Present(f2.tx) => f3 = f2
    BY DEF FireServer
  <1> HIDE DEF f3
  <1>6. EntryOK(f4.tx) /\ (Present(f4.tx) => f4.tx.method = f3.tx.method) /\ f4.send \subseteq f3.send \cup Response
    BY <1>5, FireSound
  <1>d. ~Present(f3.tx) => f4 = f3
    BY DEF FireServer
  <1> HIDE DEF f4
  <1>7. EntryOK(f4.tx) /\ (Present(f4.tx) => f4.tx.method = e.method) /\ f4.send \subseteq Response
    BY <1>2, <1>3, <1>4, <1>5, <1>6, <1>b, <1>c, <1>d
  <1> QED
    BY <1>1, <1>7, EmptyEntry DEF Reclaim

-----------------------------------------------------------------------------
\* How an entry guards against copies.

LEMMA GuardWeakens ==
  ASSUME NEW e, NEW left \in Int, NEW less \in Int, less <= left, Guards(e, left)
  PROVE  Guards(e, less)
  BY DEF Guards, Outlasts

\* Guards speaks of the state, the method, the timers and the final response.
LEMMA GuardAbsorbed ==
  ASSUME NEW e, Sound(e), e.st \notin {"none", "Terminated"}, NEW left, Guards(e, left)
  PROVE  LET a == Absorb(e) IN
         /\ EntryOK(a) /\ Present(a) /\ a.method = e.method /\ a.final = e.final /\ a.idle = 0
         /\ Guards(a, left)
  <1> DEFINE a == Absorb(e)
  <1>1. /\ EntryOK(a) /\ Like(a, e) /\ a.st = e.st /\ a.final = e.final /\ a.timers = e.timers
        /\ a.idle = 0
    BY AbsorbFacts
  <1> HIDE DEF a
  <1>2. Present(a) /\ a.method = e.method
    BY <1>1 DEF Present, Like
  <1>3. Guards(a, left)
    BY <1>1, <1>2 DEF Guards, Outlasts, Unanswered, Invite
  <1> QED
    BY <1>1, <1>2, <1>3 DEF a

\* A copy of the request of an entry is not delivered.
LEMMA CopyStays ==
  ASSUME NEW e, e.method # "ACK", NEW reliable
  PROVE  ServerRequest(e, e.method, reliable).deliver = FALSE
  BY DEF ServerRequest, OnNonInviteRequest, OnInviteRequest, OnInviteRequestCompleted, Invite,
         Sends, Stays

LEMMA GuardCopy ==
  ASSUME NEW e, EntryOK(e), Present(e), e.method # "ACK", NEW left, Guards(e, left),
         NEW reliable \in BOOLEAN, ~reliable
  PROVE  LET s == ServerRequest(e, e.method, reliable)
             a == Absorb(s.tx) IN
         /\ EntryOK(a) /\ Present(a) /\ a.method = e.method /\ a.final = e.final /\ a.idle = 0
         /\ Guards(a, left)
         /\ e.st # "Confirmed" => e.final \subseteq s.send
  <1> DEFINE s == ServerRequest(e, e.method, reliable)
  <1>0. Sound(e) /\ e.st \notin {"none", "Terminated"}
    BY DEF EntryOK, Present
  <1>1. CASE Invite(e) /\ e.st = "Completed"
    <2> DEFINE c == [e EXCEPT !.n = CountUp(@)]
               g == Arm(c, "G", Interval(reliable, CountUp(e.n)))
    <2>1. s = Sends(g, e.final)
      BY <1>1 DEF ServerRequest, OnInviteRequestCompleted, Invite
    <2>2. Like(c, e) /\ DOMAIN c = Fields /\ c.st = e.st /\ c.final = e.final /\ c.timers = e.timers
      BY <1>0, CountLike
    <2> HIDE DEF c
    <2>3. /\ Like(g, e) /\ g.st = e.st /\ g.final = e.final
          /\ DOMAIN g.timers = {"G"} \cup DOMAIN e.timers
          /\ \A j \in DOMAIN e.timers : j # "G" => g.timers[j] = e.timers[j]
      BY <2>2, ArmFacts, ArmLike
    <2> HIDE DEF g
    <2>4. Guards(g, left)
      BY <1>1, <2>3 DEF Guards, Outlasts, Unanswered, Invite, Like
    <2>5. s.tx = g /\ s.send = e.final
      BY <2>1 DEF Sends
    <2> HIDE DEF s
    <2> QED
      BY <1>0, <2>3, <2>4, <2>5, GuardAbsorbed DEF Like, s
  <1>2. CASE ~(Invite(e) /\ e.st = "Completed")
    <2>1. s.tx = e
      BY <1>2 DEF ServerRequest, OnInviteRequest, OnNonInviteRequest, Stays, Sends, Delivers
    <2>2. e.st # "Confirmed" => e.final \subseteq s.send
      BY <1>2 DEF Guards, Unanswered, ServerRequest, OnNonInviteRequest, Sends
    <2> HIDE DEF s
    <2> QED
      BY <1>0, <2>1, <2>2, GuardAbsorbed DEF s
  <1> QED
    BY <1>1, <1>2

\* The ACK of a failure comes when the copies of the INVITE come for T4 at most.
LEMMA GuardAck ==
  ASSUME NEW e, EntryOK(e), Present(e), Invite(e), NEW left \in Int, left <= T4, Guards(e, left),
         NEW reliable \in BOOLEAN, ~reliable
  PROVE  LET s == ServerRequest(e, "ACK", reliable)
             a == Absorb(s.tx) IN
         /\ EntryOK(a) /\ Present(a) /\ a.method = e.method /\ a.final = e.final /\ a.idle = 0
         /\ Guards(a, left) /\ s.send = {}
  <1> DEFINE s == ServerRequest(e, "ACK", reliable)
  <1>0. Sound(e) /\ e.st \notin {"none", "Terminated"} /\ Like(e, e)
    BY LikeSelf DEF EntryOK, Present
  <1>1. CASE e.st = "Completed"
    <2> DEFINE d == Disarm(e, {"G", "H"})
               c == Enter(d, "Confirmed")
               i == Arm(c, "I", T4)
    <2>1. s = Delivers(Wait(c, "I", T4))
      BY <1>1 DEF ServerRequest, OnInviteRequestCompleted, Invite, Confirm, TimerIK
    <2>2. /\ Like(d, e) /\ DOMAIN d = Fields /\ d.final = e.final
          /\ DOMAIN d.timers = DOMAIN e.timers \ {"G", "H"}
      BY <1>0, DisarmFacts, DisarmLike DEF Sound
    <2> HIDE DEF d
    <2>3. /\ Like(c, e) /\ DOMAIN c = Fields /\ c.final = e.final /\ c.st = "Confirmed"
          /\ c.timers = d.timers
      BY <2>2, EnterFacts, EnterLike
    <2> HIDE DEF c
    <2>4. /\ Like(i, e) /\ i.final = e.final /\ i.st = "Confirmed"
          /\ DOMAIN i.timers = {"I"} \cup DOMAIN c.timers /\ i.timers["I"] = T4
      BY <2>3, ArmFacts, ArmLike
    <2> HIDE DEF i
    <2>5. Wait(c, "I", T4) = i
      BY Times DEF Wait, i
    <2>6. DOMAIN i.timers = {"I"}
      BY <1>1, <2>2, <2>3, <2>4 DEF Guards, Unanswered
    <2>7. Guards(i, left)
      BY <2>4, <2>6, Times DEF Guards, Outlasts, Invite, Like
    <2>8. s.tx = i /\ s.send = {}
      BY <2>1, <2>5 DEF Delivers
    <2> HIDE DEF s
    <2> QED
      BY <2>4, <2>7, <2>8, GuardAbsorbed DEF Like, s
  <1>2. CASE e.st # "Completed"
    <2>1. s.tx = e /\ s.send = {}
      BY <1>2 DEF ServerRequest, OnInviteRequest, Stays, Delivers
    <2> HIDE DEF s
    <2> QED
      BY <1>0, <2>1, GuardAbsorbed DEF s
  <1> QED
    BY <1>1, <1>2

\* The answer of the transaction user is kept, and a timer is started with it,
\* unless it is a success to an INVITE.
LEMMA GuardAnswer ==
  ASSUME NEW e, EntryOK(e), Present(e), NEW left \in Int, left <= Timeout, Guards(e, left),
         NEW r \in Response, NEW reliable \in BOOLEAN, ~reliable
  PROVE  LET s == ServerResponse(e, r, reliable)
             a == Absorb(s.tx) IN
         \/ Invite(e) /\ Success(r) /\ s.send = {r}
         \/ /\ EntryOK(a) /\ Present(a) /\ a.method = e.method /\ a.idle = 0
            /\ a.final = e.final \cup {x \in s.send : ~Provisional(x)}
            /\ Guards(a, left)
  <1> DEFINE s == ServerResponse(e, r, reliable)
  <1>0. Sound(e) /\ e.st \notin {"none", "Terminated"} /\ Like(e, e)
    BY LikeSelf DEF EntryOK, Present
  <1>1. CASE s = Stays(e)
    <2>1. s.tx = e /\ s.send = {}
      BY <1>1 DEF Stays
    <2> HIDE DEF s
    <2> QED
      BY <1>0, <2>1, GuardAbsorbed DEF s
  <1>2. CASE Invite(e) /\ e.st = "Proceeding"
    <2> DEFINE p == [e EXCEPT !.prov = {r}]
               f == [e EXCEPT !.final = {r}]
               d == Enter(f, "Completed")
               c == Arm(d, "H", Timeout)
               g == Arm(c, "G", Interval(reliable, 0))
    <2>0. DOMAIN e.timers = {} /\ e.final = {}
      BY <1>2 DEF Guards, Unanswered
    <2>1. s = IF Provisional(r) THEN Sends(p, {r})
              ELSE IF Success(r) THEN Sends(Enter(e, "Terminated"), {r}) ELSE Sends(g, {r})
      BY <1>2 DEF ServerResponse, OnInviteTuResponse
    <2>2. CASE Provisional(r)
      <3>1. /\ Like(p, e) /\ p.st = e.st /\ p.final = e.final /\ p.timers = e.timers
        BY <1>0, <2>2, ProvLike
      <3> HIDE DEF p
      <3>2. Guards(p, left)
        BY <1>2, <2>0, <3>1 DEF Guards, Unanswered
      <3>3. s.tx = p /\ s.send = {r}
        BY <2>1, <2>2 DEF Sends
      <3> HIDE DEF s
      <3> QED
        BY <1>0, <2>2, <3>1, <3>2, <3>3, GuardAbsorbed DEF Like, s
    <2>3. CASE Success(r) /\ ~Provisional(r)
      BY <1>2, <2>1, <2>3 DEF Sends
    <2>4. CASE ~Success(r) /\ ~Provisional(r)
      <3>1. Like(f, e) /\ DOMAIN f = Fields /\ f.final = {r} /\ f.timers = e.timers
        BY <1>0, KeepLike
      <3> HIDE DEF f
      <3>2. /\ Like(d, e) /\ DOMAIN d = Fields /\ d.final = {r} /\ d.st = "Completed"
            /\ d.timers = e.timers
        BY <3>1, EnterFacts, EnterLike
      <3> HIDE DEF d
      <3>3. /\ Like(c, e) /\ DOMAIN c = Fields /\ c.final = {r} /\ c.st = "Completed"
            /\ DOMAIN c.timers = {"H"} \cup DOMAIN d.timers /\ c.timers["H"] = Timeout
        BY <3>2, ArmFacts, ArmLike
      <3> HIDE DEF c
      <3>4. /\ Like(g, e) /\ g.final = {r} /\ g.st = "Completed"
            /\ DOMAIN g.timers = {"G"} \cup DOMAIN c.timers
            /\ \A j \in DOMAIN c.timers : j # "G" => g.timers[j] = c.timers[j]
        BY <3>3, ArmFacts, ArmLike
      <3> HIDE DEF g
      <3>5. DOMAIN g.timers = {"G", "H"} /\ g.timers["H"] = Timeout
        BY <2>0, <3>2, <3>3, <3>4
      <3>6. Guards(g, left)
        BY <1>2, <3>4, <3>5, Times DEF Guards, Outlasts, Invite, Like
      <3>7. s.tx = g /\ s.send = {r}
        BY <2>1, <2>4 DEF Sends
      <3>8. g.final = e.final \cup {x \in s.send : ~Provisional(x)}
        BY <2>0, <2>4, <3>4, <3>7
      <3> HIDE DEF s
      <3> QED
        BY <3>4, <3>6, <3>7, <3>8, GuardAbsorbed DEF Like, s
    <2> QED
      BY <2>2, <2>3, <2>4
  <1>3. CASE ~Invite(e) /\ e.st \in {"Trying", "Proceeding"}
    <2> DEFINE q == [e EXCEPT !.prov = {r}]
               p == Enter(q, "Proceeding")
               f == [e EXCEPT !.final = {r}]
               d == Enter(f, "Completed")
               c == Arm(d, "J", Timeout)
    <2>0. DOMAIN e.timers = {} /\ e.final = {}
      BY <1>3 DEF Guards, Unanswered
    <2>a. Wait(d, "J", TimerJ(reliable)) = c
      BY Times DEF Wait, TimerJ
    <2>1. s = IF Provisional(r) THEN Sends(p, {r}) ELSE Sends(c, {r})
      BY <1>3, <2>a DEF ServerResponse, OnNonInviteTuResponse
    <2>2. CASE Provisional(r)
      <3>0. /\ Like(q, e) /\ DOMAIN q = Fields /\ q.final = e.final /\ q.timers = e.timers
        BY <1>0, <2>2, ProvLike
      <3> HIDE DEF q
      <3>1. /\ Like(p, e) /\ p.st = "Proceeding" /\ p.final = e.final /\ p.timers = e.timers
        BY <3>0, EnterFacts, EnterLike
      <3> HIDE DEF p
      <3>2. Guards(p, left)
        BY <2>0, <3>1 DEF Guards, Unanswered
      <3>3. s.tx = p /\ s.send = {r}
        BY <2>1, <2>2 DEF Sends
      <3> HIDE DEF s
      <3> QED
        BY <2>2, <3>1, <3>2, <3>3, GuardAbsorbed DEF Like, s
    <2>4. CASE ~Provisional(r)
      <3>1. Like(f, e) /\ DOMAIN f = Fields /\ f.final = {r} /\ f.timers = e.timers
        BY <1>0, KeepLike
      <3> HIDE DEF f
      <3>2. /\ Like(d, e) /\ DOMAIN d = Fields /\ d.final = {r} /\ d.st = "Completed"
            /\ d.timers = e.timers
        BY <3>1, EnterFacts, EnterLike
      <3> HIDE DEF d
      <3>3. /\ Like(c, e) /\ c.final = {r} /\ c.st = "Completed"
            /\ DOMAIN c.timers = {"J"} \cup DOMAIN d.timers /\ c.timers["J"] = Timeout
        BY <3>2, ArmFacts, ArmLike
      <3> HIDE DEF c
      <3>6. Guards(c, left)
        BY <1>3, <2>0, <3>2, <3>3, Times DEF Guards, Outlasts, Invite, Like
      <3>7. s.tx = c /\ s.send = {r}
        BY <2>1, <2>4 DEF Sends
      <3>8. c.final = e.final \cup {x \in s.send : ~Provisional(x)}
        BY <2>0, <2>4, <3>3, <3>7
      <3> HIDE DEF s
      <3> QED
        BY <3>3, <3>6, <3>7, <3>8, GuardAbsorbed DEF Like, s
    <2> QED
      BY <2>2, <2>4
  <1> QED
    BY <1>1, <1>2, <1>3 DEF ServerResponse

\* An INVITE that is handled gets its answer: a success is sent, a provisional
\* response leaves its transaction waiting.
LEMMA HeldAnswer ==
  ASSUME NEW e, EntryOK(e), Invite(e), e.st = "Proceeding", DOMAIN e.timers = {},
         NEW r \in Response, NEW reliable \in BOOLEAN, Success(r)
  PROVE  ServerResponse(e, r, reliable).send = {r}
  BY DEF ServerResponse, OnInviteTuResponse, Sends, Success, Provisional

LEMMA HeldProvisional ==
  ASSUME NEW e, EntryOK(e), Invite(e), e.st = "Proceeding", DOMAIN e.timers = {},
         NEW r \in Response, NEW reliable \in BOOLEAN, Provisional(r),
         NEW a, a = Absorb(ServerResponse(e, r, reliable).tx)
  PROVE  a.st = "Proceeding" /\ DOMAIN a.timers = {} /\ a.idle = 0
  <1> DEFINE s == ServerResponse(e, r, reliable)
             p == [e EXCEPT !.prov = {r}]
  <1>1. s = OnInviteTuResponse(e, r, reliable)
    BY DEF ServerResponse
  <1>2. Sound(p) /\ p.st = e.st /\ p.timers = e.timers
    BY ProvLike DEF EntryOK, Like
  <1>3. s.tx = p
    BY <1>1 DEF OnInviteTuResponse, Sends
  <1> HIDE DEF p, s
  <1>4. a = Absorb(s.tx)
    BY DEF s
  <1> QED
    BY <1>2, <1>3, <1>4, AbsorbFacts

\* A copy of an INVITE that is handled, or an ACK with its key, leaves its
\* transaction waiting.
LEMMA HeldCopy ==
  ASSUME NEW e, EntryOK(e), Invite(e), e.st = "Proceeding", DOMAIN e.timers = {},
         NEW method \in {"INVITE", "ACK"}, NEW reliable \in BOOLEAN
  PROVE  LET a == Absorb(ServerRequest(e, method, reliable).tx) IN
         a.st = "Proceeding" /\ DOMAIN a.timers = {} /\ a.idle = 0
  <1>1. ServerRequest(e, method, reliable).tx = e
    BY DEF ServerRequest, OnInviteRequest, Sends, Delivers
  <1>2. Sound(e)
    BY DEF EntryOK
  <1> QED
    BY <1>1, <1>2, AbsorbFacts

\* The ticker does nothing to an entry without a timer that is due, as long as
\* it was used recently.
LEMMA QuietTick ==
  ASSUME NEW e, {"G", "H", "I", "J"} \cap Due(e) = {}, NEW reliable \in BOOLEAN
  PROVE  TickServer(e, reliable) = [tx |-> e, send |-> {}]
  <1> DEFINE due == Due(e)
             f == [tx |-> e, send |-> {}]
  <1>1. TickServer(e, reliable) =
          FireServer(FireServer(FireServer(FireServer(f, "G", due, reliable), "H", due, reliable),
                                "I", due, reliable), "J", due, reliable)
    BY DEF TickServer
  <1>2. "G" \notin due /\ "H" \notin due /\ "I" \notin due /\ "J" \notin due
    OBVIOUS
  <1> HIDE DEF due, f
  <1>3. FireServer(f, "G", due, reliable) = f
    BY <1>2 DEF FireServer
  <1>4. FireServer(f, "H", due, reliable) = f
    BY <1>2 DEF FireServer
  <1>5. FireServer(f, "I", due, reliable) = f
    BY <1>2 DEF FireServer
  <1>6. FireServer(f, "J", due, reliable) = f
    BY <1>2 DEF FireServer
  <1> QED
    BY <1>1, <1>3, <1>4, <1>5, <1>6 DEF f

\* Only timer G is due while copies come, and it starts itself again.
LEMMA GuardTick ==
  ASSUME NEW e, EntryOK(e), Present(e), NEW left \in Int, left > 0, Guards(e, left),
         e.idle + left <= Timeout, NEW reliable \in BOOLEAN, ~reliable
  PROVE  LET s == TickServer(e, reliable)
             a == Reclaim(s.tx) IN
         /\ EntryOK(a) /\ Present(a) /\ a.method = e.method /\ a.final = e.final
         /\ a.idle + left <= Timeout /\ Guards(a, left)
  <1> USE Times
  <1>0. Sound(e) /\ e.idle \in Nat /\ e.idle < TransactionTtl
    BY DEF EntryOK, Sound
  <1>1. Due(e) \subseteq {"G"}
    BY DEF Guards, Unanswered, Outlasts, Due
  <1>2. CASE "G" \notin Due(e)
    <2>1. TickServer(e, reliable) = [tx |-> e, send |-> {}]
      BY <1>1, <1>2, QuietTick
    <2> QED
      BY <1>0, <2>1 DEF Reclaim
  <1>3. CASE "G" \in Due(e)
    <2> DEFINE due == Due(e)
               f0 == [tx |-> e, send |-> {}]
               d == Disarm(e, {"G"})
               c == [d EXCEPT !.n = CountUp(@)]
               g == Arm(c, "G", Interval(reliable, CountUp(d.n)))
               s == ServerTimer(d, "G", reliable)
               f == [tx |-> Absorb(s.tx), send |-> {} \cup s.send]
    <2>0. e.st = "Completed" /\ Invite(e) /\ DOMAIN e.timers \subseteq {"G", "H"} /\ Outlasts(e, "H", left)
      BY <1>3 DEF Guards, Unanswered, Due
    <2>1. /\ Like(d, e) /\ DOMAIN d = Fields /\ d.st = e.st /\ d.final = e.final
          /\ DOMAIN d.timers = DOMAIN e.timers \ {"G"}
          /\ \A j \in DOMAIN e.timers : j \notin {"G"} => d.timers[j] = e.timers[j]
      BY <1>0, LikeSelf, DisarmFacts, DisarmLike DEF Sound
    <2> HIDE DEF d
    <2>2. Guards(d, left)
      BY <2>0, <2>1 DEF Guards, Outlasts, Invite, Like
    <2>3. /\ Like(c, d) /\ DOMAIN c = Fields /\ c.st = d.st /\ c.final = d.final /\ c.timers = d.timers
      BY <2>1, CountLike DEF Like
    <2> HIDE DEF c
    <2>4. /\ Like(g, d) /\ g.st = d.st /\ g.final = d.final
          /\ DOMAIN g.timers = {"G"} \cup DOMAIN d.timers
          /\ \A j \in DOMAIN d.timers : j # "G" => g.timers[j] = d.timers[j]
      BY <2>3, ArmFacts, ArmLike
    <2> HIDE DEF g
    <2>5. Guards(g, left)
      BY <2>0, <2>1, <2>4 DEF Guards, Outlasts, Invite, Like
    <2>6. s.tx = g \/ s.tx = d
      BY DEF ServerTimer, Sends, Stays, g, c
    <2> HIDE DEF s
    <2>7. /\ Sound(s.tx) /\ s.tx.st = "Completed" /\ s.tx.method = e.method /\ s.tx.final = e.final
          /\ Guards(s.tx, left)
      BY <2>0, <2>1, <2>2, <2>4, <2>5, <2>6 DEF Like
    <2>8. LET a == Absorb(s.tx) IN
          /\ EntryOK(a) /\ Present(a) /\ a.method = e.method /\ a.final = e.final /\ a.idle = 0
          /\ Guards(a, left)
      BY <2>7, GuardAbsorbed
    <2>9. FireServer(f0, "G", due, reliable) = f
      BY <1>3 DEF FireServer, Armed, Due, d, s
    <2> HIDE DEF f
    <2>10. TickServer(e, reliable) =
             FireServer(FireServer(FireServer(f, "H", due, reliable), "I", due, reliable),
                        "J", due, reliable)
      BY <2>9 DEF TickServer
    <2>11. "H" \notin due /\ "I" \notin due /\ "J" \notin due
      BY <1>1
    <2> HIDE DEF due
    <2>12. FireServer(f, "H", due, reliable) = f
      BY <2>11 DEF FireServer
    <2>13. FireServer(f, "I", due, reliable) = f
      BY <2>11 DEF FireServer
    <2>14. FireServer(f, "J", due, reliable) = f
      BY <2>11 DEF FireServer
    <2>15. TickServer(e, reliable).tx = Absorb(s.tx)
      BY <2>10, <2>12, <2>13, <2>14 DEF f
    <2> QED
      BY <1>0, <2>8, <2>15 DEF Reclaim
  <1> QED
    BY <1>2, <1>3

\* Time passes for an entry and for the copies alike.
LEMMA GuardLater ==
  ASSUME NEW e, EntryOK(e), Present(e), NEW left \in Int, left > 0, Guards(e, left),
         e.idle + left <= Timeout
  PROVE  LET a == Later(e) IN
         /\ Present(a) /\ a.final = e.final
         /\ a.idle + (left - 1) <= Timeout /\ Guards(a, left - 1)
  <1> DEFINE a == Later(e)
  <1>1. e.idle \in Nat /\ DOMAIN e = Fields
    BY DEF EntryOK, Sound
  <1>2. /\ a.st = e.st /\ a.method = e.method /\ a.final = e.final
        /\ a.timers = [k \in DOMAIN e.timers |-> IF e.timers[k] > 0 THEN e.timers[k] - 1 ELSE 0]
        /\ a.idle = IF e.idle < TransactionTtl THEN e.idle + 1 ELSE e.idle
    BY <1>1 DEF Later, Fields
  <1> HIDE DEF a
  <1>3. Guards(a, left - 1)
    BY <1>2 DEF Guards, Unanswered, Outlasts, Invite
  <1>4. a.idle + (left - 1) <= Timeout /\ Present(a)
    BY <1>1, <1>2, Times DEF Present
  <1> QED
    BY <1>2, <1>3, <1>4 DEF a

LEMMA LaterSound ==
  ASSUME NEW e, EntryOK(e)
  PROVE  LET a == Later(e) IN
         EntryOK(a) /\ (Present(a) => Present(e) /\ a.method = e.method)
  <1>1. CASE Present(e)
    <2> DEFINE a == Later(e)
    <2>1. e.idle \in Nat /\ DOMAIN e = Fields
      BY DEF EntryOK, Sound
    <2>2. /\ DOMAIN a = Fields /\ a.st = e.st /\ a.method = e.method /\ a.final = e.final
          /\ a.prov = e.prov /\ a.idle \in Nat
      BY <1>1, <2>1, Times DEF Later, Fields
    <2> HIDE DEF a
    <2> QED
      BY <1>1, <2>2 DEF EntryOK, Sound, Present, a
  <1>2. CASE ~Present(e)
    BY <1>2 DEF Later
  <1> QED
    BY <1>1, <1>2

-----------------------------------------------------------------------------
\* What a step leaves alone.

LEMMA SipTypeFacts ==
  ASSUME SipTypeOK
  PROVE  /\ \A m \in Request : /\ peer[m] \in PeerSet /\ peer[m].left \in Int
                               /\ Near(peer[m]) \in Int /\ Near(peer[m]) <= Timeout
                               /\ peer[m].tag \in Nat /\ handed[m] \in Nat
                               /\ KeyOf(m) \in Key
         /\ \A k \in Key : EntryOK(server[k]) /\ finals[k] \subseteq Response /\ air[k] \subseteq Response
         /\ \A l \in Loop : WorkOK(loop[l]) /\ loop[l].replies \in Seq(Response)
  <1>1. peer \in [Request -> PeerSet] /\ handed \in [Request -> Nat]
    BY DEF SipTypeOK
  <1>2. \A p \in PeerSet : p.left \in Int /\ p.tag \in Nat
    BY Times DEF PeerSet
  <1>3. \A m \in Request : Near(peer[m]) \in Int /\ Near(peer[m]) <= Timeout
    BY <1>1, NearFacts
  <1> QED
    BY <1>1, <1>2, <1>3, HeaderFacts DEF SipTypeOK

LEMMA NoWorkFacts ==
  /\ NoWork \in [pc : Pc, m : Request \cup {NoRequest}, replies : Seq(Response)]
  /\ NoWork.pc = "idle" /\ WorkOK(NoWork)
  <1> DEFINE e == <<>>
  <1>1. e \in Seq(Response)
    OBVIOUS
  <1>2. NoWork = [pc |-> "idle", m |-> NoRequest, replies |-> e]
    BY DEF NoWork
  <1> HIDE DEF e
  <1>3. NoWork \in [pc : Pc, m : Request \cup {NoRequest}, replies : Seq(Response)]
    BY <1>1, <1>2 DEF Pc
  <1>4. NoWork.pc = "idle"
    BY <1>2
  <1>5. WorkOK(NoWork)
    BY <1>4 DEF WorkOK
  <1> QED
    BY <1>3, <1>4, <1>5

\* Fewer copies come, of what was sent before.
Calm(m) ==
  /\ peer'[m].left <= peer[m].left /\ (peer'[m].left = -1 <=> peer[m].left = -1)
  /\ Near(peer'[m]) <= Near(peer[m])
  /\ (peer'[m].age = -1 => peer[m].age = -1) /\ (peer'[m].left = -1 /\ peer[m].age = -1 => peer'[m].age = -1)
  /\ m \in late => m \in late'

\* The entry and the answers of a request.
Same(m) ==
  /\ server'[KeyOf(m)] = server[KeyOf(m)] /\ finals'[KeyOf(m)] = finals[KeyOf(m)]
  /\ air'[KeyOf(m)] = air[KeyOf(m)] /\ handed'[m] = handed[m]

\* No loop takes the request up.
NotTaken(m) ==
  \A l \in Loop : (Handles(l, m)' => Handles(l, m)) /\ (Waits(l, m)' => Waits(l, m))

LEMMA FrameRequest ==
  ASSUME SipTypeOK, SipTypeOK', NEW m \in Request, RequestOK(m),
         Calm(m), Same(m), NotTaken(m), evicted \subseteq evicted'
  PROVE  RequestOK(m)'
  <1> USE DEF Same, NotTaken
  <1>0. /\ Near(peer[m]) \in Int /\ Near(peer'[m]) \in Int /\ Near(peer'[m]) <= Near(peer[m])
        /\ server[KeyOf(m)].idle \in Nat
    <2>1. peer[m] \in PeerSet /\ peer'[m] \in PeerSet
      BY DEF SipTypeOK
    <2> QED
      BY <2>1, NearFacts, SipTypeFacts DEF Calm, EntryOK, Sound
  <1>1. NoTrace(m) => NoTrace(m)'
    BY DEF NoTrace
  <1>2. NotSentOK(m)'
    BY <1>1 DEF RequestOK, NotSentOK, Calm
  <1>3. OwnEntry(m)'
    BY DEF RequestOK, OwnEntry
  <1>4. InviteHeld(m)'
    BY DEF RequestOK, InviteHeld
  <1>5. ASSUME OnceOK(m) PROVE OnceOK(m)'
    <2>1. /\ handed'[m] <= 1
          /\ \A l \in Loop : Waits(l, m)' => handed'[m] = 0 /\ \A i \in Loop : Waits(i, m)' => i = l
      BY <1>5 DEF OnceOK
    <2>2. Guards(server[KeyOf(m)], Near(peer[m])) => Guards(server[KeyOf(m)], Near(peer'[m]))
      BY <1>0, GuardWeakens
    <2>3. Guarded(m) => Guarded(m)'
      BY <1>0, <2>2, Times DEF Guarded
    <2> QED
      BY <1>0, <1>1, <1>5, <2>1, <2>3 DEF OnceOK
  <1>6. (Tracked(m) /\ ~Accepted(m) /\ m \notin late)' => Tracked(m) /\ ~Accepted(m) /\ m \notin late
    BY DEF Tracked, Accepted, Calm
  <1> QED
    BY <1>2, <1>3, <1>4, <1>5, <1>6 DEF RequestOK

LEMMA FrameAck ==
  ASSUME SipTypeOK, SipTypeOK', NEW n \in Request, AckOK(n), \A m \in Request : Calm(m),
         server'[KeyOf(n)] = server[KeyOf(n)], finals'[KeyOf(n)] = finals[KeyOf(n)]
  PROVE  AckOK(n)'
  <1>1. \A m \in Request : peer[m].left \in Int /\ peer'[m].left \in Int
    <2>1. /\ peer \in [Request -> PeerSet]
          /\ peer' \in [Request -> PeerSet]
      BY DEF SipTypeOK
    <2> QED
      BY <2>1, Times DEF PeerSet
  <1>2. ASSUME peer'[n].left # -1, NEW m \in Request, Header[m].method # "ACK", KeyOf(m) = KeyOf(n)
        PROVE  peer'[m].left <= T4 /\ peer'[m].left # -1
    BY <1>1, <1>2, Times DEF AckOK, Calm
  <1> QED
    BY <1>2 DEF AckOK, Conforming

LEMMA FrameOffered ==
  ASSUME SipTypeOK, Offered, Up(dialogs)' \subseteq Up(dialogs),
         \A k \in Key : finals[k] \subseteq finals'[k],
         evicted \subseteq evicted', \A l \in Loop : loop[l].pc = "provide" => loop'[l] = loop[l]
  PROVE  Offered'
  BY DEF Offered

\* A step that changes neither requests nor their answers.
LEMMA FrameInv ==
  ASSUME SipInv, SipTypeOK', UNCHANGED <<server, finals, air, handed>>,
         \A m \in Request : Calm(m) /\ NotTaken(m), evicted \subseteq evicted',
         Offered'
  PROVE  SipInv'
  <1>1. \A m \in Request : Same(m)
    BY DEF Same
  <1>2. ASSUME NEW m \in Request, Header[m].method # "ACK" PROVE RequestOK(m)'
    BY <1>1, <1>2, FrameRequest DEF SipInv, RequestsOK
  <1>3. ASSUME NEW m \in Request, Header[m].method = "ACK" PROVE AckOK(m)'
    BY <1>3, FrameAck DEF SipInv, RequestsOK
  <1> QED
    BY <1>2, <1>3 DEF SipInv, RequestsOK

LEMMA CalmStays ==
  ASSUME SipTypeOK, UNCHANGED <<peer, late>>
  PROVE  \A m \in Request : Calm(m)
  <1>1. \A m \in Request : peer[m].left \in Int /\ Near(peer[m]) \in Int
    BY SipTypeFacts
  <1> QED
    BY <1>1 DEF Calm

LEMMA LoopStays ==
  ASSUME UNCHANGED loop
  PROVE  \A m \in Request : NotTaken(m)
  BY DEF NotTaken, Handles, Waits

-----------------------------------------------------------------------------
\* The initial state.
LEMMA SipInitInv == SipInit => SipInv
  <1> SUFFICES ASSUME SipInit PROVE SipInv
    OBVIOUS
  <1> USE DEF SipInit
  <1>1. \A k \in Key : server[k] = NoTransaction
    OBVIOUS
  <1>2. \A l \in Loop : loop[l] = NoWork /\ loop[l].pc = "idle"
    BY DEF NoWork
  <1>3. SipTypeOK
    <2>1. DOMAIN server = Key /\ \A k \in Key : EntryOK(server[k])
      BY <1>1, EmptyEntry
    <2>2. dialogs \in [1 .. MaxTags -> Dialog]
      BY DialogAssumption DEF Dialog, NoDialog
    <2>3. loop \in [Loop -> [pc : Pc, m : Request \cup {NoRequest}, replies : Seq(Response)]]
      BY <1>2, NoWorkFacts
    <2>4. \A l \in Loop : WorkOK(loop[l])
      BY <1>2 DEF WorkOK
    <2>5. peer \in [Request -> PeerSet]
      BY Times DEF Unsent, PeerSet
    <2> QED
      BY <2>1, <2>2, <2>3, <2>4, <2>5 DEF SipTypeOK
  <1>4. ASSUME NEW m \in Request PROVE RequestOK(m) /\ AckOK(m)
    <2>1. /\ server[KeyOf(m)] = NoTransaction /\ finals[KeyOf(m)] = {} /\ air[KeyOf(m)] = {}
          /\ handed[m] = 0 /\ peer[m].left = -1 /\ peer[m].age = -1
      BY HeaderFacts DEF Unsent
    <2>2. NoTrace(m)
      BY <1>2, <2>1, EmptyEntry DEF NoTrace, Handles
    <2>3. OnceOK(m)
      BY <1>2, <2>1, <2>2 DEF OnceOK, Waits
    <2>4. InviteHeld(m) /\ OwnEntry(m) /\ NotSentOK(m)
      BY <1>2, <2>1, <2>2, EmptyEntry DEF InviteHeld, OwnEntry, NotSentOK, Handles
    <2> QED
      BY <2>1, <2>3, <2>4, EmptyEntry DEF RequestOK, AckOK
  <1>5. Offered
    BY DEF Offered, Up, NoDialog
  <1> QED
    BY <1>3, <1>4, <1>5 DEF SipInv, RequestsOK

-----------------------------------------------------------------------------
\* Peers.

LEMMA QuietFacts ==
  ASSUME NEW p \in PeerSet
  PROVE  /\ Quiet(p) \in PeerSet /\ Quiet(p).age = p.age
         /\ Quiet(p).left <= p.left /\ Quiet(p).left <= T4 /\ (Quiet(p).left = -1 <=> p.left = -1)
         /\ Near(Quiet(p)) <= Near(p)
  <1>1. PICK q : q = Quiet(p)
    OBVIOUS
  <1>2. /\ q \in PeerSet /\ q.age = p.age
        /\ q.left <= p.left /\ q.left <= T4 /\ (q.left = -1 <=> p.left = -1)
    BY <1>1, Times DEF Quiet, PeerSet
  <1>3. Near(q) <= Near(p)
    BY <1>2, Times DEF Near, Window, PeerSet
  <1> QED
    BY <1>1, <1>2, <1>3

LEMMA PeerHearsInv ==
  ASSUME SipInv, NEW n \in Request, PeerHears(n)
  PROVE  SipInv'
  <1> USE DEF PeerHears, tables, history
  <1>0. SipTypeOK
    BY DEF SipInv
  <1>1. peer[n] \in PeerSet
    BY <1>0 DEF SipTypeOK
  <1>2. /\ \A m \in Request : peer'[m] = IF m = n THEN Quiet(peer[n]) ELSE peer[m]
        /\ peer' \in [Request -> PeerSet]
    BY <1>0, <1>1, QuietFacts DEF SipTypeOK
  <1>3. SipTypeOK'
    BY <1>0, <1>2 DEF SipTypeOK
  <1>4. \A m \in Request : Calm(m)
    <2>1. \A m \in Request : peer[m] \in PeerSet /\ peer[m].left \in Int /\ Near(peer[m]) \in Int
      BY <1>0, SipTypeFacts
    <2> QED
      BY <1>1, <1>2, <2>1, QuietFacts DEF Calm
  <1>5. Offered'
    BY DEF SipInv, Offered
  <1> QED
    BY <1>3, <1>4, <1>5, LoopStays, FrameInv

\* A request is sent that was not sent before: it has left no trace.
LEMMA SentInv ==
  ASSUME SipTypeOK, SipTypeOK', NEW n \in Request, RequestOK(n), ~Sent(n), peer'[n].left # -1,
         Same(n), NotTaken(n), UNCHANGED <<evicted, server>>
  PROVE  RequestOK(n)'
  <1> USE DEF Same, NotTaken
  <1>1. NoTrace(n)'
    BY DEF RequestOK, NotSentOK, Sent, NoTrace
  <1>2. OnceOK(n)'
    BY <1>1 DEF OnceOK, NoTrace, Waits, Handles
  <1>3. OwnEntry(n)' /\ InviteHeld(n)' /\ NotSentOK(n)'
    BY <1>1 DEF RequestOK, OwnEntry, InviteHeld, NoTrace, NotSentOK, Sent
  <1> QED
    BY <1>2, <1>3 DEF RequestOK

LEMMA PeerBeginsInv ==
  ASSUME SipInv, NEW n \in Request, PeerBegins(n)
  PROVE  SipInv'
  <1> USE DEF PeerBegins, tables, history
  <1>0. SipTypeOK
    BY DEF SipInv
  <1>2. /\ \A m \in Request : m # n => peer'[m] = peer[m]
        /\ peer'[n].left = Timeout + T4 /\ peer[n].left = -1
        /\ peer' \in [Request -> PeerSet]
    <2> DEFINE q == [peer[n] EXCEPT !.left = Timeout + T4]
    <2>1. peer \in [Request -> PeerSet]
      BY <1>0 DEF SipTypeOK
    <2>2. q \in PeerSet /\ q.left = Timeout + T4
      BY <2>1, Times DEF PeerSet
    <2>3. peer' = [peer EXCEPT ![n] = q] /\ peer[n].left = -1
      BY DEF Sent
    <2> HIDE DEF q
    <2> QED
      BY <2>1, <2>2, <2>3
  <1>3. SipTypeOK'
    BY <1>0, <1>2 DEF SipTypeOK
  <1>4. \A m \in Request : Same(m) /\ NotTaken(m)
    BY LoopStays DEF Same
  <1>5. \A m \in Request : m # n => Calm(m)
    <2>1. \A m \in Request : peer[m].left \in Int /\ Near(peer[m]) \in Int
      BY <1>0, SipTypeFacts
    <2> QED
      BY <1>2, <2>1 DEF Calm
  <1>6. ASSUME NEW m \in Request, Header[m].method # "ACK" PROVE RequestOK(m)'
    <2>1. RequestOK(m)
      BY <1>6 DEF SipInv, RequestsOK
    <2>2. CASE m = n
      BY <1>0, <1>2, <1>3, <1>4, <2>1, <2>2, Times, SentInv
    <2>3. CASE m # n
      BY <1>0, <1>3, <1>4, <1>5, <2>1, <2>3, FrameRequest
    <2> QED
      BY <2>2, <2>3
  <1>7. ASSUME NEW m \in Request, Header[m].method = "ACK" PROVE AckOK(m)'
    <2>1. AckOK(m)
      BY <1>7 DEF SipInv, RequestsOK
    <2>2. ASSUME NEW i \in Request, Header[i].method # "ACK", KeyOf(i) = KeyOf(m), peer'[m].left # -1
          PROVE  peer'[i].left <= T4 /\ peer'[i].left # -1
      <3>1. Header[m].needs = "failure"
        BY <1>7, <2>2, SharedKey DEF Acknowledges
      <3>2. m # n /\ peer[m].left # -1
        BY <1>2, <2>2, <3>1
      <3>3. i # n
        BY <1>2, <2>1, <2>2, <3>2 DEF AckOK
      <3> QED
        BY <1>2, <2>1, <2>2, <3>2, <3>3 DEF AckOK
    <2> QED
      BY <2>1, <2>2 DEF AckOK, Conforming
  <1>8. Offered'
    BY DEF SipInv, Offered
  <1> QED
    BY <1>3, <1>6, <1>7, <1>8 DEF SipInv, RequestsOK

\* A follower is sent: one in a dialog, or an ACK, makes the peer stop the copies
\* of its INVITE.
LEMMA PeerFollowsInv ==
  ASSUME SipInv, NEW n \in Request, PeerFollows(n)
  PROVE  SipInv'
  <1> USE DEF tables, history
  <1> DEFINE P == PeerSet
             i == InviteOf(n)
  <1>0. SipTypeOK /\ UNCHANGED <<server, client, dialogs, loop, tags, air, finals, handed, late, issued, evicted>>
    BY DEF SipInv, PeerFollows
  <1>a. peer \in [Request -> P] /\ peer[n].left = -1
    BY <1>0 DEF SipTypeOK, PeerFollows, Sent
  <1>p. \A m \in Request : peer[m] \in P /\ peer[m].left \in Int /\ Near(peer[m]) \in Int
    BY <1>0, SipTypeFacts
  <1>b. \A m \in Request : /\ m # n => Calm(m)
                           /\ m = n => peer'[m].left # -1
    <2>1. CASE Header[n].needs = "INVITE"
      <3>1. peer' = [peer EXCEPT ![n].left = Timeout + T4]
        BY <2>1 DEF PeerFollows
      <3>2. peer'[n].left = Timeout + T4 /\ \A m \in Request : m # n => peer'[m] = peer[m]
        BY <1>a, <3>1 DEF PeerSet
      <3> QED
        BY <1>0, <1>p, <3>2, Times DEF Calm
    <2>2. CASE Header[n].needs # "INVITE"
      <3>1. PICK r \in air[KeyOf(i)] :
              peer' = [x \in Request |-> IF x = n THEN [left |-> Timeout + T4, age |-> -1, tag |-> r.tag]
                                             ELSE IF x = i THEN Quiet(peer[x]) ELSE peer[x]]
        BY <2>2 DEF PeerFollows
      <3>2. peer'[n].left = Timeout + T4
        <4>1. peer'[n] = [left |-> Timeout + T4, age |-> -1, tag |-> r.tag]
          BY <3>1
        <4> QED
          BY <4>1
      <3>3. \A m \in Request : m # n => peer'[m] = Quiet(peer[m]) \/ peer'[m] = peer[m]
        BY <3>1
      <3>6. \A m \in Request : m # n => Calm(m)
        BY <1>0, <1>p, <3>3, QuietFacts DEF Calm
      <3> QED
        BY <3>2, <3>6, Times
    <2> QED
      BY <2>1, <2>2
  <1>c. peer' \in [Request -> P]
    <2>1. CASE Header[n].needs = "INVITE"
      <3> DEFINE q == [peer[n] EXCEPT !.left = Timeout + T4]
      <3>1. peer' = [peer EXCEPT ![n] = q]
        BY <2>1 DEF PeerFollows
      <3>2. q \in P
        BY <1>a, Times DEF PeerSet
      <3> HIDE DEF q
      <3> QED
        BY <1>a, <3>1, <3>2
    <2>2. CASE Header[n].needs # "INVITE"
      <3>1. PICK r \in air[KeyOf(i)] :
              peer' = [x \in Request |-> IF x = n THEN [left |-> Timeout + T4, age |-> -1, tag |-> r.tag]
                                             ELSE IF x = i THEN Quiet(peer[x]) ELSE peer[x]]
        BY <2>2 DEF PeerFollows
      <3>2. KeyOf(i) \in Key
        BY SipAssumption, HeaderFacts DEF PeerFollows
      <3>3. r.tag \in Nat
        BY <1>0, <3>2 DEF SipTypeOK, Response
      <3>4. [left |-> Timeout + T4, age |-> -1, tag |-> r.tag] \in P
        BY <3>3, Times DEF PeerSet
      <3>5. \A m \in Request : Quiet(peer[m]) \in P /\ peer[m] \in P
        BY <1>a, QuietFacts
      <3> HIDE DEF P
      <3> QED
        BY <3>1, <3>4, <3>5
    <2> QED
      BY <2>1, <2>2
  <1>3. SipTypeOK'
    BY <1>0, <1>c DEF SipTypeOK
  <1>4. \A m \in Request : Same(m) /\ NotTaken(m)
    BY <1>0, LoopStays DEF Same
  <1>6. ASSUME NEW m \in Request, Header[m].method # "ACK" PROVE RequestOK(m)'
    <2>1. RequestOK(m)
      BY <1>6 DEF SipInv, RequestsOK
    <2>2. CASE m = n
      BY <1>0, <1>a, <1>b, <1>3, <1>4, <2>1, <2>2, SentInv DEF Sent
    <2>3. CASE m # n
      BY <1>0, <1>3, <1>4, <1>b, <2>1, <2>3, FrameRequest
    <2> QED
      BY <2>2, <2>3
  <1>7. ASSUME NEW m \in Request, Header[m].method = "ACK" PROVE AckOK(m)'
    <2>1. AckOK(m)
      BY <1>7 DEF SipInv, RequestsOK
    <2>2. ASSUME NEW o \in Request, Header[o].method # "ACK", KeyOf(o) = KeyOf(m), peer'[m].left # -1
          PROVE  peer'[o].left <= T4 /\ peer'[o].left # -1
      <3>0. peer[o].left \in Int /\ peer'[o].left \in Int /\ T4 \in Int
        BY <1>a, <1>c, Times DEF PeerSet
      <3>1. CASE m # n
        <4>1. peer[m].left # -1
          BY <1>b, <2>2, <3>1 DEF Calm
        <4>2. peer[o].left <= T4 /\ peer[o].left # -1
          BY <2>1, <2>2, <4>1 DEF AckOK
        <4>3. o # n
          BY <1>a, <4>2
        <4> QED
          BY <1>b, <3>0, <4>2, <4>3 DEF Calm
      <3>2. CASE m = n
        <4>1. Header[n].needs = "failure" /\ o = i
          BY <1>7, <2>2, <3>2, SharedKey DEF Acknowledges
        <4>2. PICK r \in air[KeyOf(i)] :
                peer' = [x \in Request |-> IF x = n THEN [left |-> Timeout + T4, age |-> -1, tag |-> r.tag]
                                             ELSE IF x = i THEN Quiet(peer[x]) ELSE peer[x]]
          BY <4>1 DEF PeerFollows
        <4>3. RequestOK(o)
          BY <2>2 DEF SipInv, RequestsOK
        <4>4. peer[o].left # -1
          BY <4>1, <4>2, <4>3 DEF RequestOK, NotSentOK
        <4>5. o # n
          BY <1>7, <2>2, <3>2
        <4>6. peer'[o] = Quiet(peer[o])
          BY <1>a, <4>1, <4>2, <4>5
        <4> QED
          BY <1>a, <4>4, <4>6, QuietFacts
      <3> QED
        BY <3>1, <3>2
    <2> QED
      BY <1>0, <2>1, <2>2 DEF AckOK, Conforming
  <1>8. Offered'
    BY <1>0 DEF SipInv, Offered
  <1> QED
    BY <1>3, <1>6, <1>7, <1>8 DEF SipInv, RequestsOK

-----------------------------------------------------------------------------
\* Steps that have nothing to do with the requests of peers.

LEMMA CommandsInv ==
  ASSUME SipInv, UNCHANGED <<server, dialogs, loop, tags, peer, air, finals, handed, late>>, evicted \subseteq evicted'
  PROVE  SipInv'
  <1>1. SipTypeOK /\ SipTypeOK'
    BY DEF SipInv, SipTypeOK
  <1>2. Offered'
    <2>1. Up(dialogs)' = Up(dialogs)
      BY DEF Up
    <2> QED
      BY <1>1, <2>1, FrameOffered DEF SipInv
  <1> QED
    BY <1>1, <1>2, CalmStays, LoopStays, FrameInv

LEMMA TickDialogsInv ==
  ASSUME SipInv, TickDialogs
  PROVE  SipInv'
  <1> USE DEF TickDialogs, history
  <1>0. SipTypeOK /\ dialogs \in [1 .. MaxTags -> Dialog]
    BY DEF SipInv, SipTypeOK
  <1>1. dialogs' \in [1 .. MaxTags -> Dialog] /\ Up(dialogs)' \subseteq Up(dialogs)
    BY <1>0, DialogAssumption DEF ReclaimDialogs, Up, NoDialog, Dialog
  <1>2. SipTypeOK'
    BY <1>0, <1>1 DEF SipTypeOK
  <1>3. Offered'
    BY <1>0, <1>1, FrameOffered DEF SipInv
  <1> QED
    BY <1>0, <1>2, <1>3, CalmStays, LoopStays, FrameInv

-----------------------------------------------------------------------------
\* Receive loops.

WorkSet == [pc : Pc, m : Request \cup {NoRequest}, replies : Seq(Response)]

LEMMA OnwardFacts ==
  ASSUME NEW m \in Request, NEW deliver \in BOOLEAN
  PROVE  LET w == Onward(m, deliver) IN
         /\ w \in WorkSet /\ WorkOK(w) /\ w.pc \notin {"establish", "provide"}
         /\ w.pc # "idle" => deliver /\ w.m = m /\ Header[m].method # "ACK"
         /\ ~deliver \/ Header[m].method = "ACK" => w = NoWork
  <1> DEFINE e == <<>>
             w == Onward(m, deliver)
  <1>1. e \in Seq(Response)
    OBVIOUS
  <1>2. \/ w = NoWork
        \/ /\ deliver /\ Header[m].method # "ACK"
           /\ \E p \in {"dialog", "access"} : w = [pc |-> p, m |-> m, replies |-> e]
    BY DEF Onward
  <1>3. ~deliver \/ Header[m].method = "ACK" => w = NoWork
    BY DEF Onward
  <1> HIDE DEF e, w
  <1>4. CASE w = NoWork
    BY <1>4, NoWorkFacts DEF WorkSet, w
  <1>5. CASE w # NoWork
    <2>1. w \in WorkSet
      BY <1>1, <1>2, <1>5 DEF WorkSet, Pc
    <2>2. w.pc \in {"dialog", "access"} /\ w.m = m
      BY <1>2, <1>5
    <2>3. WorkOK(w)
      BY <1>2, <1>5, <2>2 DEF WorkOK
    <2> QED
      BY <1>2, <1>3, <1>5, <2>1, <2>2, <2>3 DEF w
  <1> QED
    BY <1>4, <1>5

\* One loop goes on.
LEMMA LoopTyped ==
  ASSUME SipTypeOK, NEW l \in Loop, NEW w \in WorkSet, WorkOK(w), loop' = [loop EXCEPT ![l] = w]
  PROVE  /\ loop' \in [Loop -> [pc : Pc, m : Request \cup {NoRequest}, replies : Seq(Response)]]
         /\ \A i \in Loop : WorkOK(loop'[i])
         /\ loop'[l] = w /\ \A i \in Loop : i # l => loop'[i] = loop[i]
  BY DEF SipTypeOK, WorkSet

LEMMA LoopTakes ==
  ASSUME SipTypeOK, NEW l \in Loop, NEW w, loop' = [loop EXCEPT ![l] = w], NEW m \in Request,
         w.pc # "idle" /\ w.m = m => Handles(l, m),
         w.pc \in {"dialog", "access"} /\ w.m = m => Waits(l, m)
  PROVE  NotTaken(m)
  <1>1. loop'[l] = w /\ \A i \in Loop : i # l => loop'[i] = loop[i]
    BY DEF SipTypeOK
  <1>2. ASSUME NEW i \in Loop
        PROVE  (Handles(i, m)' => Handles(i, m)) /\ (Waits(i, m)' => Waits(i, m))
    BY <1>1 DEF Handles, Waits
  <1> QED
    BY <1>2 DEF NotTaken

LEMMA LoopWork ==
  ASSUME SipTypeOK, NEW l \in Loop, loop[l].pc # "idle"
  PROVE  /\ loop[l].m \in Request /\ Header[loop[l].m].method # "ACK"
         /\ loop[l] \in WorkSet /\ KeyOf(loop[l].m) \in Key
  BY HeaderFacts DEF SipTypeOK, WorkOK, WorkSet

LEMMA RouteFacts ==
  ASSUME NEW ds \in [1 .. MaxTags -> Dialog], NEW t \in Nat, NEW method, NEW cseq \in Nat
  PROVE  LET d == Route(ds, t, method, cseq).dialogs IN
         d \in [1 .. MaxTags -> Dialog] /\ Up(d) \subseteq Up(ds)
  <1> DEFINE d == Route(ds, t, method, cseq).dialogs
             a == [ds[t] EXCEPT !.idle = 0]
             b == [ds[t] EXCEPT !.cseq = cseq, !.idle = 0]
  <1>1. \/ d = [ds EXCEPT ![t] = a] \/ d = [ds EXCEPT ![t] = b] \/ d = [ds EXCEPT ![t] = NoDialog]
    <2>1. CASE ~Fresh(ds[t], method, cseq)
      BY <2>1 DEF Route
    <2>2. CASE Fresh(ds[t], method, cseq) /\ method = "BYE"
      BY <2>2 DEF Route
    <2>3. CASE Fresh(ds[t], method, cseq) /\ method \in {"ACK", "CANCEL"}
      BY <2>3 DEF Route
    <2>4. CASE Fresh(ds[t], method, cseq) /\ method \notin {"ACK", "CANCEL", "BYE"}
      BY <2>4 DEF Route
    <2> QED
      BY <2>1, <2>2, <2>3, <2>4
  <1>2. t \in 1 .. MaxTags => a \in Dialog /\ a.on = ds[t].on /\ b \in Dialog /\ b.on = ds[t].on
    <2>0. 0 \in 0 .. DialogTtl
      BY DialogAssumption
    <2>1. ASSUME NEW d0 \in Dialog
          PROVE  [d0 EXCEPT !.idle = 0] \in Dialog /\ [d0 EXCEPT !.idle = 0].on = d0.on
      BY <2>0 DEF Dialog
    <2>2. ASSUME NEW d0 \in Dialog, NEW c0 \in Nat
          PROVE  [d0 EXCEPT !.cseq = c0] \in Dialog /\ [d0 EXCEPT !.cseq = c0].on = d0.on
      BY DEF Dialog
    <2>3. ASSUME t \in 1 .. MaxTags
          PROVE  b \in Dialog /\ b.on = ds[t].on
      <3> DEFINE c0 == [ds[t] EXCEPT !.cseq = cseq]
      <3>1. c0 \in Dialog /\ c0.on = ds[t].on /\ b = [c0 EXCEPT !.idle = 0]
        BY <2>2, <2>3
      <3> HIDE DEF c0, b
      <3> QED
        BY <2>1, <3>1
    <2> QED
      BY <2>1, <2>3
  <1>3. NoDialog \in Dialog /\ NoDialog.on = FALSE
    BY DialogAssumption DEF Dialog, NoDialog
  <1> HIDE DEF a, b, d
  <1>4. d \in [1 .. MaxTags -> Dialog]
    BY <1>1, <1>2, <1>3
  <1>5. \A u \in 1 .. MaxTags : d[u].on => ds[u].on
    BY <1>1, <1>2, <1>3
  <1> QED
    BY <1>4, <1>5 DEF Up, d

LEMMA RouteDialogInv ==
  ASSUME SipInv, NEW l \in Loop, RouteDialog(l)
  PROVE  SipInv'
  <1> DEFINE m == loop[l].m
             t == peer[m].tag
             r == Route(dialogs, t, Header[m].method, Header[m].cseq)
             w == [loop[l] EXCEPT !.pc = "access"]
  <1>0. SipTypeOK /\ loop[l].pc = "dialog" /\ UNCHANGED <<server, client, tags, peer, air, finals, handed, late, issued, evicted>>
    BY DEF SipInv, RouteDialog, history
  <1>1. m \in Request /\ loop[l] \in WorkSet /\ t \in Nat /\ Header[m].cseq \in Nat /\ Header[m].method # "ACK"
    BY <1>0, LoopWork, HeaderFacts, SipTypeFacts
  <1>2. dialogs' = r.dialogs \/ dialogs' = dialogs
    BY DEF RouteDialog
  <1>3. dialogs' \in [1 .. MaxTags -> Dialog] /\ Up(dialogs)' \subseteq Up(dialogs)
    <2>1. r.dialogs \in [1 .. MaxTags -> Dialog] /\ Up(r.dialogs) \subseteq Up(dialogs)
      BY <1>0, <1>1, RouteFacts DEF SipTypeOK
    <2> HIDE DEF r
    <2>2. CASE dialogs' = r.dialogs
      BY <2>1, <2>2
    <2>3. CASE dialogs' = dialogs
      BY <1>0, <2>3 DEF SipTypeOK
    <2> QED
      BY <1>2, <2>2, <2>3
  <1>4. PICK v : loop' = [loop EXCEPT ![l] = v] /\ v \in {NoWork, w}
    BY DEF RouteDialog
  <1>5. w \in WorkSet /\ w.pc = "access" /\ w.m = m
    BY <1>1 DEF WorkSet, Pc
  <1>6. WorkOK(w)
    BY <1>1, <1>5 DEF WorkOK
  <1> HIDE DEF w, m
  <1>7. v \in WorkSet /\ WorkOK(v) /\ (v.pc # "idle" => v.m = m)
    BY <1>4, <1>5, <1>6, NoWorkFacts DEF WorkSet
  <1>8. SipTypeOK' /\ \A i \in Loop : i # l => loop'[i] = loop[i]
    BY <1>0, <1>3, <1>4, <1>7, LoopTyped DEF SipTypeOK
  <1>9. \A n \in Request : NotTaken(n)
    <2>1. Waits(l, m) /\ Handles(l, m)
      BY <1>0 DEF Waits, Handles, m
    <2> QED
      BY <1>0, <1>4, <1>7, <2>1, LoopTakes
  <1>10. Offered'
    BY <1>0, <1>3, <1>8, FrameOffered DEF SipInv
  <1> QED
    BY <1>0, <1>8, <1>9, <1>10, CalmStays, FrameInv

LEMMA EstablishInv ==
  ASSUME SipInv, NEW l \in Loop, Establish(l)
  PROVE  SipInv'
  <1> DEFINE m == loop[l].m
             t == Head(loop[l].replies).tag
             w == [loop[l] EXCEPT !.pc = "provide"]
  <1>0. SipTypeOK /\ loop[l].pc = "establish" /\ UNCHANGED <<server, client, tags, peer, air, finals, handed, late, issued, evicted>>
    BY DEF SipInv, Establish, history
  <1>1. m \in Request /\ loop[l] \in WorkSet /\ Header[m].cseq \in Nat /\ WorkOK(loop[l])
    BY <1>0, LoopWork, HeaderFacts DEF SipTypeOK
  <1>2. PICK v : dialogs' = EstablishUas(dialogs, v, t, Header[m].cseq)
    BY DEF Establish
  <1>3. dialogs' \in [1 .. MaxTags -> Dialog] /\ \A u \in Up(dialogs)' : u = t \/ u \in Up(dialogs)
    <2>1. [on |-> TRUE, cseq |-> Header[m].cseq, idle |-> 0] \in Dialog /\ NoDialog \in Dialog /\ ~NoDialog.on
      BY <1>1, DialogAssumption DEF Dialog, NoDialog
    <2>2. dialogs \in [1 .. MaxTags -> Dialog]
      BY <1>0 DEF SipTypeOK
    <2> HIDE DEF t, m
    <2>3. /\ DOMAIN dialogs' = 1 .. MaxTags
          /\ \A u \in 1 .. MaxTags : /\ dialogs'[u] \in Dialog
                                     /\ dialogs'[u].on => u = t \/ dialogs[u].on
      BY <1>2, <2>1, <2>2 DEF EstablishUas
    <2>4. dialogs' = [u \in 1 .. MaxTags |-> dialogs'[u]]
      BY <1>2, <2>2, <2>3 DEF EstablishUas
    <2> QED
      BY <2>2, <2>3, <2>4 DEF Up
  <1>4. loop' = [loop EXCEPT ![l] = w]
    BY DEF Establish
  <1>5. w \in WorkSet /\ w.pc = "provide" /\ w.m = m /\ w.replies = loop[l].replies
    BY <1>1 DEF WorkSet, Pc
  <1>6. WorkOK(w)
    BY <1>0, <1>1, <1>5 DEF WorkOK
  <1>a. Head(loop[l].replies) = Ok(t) /\ Header[m].method = "INVITE"
    <2>1. Success(Head(loop[l].replies)) /\ Header[m].method = "INVITE"
      BY <1>0, <1>1 DEF WorkOK, Establishes
    <2>2. Head(loop[l].replies) \in Response
      BY <1>0, <1>1 DEF WorkOK, WorkSet
    <2> QED
      BY <2>1, <2>2 DEF Response, Success, Ok
  <1> HIDE DEF w, m, t
  <1>8. SipTypeOK' /\ loop'[l] = w /\ \A i \in Loop : i # l => loop'[i] = loop[i]
    BY <1>0, <1>3, <1>4, <1>5, <1>6, LoopTyped DEF SipTypeOK
  <1>9. \A n \in Request : NotTaken(n)
    <2>1. Handles(l, m)
      BY <1>0 DEF Handles, m
    <2> QED
      BY <1>0, <1>4, <1>5, <2>1, LoopTakes
  <1>10. Offered'
    <2> SUFFICES ASSUME NEW u \in Up(dialogs)'
                 PROVE  \/ \E k \in Key : Ok(u) \in finals'[k]
                        \/ \E i \in Loop : /\ loop'[i].pc = "provide" /\ Head(loop'[i].replies) = Ok(u)
                                           /\ Header[loop'[i].m].method = "INVITE"
                        \/ \E n \in Request : Header[n].method = "INVITE" /\ KeyOf(n) \in evicted'
      BY DEF Offered
    <2>1. CASE u = t
      BY <1>5, <1>8, <1>a, <2>1
    <2>2. CASE u \in Up(dialogs)
      BY <1>0, <1>8, <2>2 DEF SipInv, Offered
    <2> QED
      BY <1>3, <2>1, <2>2
  <1> QED
    BY <1>0, <1>8, <1>9, <1>10, CalmStays, FrameInv

\* Answers of the access machine: at most one provisional response, then the last.
RepliesOK(rs) ==
  /\ rs \in Seq(Response)
  /\ rs = <<>> \/ Len(rs) = 1 \/ (Len(rs) = 2 /\ Provisional(rs[1]))

LEMMA AnswersFacts ==
  ASSUME SipTypeOK, NEW m \in Request, NEW rs \in Answers(m)
  PROVE  RepliesOK(rs)
  <1> DEFINE tag == IF Header[m].method # "INVITE" THEN 0
                    ELSE IF peer[m].tag # 0 THEN peer[m].tag ELSE tags + 1
             trying == [code |-> "1xx", tag |-> tag]
             ok == [code |-> "2xx", tag |-> tag]
             no == [code |-> "failure", tag |-> 0]
  <1>1. tag \in Nat
    BY SipTypeFacts DEF SipTypeOK
  <1>2. rs \in {<<>>, <<no>>, <<trying>>, <<ok>>, <<trying, ok>>}
    BY DEF Answers
  <1> HIDE DEF tag
  <1>3. trying \in Response /\ ok \in Response /\ no \in Response /\ Provisional(trying)
    BY <1>1 DEF Response, Provisional
  <1> HIDE DEF trying, ok, no
  <1>4. CASE rs = <<>>
    BY <1>4 DEF RepliesOK
  <1>5. ASSUME NEW r \in Response, rs = <<r>> PROVE RepliesOK(rs)
    <2>1. rs \in Seq(Response) /\ Len(rs) = 1
      BY <1>5
    <2> QED
      BY <2>1 DEF RepliesOK
  <1>6. ASSUME NEW r \in Response, NEW q \in Response, rs = <<r, q>>, Provisional(r) PROVE RepliesOK(rs)
    <2>1. rs \in Seq(Response) /\ Len(rs) = 2 /\ rs[1] = r
      BY <1>6
    <2> QED
      BY <1>6, <2>1 DEF RepliesOK
  <1> QED
    BY <1>2, <1>3, <1>4, <1>5, <1>6

LEMMA ReplyingFacts ==
  ASSUME NEW m \in Request, Header[m].method # "ACK", NEW rs, RepliesOK(rs)
  PROVE  LET w == Replying(m, rs) IN
         /\ w \in WorkSet /\ WorkOK(w) /\ w.pc \notin {"dialog", "access"}
         /\ w.pc # "idle" => w.m = m
         /\ rs = <<>> => w = NoWork
  <1>1. CASE rs = <<>>
    BY <1>1, NoWorkFacts DEF Replying, WorkSet
  <1>2. CASE rs # <<>>
    <2> DEFINE w == Replying(m, rs)
    <2>1. /\ w.pc \in {"establish", "provide"} /\ w.m = m /\ w.replies = rs /\ w \in WorkSet
          /\ w.pc = "establish" => Establishes(m, Head(rs))
      BY <1>2 DEF Replying, RepliesOK, WorkSet, Pc
    <2>2. Len(rs) = 1 \/ (Len(rs) = 2 /\ Provisional(rs[1]))
      BY <1>2 DEF RepliesOK
    <2> HIDE DEF w
    <2>3. WorkOK(w)
      BY <2>1, <2>2 DEF WorkOK
    <2> QED
      BY <1>2, <2>1, <2>3 DEF w
  <1> QED
    BY <1>1, <1>2

LEMMA AccessInv ==
  ASSUME SipInv, NEW l \in Loop, Access(l)
  PROVE  SipInv'
  <1> DEFINE m == loop[l].m
  <1>0. SipTypeOK /\ loop[l].pc = "access" /\ UNCHANGED <<server, client, dialogs, peer, air, finals, late, issued, evicted>>
    BY DEF SipInv, Access, tables
  <1>1. m \in Request /\ Header[m].method # "ACK"
    BY <1>0, LoopWork
  <1>2. PICK rs \in Answers(m) : loop' = [loop EXCEPT ![l] = Replying(m, rs)]
                                 /\ tags' = IF UsesTag(rs) THEN tags + 1 ELSE tags
    BY DEF Access
  <1>3. handed' = [handed EXCEPT ![m] = IF handed[m] < 2 THEN handed[m] + 1 ELSE handed[m]]
    BY DEF Access
  <1>h. Handles(l, m) /\ Waits(l, m)
    BY <1>0 DEF Handles, Waits
  <1> HIDE DEF m
  <1>4. PICK w : w = Replying(m, rs)
    OBVIOUS
  <1>5. w \in WorkSet /\ WorkOK(w) /\ w.pc \notin {"dialog", "access"} /\ (w.pc # "idle" => w.m = m)
    BY <1>0, <1>1, <1>4, AnswersFacts, ReplyingFacts
  <1>6. loop' = [loop EXCEPT ![l] = w]
    BY <1>2, <1>4
  <1>7. handed' \in [Request -> Nat] /\ tags' \in Nat
    BY <1>0, <1>1, <1>2, <1>3 DEF SipTypeOK
  <1>8. SipTypeOK' /\ loop'[l] = w /\ \A i \in Loop : i # l => loop'[i] = loop[i]
    BY <1>0, <1>5, <1>6, <1>7, LoopTyped DEF SipTypeOK
  <1>9. \A n \in Request : NotTaken(n)
    BY <1>0, <1>5, <1>6, <1>h, LoopTakes
  <1>10. \A n \in Request : Calm(n)
    BY <1>0, CalmStays
  <1>11. ASSUME NEW n \in Request, Header[n].method # "ACK" PROVE RequestOK(n)'
    <2>1. RequestOK(n)
      BY <1>11 DEF SipInv, RequestsOK
    <2>2. CASE n # m
      <3>1. Same(n)
        BY <1>0, <1>3, <2>2 DEF Same, SipTypeOK
      <3> QED
        BY <1>0, <1>8, <1>9, <1>10, <2>1, <3>1, FrameRequest
    <2>3. CASE n = m
      <3>1. ~NoTrace(n)
        BY <1>h, <2>3 DEF NoTrace
      <3>2. NotSentOK(n)'
        BY <1>0, <2>1, <3>1 DEF RequestOK, NotSentOK
      <3>3. OwnEntry(n)'
        BY <1>0, <2>1, <2>3 DEF RequestOK, OwnEntry
      <3>4. InviteHeld(n)'
        BY <1>0, <1>9, <2>1 DEF RequestOK, InviteHeld, NotTaken
      <3>5. ASSUME OnceOK(n) PROVE OnceOK(n)'
        <4>1. handed[n] = 0 /\ \A i \in Loop : Waits(i, n) => i = l
          BY <1>h, <2>3, <3>5 DEF OnceOK
        <4>2. handed'[n] = 1
          BY <1>0, <1>3, <2>3, <4>1 DEF SipTypeOK
        <4>3. \A i \in Loop : ~Waits(i, n)'
          BY <1>5, <1>8, <1>9, <4>1 DEF NotTaken, Waits
        <4>4. Guarded(n) => Guarded(n)'
          BY <1>0 DEF Guarded
        <4> QED
          BY <1>0, <3>1, <3>5, <4>2, <4>3, <4>4 DEF OnceOK
      <3>6. (Tracked(n) /\ ~Accepted(n) /\ n \notin late)' => Tracked(n) /\ ~Accepted(n) /\ n \notin late
        BY <1>0 DEF Tracked, Accepted
      <3> QED
        BY <2>1, <2>3, <3>2, <3>3, <3>4, <3>5, <3>6 DEF RequestOK
    <2> QED
      BY <2>2, <2>3
  <1>12. ASSUME NEW n \in Request, Header[n].method = "ACK" PROVE AckOK(n)'
    BY <1>0, <1>8, <1>10, <1>12, FrameAck DEF SipInv, RequestsOK
  <1>13. Offered'
    <2>1. Up(dialogs)' = Up(dialogs)
      BY <1>0 DEF Up
    <2> QED
      BY <1>0, <1>8, <2>1, FrameOffered DEF SipInv
  <1> QED
    BY <1>8, <1>11, <1>12, <1>13 DEF SipInv, RequestsOK

\* A copy arrives.
LEMMA ArrivesFacts ==
  ASSUME SipTypeOK, NEW l \in Loop, NEW n \in Request, Arrives(l, n)
  PROVE  /\ loop[l].pc = "idle" /\ peer[n].left > 0
         /\ peer' \in [Request -> PeerSet]
         /\ \A m \in Request : Calm(m)
         /\ \A m \in Request : m # n => peer'[m] = peer[m]
         /\ Header[n].tcp => peer'[n].left = 0
         /\ peer'[n].left # -1 /\ peer'[n].age # -1
         /\ n \notin late' => Near(peer[n]) > 0
  <1>1. loop[l].pc = "idle" /\ peer[n].left > 0 /\ peer \in [Request -> PeerSet]
    BY DEF Arrives, SipTypeOK
  <1>2. PICK p \in PeerSet : p = peer[n]
    BY <1>1
  <1>3. PICK q : q = Heard(n)
    OBVIOUS
  <1>4. /\ q \in PeerSet /\ q.left = (IF Header[n].tcp THEN 0 ELSE p.left)
        /\ q.age = (IF p.age = -1 THEN 0 ELSE p.age)
    <2>1. PICK a : a = IF Header[n].tcp THEN 0 ELSE p.left
      OBVIOUS
    <2>2. PICK b : b = IF p.age = -1 THEN 0 ELSE p.age
      OBVIOUS
    <2>3. a \in -1 .. Timeout + T4 /\ b \in -1 .. Timeout
      BY <2>1, <2>2, Times DEF PeerSet
    <2>4. q = [p EXCEPT !.left = a, !.age = b]
      BY <1>2, <1>3, <2>1, <2>2 DEF Heard
    <2>5. q \in PeerSet /\ q.left = a /\ q.age = b
      BY <2>3, <2>4 DEF PeerSet
    <2> QED
      BY <2>1, <2>2, <2>5
  <1>5. /\ q.left <= p.left /\ q.left # -1 /\ p.left # -1 /\ q.age # -1 /\ Near(q) <= Near(p)
    BY <1>1, <1>2, <1>4, Times DEF PeerSet, Near, Window
  <1>6. peer' = [peer EXCEPT ![n] = q]
    BY <1>3 DEF Arrives
  <1>7. peer' \in [Request -> PeerSet] /\ peer'[n] = q /\ \A m \in Request : m # n => peer'[m] = peer[m]
    BY <1>1, <1>4, <1>6
  <1>8. late \subseteq late' /\ (p.age = Timeout => n \in late')
    BY <1>2 DEF Arrives
  <1>9. \A m \in Request : Calm(m)
    <2>1. \A m \in Request : peer[m].left \in Int /\ Near(peer[m]) \in Int
      BY SipTypeFacts
    <2> QED
      BY <1>2, <1>5, <1>7, <1>8, <2>1 DEF Calm
  <1>10. n \notin late' => Near(p) > 0
    BY <1>1, <1>2, <1>8, NearFacts
  <1> QED
    BY <1>1, <1>2, <1>4, <1>5, <1>7, <1>9, <1>10

LEMMA HandleStatelessInv ==
  ASSUME SipInv, NEW l \in Loop, NEW n \in Request, HandleStateless(l, n)
  PROVE  SipInv'
  <1>0. SipTypeOK /\ Arrives(l, n) /\ UNCHANGED <<server, client, dialogs, tags, air, finals, handed, issued, evicted>>
    BY DEF SipInv, HandleStateless, tables, history
  <1>a. Header[n].method = "ACK" \/ ~Header[n].keyed
    BY DEF HandleStateless
  <1>1. /\ loop[l].pc = "idle" /\ peer[n].left > 0 /\ \A m \in Request : Calm(m)
        /\ peer'[n].left # -1 /\ peer'[n].age # -1
        /\ peer' \in [Request -> PeerSet]
    BY <1>0, ArrivesFacts
  <1>2. PICK w : w = Onward(n, TRUE) /\ loop' = [loop EXCEPT ![l] = w]
    BY DEF HandleStateless
  <1>3. /\ w \in WorkSet /\ WorkOK(w) /\ w.pc \notin {"establish", "provide"}
        /\ w.pc # "idle" => w.m = n /\ Header[n].method # "ACK"
    BY <1>2, OnwardFacts
  <1>4. SipTypeOK' /\ loop'[l] = w /\ \A i \in Loop : i # l => loop'[i] = loop[i]
    BY <1>0, <1>1, <1>2, <1>3, LoopTyped DEF SipTypeOK
  <1>5. ASSUME NEW m \in Request, Header[m].method # "ACK" PROVE RequestOK(m)'
    <2>1. RequestOK(m) /\ Same(m)
      BY <1>0, <1>5 DEF SipInv, RequestsOK, Same
    <2>2. CASE m # n
      <3>1. NotTaken(m)
        BY <1>0, <1>2, <1>3, <2>2, LoopTakes
      <3> QED
        BY <1>0, <1>1, <1>4, <2>1, <3>1, FrameRequest
    <2>3. CASE m = n
      <3>1. ~Header[m].keyed
        BY <1>5, <1>a, <2>3
      <3>2. peer'[m].left # -1 /\ peer'[m].age # -1
        BY <1>1, <2>3
      <3>3. OwnEntry(m)' /\ InviteHeld(m)' /\ NotSentOK(m)' /\ ~Tracked(m)'
        BY <1>0, <2>1, <3>1, <3>2 DEF RequestOK, OwnEntry, InviteHeld, NotSentOK, Tracked
      <3> QED
        BY <3>3 DEF RequestOK
    <2> QED
      BY <2>2, <2>3
  <1>6. ASSUME NEW m \in Request, Header[m].method = "ACK" PROVE AckOK(m)'
    BY <1>0, <1>1, <1>4, <1>6, FrameAck DEF SipInv, RequestsOK
  <1>7. Offered'
    <2>1. Up(dialogs)' = Up(dialogs)
      BY <1>0 DEF Up
    <2> QED
      BY <1>0, <1>1, <1>4, <2>1, FrameOffered DEF SipInv
  <1> QED
    BY <1>4, <1>5, <1>6, <1>7 DEF SipInv, RequestsOK

\* ACKs, when an entry changes that is not theirs.
LEMMA FrameBare ==
  ASSUME SipTypeOK, SipTypeOK', NEW n \in Request, AckOK(n), \A m \in Request : Calm(m),
         Conforming(n) => ~Present(server'[KeyOf(n)]) /\ finals'[KeyOf(n)] = {}
  PROVE  AckOK(n)'
  <1>1. \A m \in Request : peer[m].left \in Int /\ peer'[m].left \in Int
    <2>1. /\ peer \in [Request -> PeerSet]
          /\ peer' \in [Request -> PeerSet]
      BY DEF SipTypeOK
    <2> QED
      BY <2>1, Times DEF PeerSet
  <1>2. ASSUME peer'[n].left # -1, NEW m \in Request, Header[m].method # "ACK", KeyOf(m) = KeyOf(n)
        PROVE  peer'[m].left <= T4 /\ peer'[m].left # -1
    BY <1>1, <1>2, Times DEF AckOK, Calm
  <1> QED
    BY <1>2 DEF AckOK, Conforming

LEMMA NewServerFacts ==
  ASSUME NEW method, method # "ACK"
  PROVE  LET e == NewServer(method) IN
         /\ EntryOK(e) /\ Present(e) /\ e.method = method /\ Unanswered(e)
         /\ e.final = {} /\ e.idle = 0 /\ (method = "INVITE" => e.st = "Proceeding")
  <1> DEFINE e == NewServer(method)
  <1> DEFINE z == <<>>
  <1>1. NoTransaction = [st |-> "none", method |-> "none", prov |-> {}, final |-> {}, n |-> 0,
                         timers |-> z, idle |-> 0]
    BY DEF NoTransaction
  <1>2. DOMAIN z = {}
    OBVIOUS
  <1> HIDE DEF z
  <1>3. /\ DOMAIN e = Fields /\ e.idle = 0 /\ e.final = {} /\ e.prov = {} /\ e.method = method
        /\ e.st \in {"Proceeding", "Trying"} /\ DOMAIN e.timers = {}
        /\ (method = "INVITE" => e.st = "Proceeding")
    BY <1>1, <1>2 DEF NewServer, Fields
  <1> HIDE DEF e
  <1> QED
    BY <1>3 DEF EntryOK, Sound, Present, Unanswered, e

LEMMA HandleNewInv ==
  ASSUME SipInv, NEW l \in Loop, NEW n \in Request, HandleNew(l, n)
  PROVE  SipInv'
  <1> DEFINE e == NewServer(Header[n].method)
  <1>0. /\ SipTypeOK /\ Arrives(l, n) /\ Header[n].method # "ACK" /\ ~Present(server[KeyOf(n)])
        /\ UNCHANGED <<client, dialogs, tags, air, finals, handed, issued>>
    BY DEF SipInv, HandleNew
  <1>1. /\ loop[l].pc = "idle" /\ peer[n].left > 0 /\ \A m \in Request : Calm(m)
        /\ peer' \in [Request -> PeerSet]
        /\ \A m \in Request : m # n => peer'[m] = peer[m]
        /\ Header[n].tcp => peer'[n].left = 0
        /\ peer'[n].left # -1 /\ peer'[n].age # -1 /\ (n \notin late' => Near(peer[n]) > 0)
    BY <1>0, ArrivesFacts
  <1>2. PICK w : w = Onward(n, TRUE) /\ loop' = [loop EXCEPT ![l] = w]
    BY DEF HandleNew
  <1>3. /\ w \in WorkSet /\ WorkOK(w) /\ w.pc \notin {"establish", "provide"}
        /\ w.pc # "idle" => w.m = n
    BY <1>2, OnwardFacts
  <1>4. PICK v : /\ server' = [k \in Key |-> CASE k = KeyOf(n) -> e
                                               [] k \in v -> NoTransaction
                                               [] OTHER -> server[k]]
                 /\ evicted' = evicted \cup v /\ \A k \in v : Present(server[k])
    <2>1. PICK v \in IF Victims(server, KeysOf(Header[n].tcp), MaxTransactions) = {} THEN {{}}
                     ELSE {{k} : k \in Victims(server, KeysOf(Header[n].tcp), MaxTransactions)} :
            /\ server' = [k \in Key |-> CASE k = KeyOf(n) -> e
                                          [] k \in v -> NoTransaction
                                          [] OTHER -> server[k]]
            /\ evicted' = evicted \cup v
      BY DEF HandleNew
    <2>2. \A k \in Victims(server, KeysOf(Header[n].tcp), MaxTransactions) : Present(server[k])
      BY DEF Victims
    <2> QED
      BY <2>1, <2>2
  <1>5. KeyOf(n) \notin v
    BY <1>0, <1>4
  <1>e. /\ EntryOK(e) /\ Present(e) /\ e.method = Header[n].method /\ Unanswered(e)
        /\ e.final = {} /\ e.idle = 0 /\ (Header[n].method = "INVITE" => e.st = "Proceeding")
    BY <1>0, NewServerFacts
  <1> HIDE DEF e
  <1>6. /\ DOMAIN server' = Key
        /\ \A k \in Key : server'[k] = IF k = KeyOf(n) THEN e ELSE IF k \in v THEN NoTransaction ELSE server[k]
    BY <1>4, <1>5
  <1>7. SipTypeOK' /\ loop'[l] = w /\ \A i \in Loop : i # l => loop'[i] = loop[i]
    <2>1. \A k \in Key : EntryOK(server'[k])
      BY <1>0, <1>6, <1>e, EmptyEntry DEF SipTypeOK
    <2> QED
      BY <1>0, <1>1, <1>2, <1>3, <1>6, <2>1, LoopTyped DEF SipTypeOK
  <1>8. ASSUME NEW m \in Request, Header[m].method # "ACK" PROVE RequestOK(m)'
    <2>0. KeyOf(m) \in Key
      BY HeaderFacts
    <2>1. RequestOK(m)
      BY <1>8 DEF SipInv, RequestsOK
    <2>2. CASE m # n
      <3>1. NotTaken(m)
        BY <1>0, <1>2, <1>3, <2>2, LoopTakes
      <3>2. KeyOf(m) # KeyOf(n)
        BY <1>0, <1>8, <2>2, OwnKey
      <3>3. CASE KeyOf(m) \notin v
        <4>1. Same(m)
          BY <1>0, <1>6, <2>0, <3>2, <3>3 DEF Same
        <4> QED
          BY <1>0, <1>1, <1>4, <1>7, <2>1, <3>1, <4>1, FrameRequest
      <3>4. CASE KeyOf(m) \in v
        <4>1. ~Present(server'[KeyOf(m)]) /\ KeyOf(m) \in evicted'
          BY <1>4, <1>6, <2>0, <3>2, <3>4, EmptyEntry
        <4>2. NotSentOK(m)'
          BY <1>0, <1>1, <2>1, <2>2, <3>1, <4>1 DEF RequestOK, NotSentOK, NoTrace, NotTaken
        <4>3. OwnEntry(m)' /\ InviteHeld(m)' /\ ~Tracked(m)'
          BY <4>1 DEF OwnEntry, InviteHeld, Tracked
        <4> QED
          BY <4>2, <4>3 DEF RequestOK
      <3> QED
        BY <3>3, <3>4
    <2>3. CASE m = n
      <3>1. server'[KeyOf(m)] = e
        BY <1>6, <2>0, <2>3
      <3>2. NotSentOK(m)'
        BY <1>1, <2>3 DEF NotSentOK
      <3>3. OwnEntry(m)'
        BY <1>e, <2>3, <3>1 DEF OwnEntry
      <3>4. \A i \in Loop : i # l => (Handles(i, m)' <=> Handles(i, m)) /\ (Waits(i, m)' <=> Waits(i, m))
        BY <1>7 DEF Handles, Waits
      <3>5. InviteHeld(m)'
        <4> SUFFICES ASSUME Header[m].method = "INVITE", Header[m].keyed, KeyOf(m) \notin evicted',
                            NEW i \in Loop, Handles(i, m)'
                     PROVE  /\ server'[KeyOf(m)].st = "Proceeding" /\ DOMAIN server'[KeyOf(m)].timers = {}
                            /\ server'[KeyOf(m)].idle = 0
                            /\ \A j \in Loop : Handles(j, m)' => j = i
          BY DEF InviteHeld
        <4>1. \A j \in Loop : ~Handles(j, m)
          BY <1>0, <1>4, <2>1, <2>3 DEF RequestOK, InviteHeld, Present
        <4>2. \A j \in Loop : Handles(j, m)' => j = l
          BY <3>4, <4>1
        <4> QED
          BY <1>e, <2>3, <3>1, <4>2 DEF Unanswered
      <3>6. ASSUME (Tracked(m) /\ ~Accepted(m) /\ m \notin late)' PROVE OnceOK(m)'
        <4>1. Tracked(m) /\ ~Accepted(m) /\ m \notin late /\ Near(peer[m]) > 0
          BY <1>0, <1>1, <1>4, <2>3, <3>6 DEF Tracked, Accepted, Calm
        <4>2. NoTrace(m)
          BY <1>0, <2>1, <2>3, <4>1 DEF RequestOK, OnceOK, Guarded
        <4>3. handed'[m] = 0 /\ \A i \in Loop : Waits(i, m)' => i = l
          BY <1>0, <3>4, <4>2 DEF NoTrace, Waits, Handles
        <4>4. ASSUME Near(peer'[m]) > 0 PROVE Guarded(m)'
          <5>1. ~Header[m].tcp /\ Near(peer'[m]) \in Int /\ Near(peer'[m]) <= Timeout
            <6>1. PICK p \in PeerSet : p = peer'[m]
              BY <1>1
            <6>2. Near(p) \in Int /\ Near(p) <= Timeout /\ p.left > 0
              BY <4>4, <6>1, NearFacts
            <6> QED
              BY <1>1, <2>3, <6>1, <6>2
          <5>2. finals'[KeyOf(m)] = {}
            BY <1>0, <4>2 DEF NoTrace
          <5>3. Guards(e, Near(peer'[m]))
            BY <1>e DEF Guards
          <5> QED
            BY <1>e, <3>1, <5>1, <5>2, <5>3, Times DEF Guarded
        <4> QED
          BY <4>3, <4>4 DEF OnceOK
      <3> QED
        BY <3>2, <3>3, <3>5, <3>6 DEF RequestOK
    <2> QED
      BY <2>2, <2>3
  <1>9. ASSUME NEW m \in Request, Header[m].method = "ACK" PROVE AckOK(m)'
    <2>1. AckOK(m) /\ KeyOf(m) \in Key
      BY <1>9, HeaderFacts DEF SipInv, RequestsOK
    <2>2. Conforming(m) => KeyOf(m) # KeyOf(n)
      BY <1>0, <1>9, SharedKey
    <2>3. Conforming(m) => ~Present(server'[KeyOf(m)]) /\ finals'[KeyOf(m)] = {}
      BY <1>0, <1>6, <2>1, <2>2, EmptyEntry DEF AckOK
    <2> QED
      BY <1>0, <1>1, <1>7, <2>1, <2>3, FrameBare
  <1>10. Offered'
    <2>1. Up(dialogs)' = Up(dialogs)
      BY <1>0 DEF Up
    <2> QED
      BY <1>0, <1>1, <1>4, <1>7, <2>1, FrameOffered DEF SipInv
  <1> QED
    BY <1>7, <1>8, <1>9, <1>10 DEF SipInv, RequestsOK

\* What is said about one key.
LEMMA SaysFacts ==
  ASSUME SipTypeOK, NEW k \in Key, NEW rs, rs \subseteq Response, Says(k, rs)
  PROVE  /\ air' \in [Key -> SUBSET Response] /\ finals' \in [Key -> SUBSET Response]
         /\ \A j \in Key : j # k => air'[j] = air[j] /\ finals'[j] = finals[j]
         /\ finals'[k] = finals[k] \cup {r \in rs : ~Provisional(r)}
         /\ air'[k] = air[k] \cup rs
         /\ \A j \in Key : finals[j] \subseteq finals'[j]
  BY DEF Says, SipTypeOK

\* Copies find the entry of their request, and so does the ACK of a failure.
LEMMA HandleCopyInv ==
  ASSUME SipInv, NEW l \in Loop, NEW n \in Request, HandleCopy(l, n)
  PROVE  SipInv'
  <1> DEFINE k == KeyOf(n)
             e == server[k]
             s == ServerRequest(e, Header[n].method, Header[n].tcp)
             a == Absorb(s.tx)
  <1>0. /\ SipTypeOK /\ Arrives(l, n) /\ Present(e) /\ Says(k, s.send)
        /\ server' = [server EXCEPT ![k] = a] /\ loop' = [loop EXCEPT ![l] = Onward(n, s.deliver)]
        /\ UNCHANGED <<client, dialogs, tags, handed, evicted, issued>>
    BY DEF SipInv, HandleCopy
  <1>k. k \in Key /\ EntryOK(e) /\ Sound(e) /\ Header[n].tcp \in BOOLEAN
    BY <1>0, HeaderFacts DEF SipTypeOK, EntryOK
  <1>1. /\ loop[l].pc = "idle" /\ peer[n].left > 0 /\ \A m \in Request : Calm(m)
        /\ peer' \in [Request -> PeerSet]
        /\ \A m \in Request : m # n => peer'[m] = peer[m]
    BY <1>0, ArrivesFacts
  <1>a. Like(s.tx, e) /\ s.send \subseteq e.prov \cup e.final
    BY <1>k, RequestSound
  <1>b. EntryOK(a) /\ (Present(a) => a.method = e.method)
    BY <1>a, AbsorbFacts DEF Like
  <1>c. s.send \subseteq Response /\ \A r \in s.send : Provisional(r) \/ r \in e.final
    BY <1>a, <1>k DEF Sound
  <1>d. Onward(n, s.deliver) = NoWork
    <2>1. CASE Header[n].method = "ACK"
      BY <2>1 DEF Onward
    <2>2. CASE Header[n].method # "ACK"
      <3>1. RequestOK(n)
        BY <2>2 DEF SipInv, RequestsOK
      <3>2. e.method = Header[n].method
        BY <1>0, <3>1 DEF RequestOK, OwnEntry
      <3>3. s.deliver = FALSE
        BY <2>2, <3>2, CopyStays
      <3> QED
        BY <3>3 DEF Onward
    <2> QED
      BY <2>1, <2>2
  <1>e. PICK f : f = a
    OBVIOUS
  <1>f. PICK rs : rs = s.send
    OBVIOUS
  <1>2. loop' = [loop EXCEPT ![l] = NoWork]
    BY <1>0, <1>d
  <1>3. server' = [server EXCEPT ![k] = f] /\ Says(k, rs) /\ rs \subseteq Response /\ EntryOK(f)
    BY <1>0, <1>b, <1>c, <1>e, <1>f
  <1> HIDE DEF a, s, e, k
  <1>4. /\ server'[k] = f /\ DOMAIN server' = Key /\ \A j \in Key : j # k => server'[j] = server[j]
    BY <1>0, <1>k, <1>3 DEF SipTypeOK
  <1>5. /\ air' \in [Key -> SUBSET Response] /\ finals' \in [Key -> SUBSET Response]
        /\ \A j \in Key : j # k => air'[j] = air[j] /\ finals'[j] = finals[j]
        /\ finals'[k] = finals[k] \cup {r \in rs : ~Provisional(r)}
        /\ \A j \in Key : finals[j] \subseteq finals'[j]
    BY <1>0, <1>k, <1>3, SaysFacts
  <1>6. SipTypeOK' /\ loop'[l] = NoWork /\ \A i \in Loop : i # l => loop'[i] = loop[i]
    <2>1. \A j \in Key : EntryOK(server'[j])
      BY <1>0, <1>3, <1>4 DEF SipTypeOK
    <2> QED
      BY <1>0, <1>1, <1>2, <1>4, <1>5, <2>1, NoWorkFacts, LoopTyped DEF SipTypeOK, WorkSet
  <1>7. \A m \in Request : NotTaken(m)
    BY <1>0, <1>2, NoWorkFacts, LoopTakes
  <1>8. ASSUME NEW m \in Request, Header[m].method # "ACK" PROVE RequestOK(m)'
    <2>0. KeyOf(m) \in Key
      BY HeaderFacts
    <2>1. RequestOK(m)
      BY <1>8 DEF SipInv, RequestsOK
    <2>2. CASE KeyOf(m) # KeyOf(n)
      <3>1. Same(m)
        BY <1>0, <1>4, <1>5, <2>0, <2>2 DEF Same, k
      <3> QED
        BY <1>0, <1>1, <1>6, <1>7, <2>1, <3>1, FrameRequest
    <2>3. CASE KeyOf(m) = KeyOf(n)
      <3>1. /\ Header[n].tcp = Header[m].tcp
            /\ Header[n].method = Header[m].method
               \/ (Header[m].method = "INVITE" /\ Header[n].method = "ACK")
        BY <1>8, <2>3, OwnKey, SharedKey
      <3>2. server[KeyOf(m)] = e /\ server'[KeyOf(m)] = f /\ e.method = Header[m].method
        BY <1>0, <1>4, <2>1, <2>3 DEF RequestOK, OwnEntry, k, e
      <3>3. NotSentOK(m)'
        <4>1. peer[m].left # -1 /\ peer[m].age # -1
          BY <1>0, <2>1, <3>2 DEF RequestOK, NotSentOK, NoTrace
        <4> QED
          BY <1>1, <4>1 DEF NotSentOK, Calm
      <3>4. OwnEntry(m)'
        BY <1>b, <1>e, <3>2 DEF OwnEntry
      <3>5. InviteHeld(m)'
        <4> SUFFICES ASSUME Header[m].method = "INVITE", Header[m].keyed, KeyOf(m) \notin evicted',
                            NEW i \in Loop, Handles(i, m)'
                     PROVE  /\ f.st = "Proceeding" /\ DOMAIN f.timers = {} /\ f.idle = 0
                            /\ \A j \in Loop : Handles(j, m)' => j = i
          BY <3>2 DEF InviteHeld
        <4>1. /\ e.st = "Proceeding" /\ DOMAIN e.timers = {}
              /\ \A j \in Loop : Handles(j, m) => j = i
          BY <1>0, <1>7, <2>1, <3>2 DEF RequestOK, InviteHeld, NotTaken
        <4>2. Invite(e) /\ Header[n].method \in {"INVITE", "ACK"}
          BY <3>1, <3>2 DEF Invite
        <4>3. f.st = "Proceeding" /\ DOMAIN f.timers = {} /\ f.idle = 0
          BY <1>e, <1>k, <4>1, <4>2, HeldCopy DEF a, s
        <4> QED
          BY <1>7, <4>1, <4>3 DEF NotTaken
      <3>6. ASSUME (Tracked(m) /\ ~Accepted(m) /\ m \notin late)' PROVE OnceOK(m)'
        <4>1. OnceOK(m)
          <5>1. Tracked(m) /\ ~Accepted(m) /\ m \notin late
            BY <1>0, <1>1, <1>5, <2>0, <3>6 DEF Tracked, Accepted, Calm
          <5> QED
            BY <2>1, <5>1 DEF RequestOK
        <4>2. /\ handed'[m] <= 1
              /\ \A i \in Loop : Waits(i, m)' => handed'[m] = 0 /\ \A j \in Loop : Waits(j, m)' => j = i
          BY <1>0, <1>7, <4>1 DEF OnceOK, NotTaken
        <4>3. ASSUME Near(peer'[m]) > 0 PROVE Guarded(m)'
          <5>0. /\ Near(peer[m]) \in Int /\ Near(peer'[m]) \in Int /\ Near(peer'[m]) <= Near(peer[m])
                /\ Near(peer'[m]) <= Timeout /\ Near(peer[m]) <= peer[m].left /\ peer[m].left \in Int
            <6>1. peer[m] \in PeerSet /\ peer'[m] \in PeerSet
              BY <1>0, <1>1 DEF SipTypeOK
            <6> QED
              BY <1>0, <1>1, <6>1, NearFacts, SipTypeFacts DEF Calm
          <5>1. Guarded(m)
            BY <1>0, <3>2, <4>1, <4>3, <5>0 DEF OnceOK, NoTrace
          <5>2. ~Header[n].tcp /\ Guards(e, Near(peer[m])) /\ e.final = finals[KeyOf(m)]
            BY <3>1, <3>2, <5>1 DEF Guarded
          <5>3. Present(f) /\ f.final = e.final /\ f.idle = 0 /\ Guards(f, Near(peer[m]))
            <6>1. CASE Header[n].method = Header[m].method
              BY <1>0, <1>8, <1>e, <1>k, <3>2, <5>2, <6>1, GuardCopy DEF a, s
            <6>2. CASE Header[n].method = "ACK" /\ Header[m].method = "INVITE"
              <7>1. AckOK(n)
                BY <6>2 DEF SipInv, RequestsOK
              <7>2. Near(peer[m]) <= T4
                <8>1. peer[n].left # -1
                  BY <1>1
                <8>2. peer[m].left <= T4
                  BY <2>3, <6>2, <7>1, <8>1 DEF AckOK
                <8> QED
                  BY <5>0, <8>2, Times
              <7> QED
                BY <1>0, <1>e, <1>k, <3>2, <5>0, <5>2, <6>2, <7>2, GuardAck DEF a, s, Invite
            <6> QED
              BY <3>1, <6>1, <6>2
          <5>4. finals'[KeyOf(m)] = finals[KeyOf(m)]
            BY <1>5, <1>c, <1>f, <2>3, <5>2 DEF k
          <5>5. Guards(f, Near(peer'[m]))
            BY <5>0, <5>3, GuardWeakens
          <5> QED
            BY <3>1, <3>2, <5>0, <5>2, <5>3, <5>4, <5>5, Times DEF Guarded
        <4> QED
          BY <4>2, <4>3 DEF OnceOK
      <3> QED
        BY <3>3, <3>4, <3>5, <3>6 DEF RequestOK
    <2> QED
      BY <2>2, <2>3
  <1>9. ASSUME NEW m \in Request, Header[m].method = "ACK" PROVE AckOK(m)'
    <2>1. AckOK(m) /\ KeyOf(m) \in Key
      BY <1>9, HeaderFacts DEF SipInv, RequestsOK
    <2>2. Conforming(m) => KeyOf(m) # k
      BY <1>0, <2>1 DEF AckOK, e, k
    <2>3. Conforming(m) => ~Present(server'[KeyOf(m)]) /\ finals'[KeyOf(m)] = {}
      BY <1>4, <1>5, <2>1, <2>2 DEF AckOK
    <2> QED
      BY <1>0, <1>1, <1>6, <2>1, <2>3, FrameBare
  <1>10. Offered'
    <2>1. Up(dialogs)' = Up(dialogs)
      BY <1>0 DEF Up
    <2> QED
      BY <1>0, <1>1, <1>5, <1>6, <2>1, FrameOffered DEF SipInv
  <1> QED
    BY <1>6, <1>8, <1>9, <1>10 DEF SipInv, RequestsOK

\* After a response that is final there is no other.
LEMMA ReplyTail ==
  ASSUME NEW q \in Seq(Response), Len(q) = 1 \/ (Len(q) = 2 /\ Provisional(q[1]))
  PROVE  RepliesOK(Tail(q)) /\ (~Provisional(q[1]) => Tail(q) = <<>>)
  <1>0. Len(<<>>) = 0 /\ \A t \in Seq(Response) : t # <<>> => Len(t) \in Nat \ {0}
    BY EmptySeq, Zenon
  <1>1. q # <<>>
    <2> SUFFICES ASSUME q = <<>> PROVE FALSE
      OBVIOUS
    <2>1. Len(q) = 0
      BY <1>0, Zenon
    <2> QED
      BY <2>1
  <1>2. Tail(q) \in Seq(Response) /\ Len(Tail(q)) = Len(q) - 1
    BY <1>1, HeadTailProperties
  <1>3. PICK t \in Seq(Response) : t = Tail(q) /\ Len(t) = Len(q) - 1
    BY <1>2, Zenon
  <1>4. RepliesOK(t) /\ (~Provisional(q[1]) => t = <<>>)
    <2>1. ASSUME Len(t) = 0 PROVE t = <<>>
      BY <1>0, <2>1
    <2>2. Len(t) = 0 \/ (Len(t) = 1 /\ Provisional(q[1]))
      BY <1>3
    <2> QED
      BY <2>1, <2>2 DEF RepliesOK
  <1> QED
    BY <1>3, <1>4, Zenon

\* A response is given to the transaction, or sent without one.
LEMMA ProvideInv ==
  ASSUME SipInv, NEW l \in Loop, Provide(l)
  PROVE  SipInv'
  <1>0. SipTypeOK /\ loop[l].pc = "provide" /\ UNCHANGED <<client, dialogs, tags, peer, handed, late, evicted, issued>>
    BY DEF SipInv, Provide
  <1>1. PICK o \in Request : o = loop[l].m /\ Header[o].method # "ACK"
    BY <1>0, LoopWork
  <1>2. PICK k \in Key : k = KeyOf(o)
    BY HeaderFacts
  <1>3. PICK q \in Seq(Response) : q = loop[l].replies /\ (Len(q) = 1 \/ (Len(q) = 2 /\ Provisional(q[1])))
    BY <1>0 DEF SipTypeOK, WorkOK
  <1>4. PICK r \in Response : r = Head(q) /\ r = q[1]
    BY <1>3
  <1>5. PICK e : e = server[k] /\ EntryOK(e) /\ Sound(e)
    BY <1>0 DEF SipTypeOK, EntryOK
  <1>6. PICK s : s = ServerResponse(e, r, Header[o].tcp)
    OBVIOUS
  <1>7. Header[o].tcp \in BOOLEAN /\ Header[o].keyed \in BOOLEAN /\ RequestOK(o) /\ Handles(l, o)
    BY <1>0, <1>1, HeaderFacts DEF SipInv, RequestsOK, Handles
  <1>8. Like(s.tx, e) /\ s.send \subseteq {r}
    BY <1>5, <1>6, <1>7, ResponseSound
  <1>9. PICK f : f = Absorb(s.tx) /\ EntryOK(f) /\ (Present(f) => f.method = e.method)
    BY <1>8, AbsorbFacts DEF Like
  <1> DEFINE live == Header[o].keyed /\ Present(e)
  <1>10. PICK rs : rs = IF live THEN s.send ELSE IF Header[o].keyed THEN {} ELSE {r}
    OBVIOUS
  <1>11. /\ server' = IF live THEN [server EXCEPT ![k] = f] ELSE server
         /\ Says(k, rs)
         /\ loop' = [loop EXCEPT ![l] = Replying(o, Tail(q))]
    BY <1>0, <1>1, <1>2, <1>3, <1>4, <1>5, <1>6, <1>9, <1>10 DEF Provide
  <1>12. rs \subseteq {r} /\ rs \subseteq Response
    BY <1>8, <1>10
  <1>13. RepliesOK(Tail(q)) /\ (~Provisional(r) => Tail(q) = <<>>)
    BY <1>3, <1>4, ReplyTail
  <1>14. PICK w : w = Replying(o, Tail(q))
    OBVIOUS
  <1>15. /\ w \in WorkSet /\ WorkOK(w) /\ w.pc \notin {"dialog", "access"} /\ (w.pc # "idle" => w.m = o)
         /\ (~Provisional(r) => w = NoWork)
    BY <1>1, <1>13, <1>14, ReplyingFacts
  <1> HIDE DEF live
  <1>16. /\ server'[k] = IF live THEN f ELSE e
         /\ DOMAIN server' = Key /\ \A j \in Key : j # k => server'[j] = server[j]
    BY <1>0, <1>5, <1>11 DEF SipTypeOK
  <1>17. /\ air' \in [Key -> SUBSET Response] /\ finals' \in [Key -> SUBSET Response]
         /\ \A j \in Key : j # k => air'[j] = air[j] /\ finals'[j] = finals[j]
         /\ finals'[k] = finals[k] \cup {x \in rs : ~Provisional(x)} /\ air'[k] = air[k] \cup rs
         /\ \A j \in Key : finals[j] \subseteq finals'[j]
    BY <1>0, <1>11, <1>12, SaysFacts
  <1>18. SipTypeOK' /\ loop'[l] = w /\ \A i \in Loop : i # l => loop'[i] = loop[i]
    <2>1. \A j \in Key : EntryOK(server'[j])
      BY <1>0, <1>5, <1>9, <1>16 DEF SipTypeOK
    <2>2. loop' = [loop EXCEPT ![l] = w]
      BY <1>11, <1>14
    <2> QED
      BY <1>0, <1>15, <1>16, <1>17, <2>1, <2>2, LoopTyped DEF SipTypeOK
  <1>19. \A m \in Request : NotTaken(m)
    BY <1>0, <1>7, <1>11, <1>14, <1>15, LoopTakes
  <1>20. \A m \in Request : Calm(m)
    BY <1>0, CalmStays
  <1>21. ~NoTrace(o) /\ peer[o].left # -1 /\ peer[o].age # -1
    BY <1>7 DEF NoTrace, RequestOK, NotSentOK
  <1>22. RequestOK(o)'
    <2>1. NotSentOK(o)'
      BY <1>0, <1>21 DEF NotSentOK
    <2>2. OwnEntry(o)'
      BY <1>2, <1>5, <1>7, <1>9, <1>16 DEF RequestOK, OwnEntry, live
    <2>3. InviteHeld(o)'
      <3> SUFFICES ASSUME Header[o].method = "INVITE", Header[o].keyed, KeyOf(o) \notin evicted',
                          NEW i \in Loop, Handles(i, o)'
                   PROVE  /\ server'[k].st = "Proceeding" /\ DOMAIN server'[k].timers = {}
                          /\ server'[k].idle = 0
                          /\ \A j \in Loop : Handles(j, o)' => j = i
        BY <1>2 DEF InviteHeld
      <3>1. /\ e.st = "Proceeding" /\ DOMAIN e.timers = {}
            /\ \A j \in Loop : Handles(j, o) => j = l
        BY <1>0, <1>2, <1>5, <1>7 DEF RequestOK, InviteHeld
      <3>2. i = l /\ \A j \in Loop : Handles(j, o)' => j = l
        BY <1>19, <3>1 DEF NotTaken
      <3>3. Provisional(r)
        BY <1>15, <1>18, <3>2, NoWorkFacts DEF Handles
      <3>4. live /\ Invite(e)
        BY <1>2, <1>5, <1>7, <3>1 DEF live, Present, RequestOK, OwnEntry, Invite
      <3>5. f.st = "Proceeding" /\ DOMAIN f.timers = {} /\ f.idle = 0
        <4>1. PICK reliable \in BOOLEAN : reliable = Header[o].tcp
          BY <1>7
        <4>2. f = Absorb(ServerResponse(e, r, reliable).tx)
          BY <1>6, <1>9, <4>1
        <4> QED
          BY <1>5, <3>1, <3>3, <3>4, <4>2, HeldProvisional
      <3> QED
        BY <1>16, <3>2, <3>4, <3>5
    <2>4. ASSUME (Tracked(o) /\ ~Accepted(o) /\ o \notin late)' PROVE OnceOK(o)'
      <3>1. OnceOK(o)
        <4>1. Tracked(o) /\ ~Accepted(o) /\ o \notin late
          BY <1>0, <1>2, <1>17, <2>4 DEF Tracked, Accepted
        <4> QED
          BY <1>7, <4>1 DEF RequestOK
      <3>2. /\ handed'[o] <= 1
            /\ \A i \in Loop : Waits(i, o)' => handed'[o] = 0 /\ \A j \in Loop : Waits(j, o)' => j = i
        BY <1>0, <1>19, <3>1 DEF OnceOK, NotTaken
      <3>3. ASSUME Near(peer'[o]) > 0 PROVE Guarded(o)'
        <4>0. Near(peer[o]) \in Int /\ Near(peer[o]) <= Timeout /\ peer'[o] = peer[o]
          BY <1>0, SipTypeFacts
        <4>1. Guarded(o)
          BY <1>21, <3>1, <3>3, <4>0 DEF OnceOK
        <4>2. ~Header[o].tcp /\ Guards(e, Near(peer[o])) /\ e.final = finals[k] /\ Present(e)
          BY <1>2, <1>5, <4>1 DEF Guarded
        <4>3. live /\ rs = s.send
          BY <1>10, <2>4, <4>2 DEF live, Tracked
        <4>4. \/ Invite(e) /\ Success(r) /\ s.send = {r}
              \/ /\ Present(f) /\ f.idle = 0
                 /\ f.final = e.final \cup {x \in s.send : ~Provisional(x)}
                 /\ Guards(f, Near(peer[o]))
          BY <1>5, <1>6, <1>7, <1>9, <4>0, <4>2, GuardAnswer
        <4>5. CASE Invite(e) /\ Success(r) /\ s.send = {r}
          <5>1. Header[o].method = "INVITE"
            BY <1>2, <1>5, <1>7, <4>2, <4>5 DEF RequestOK, OwnEntry, Invite
          <5>2. r \in finals'[KeyOf(o)]
            BY <1>2, <1>17, <4>3, <4>5 DEF Success, Provisional
          <5>3. FALSE
            BY <2>4, <4>5, <5>1, <5>2 DEF Accepted
          <5> QED
            BY <5>3
        <4>6. CASE /\ Present(f) /\ f.idle = 0
                   /\ f.final = e.final \cup {x \in s.send : ~Provisional(x)}
                   /\ Guards(f, Near(peer[o]))
          <5>1. server'[KeyOf(o)] = f /\ finals'[KeyOf(o)] = f.final
            BY <1>2, <1>16, <1>17, <4>2, <4>3, <4>6
          <5> QED
            BY <4>0, <4>2, <4>6, <5>1, Times DEF Guarded
        <4> QED
          BY <4>4, <4>5, <4>6
      <3> QED
        BY <3>2, <3>3 DEF OnceOK
    <2> QED
      BY <2>1, <2>2, <2>3, <2>4 DEF RequestOK
  <1>23. ASSUME NEW m \in Request, Header[m].method # "ACK", m # o PROVE RequestOK(m)'
    <2>1. KeyOf(m) # k /\ KeyOf(m) \in Key
      BY <1>1, <1>2, <1>23, OwnKey, HeaderFacts
    <2>2. RequestOK(m) /\ Same(m)
      BY <1>0, <1>16, <1>17, <1>23, <2>1 DEF Same, SipInv, RequestsOK
    <2> QED
      BY <1>0, <1>18, <1>19, <1>20, <2>2, FrameRequest
  <1>24. ASSUME NEW m \in Request, Header[m].method = "ACK" PROVE AckOK(m)'
    <2>1. AckOK(m) /\ KeyOf(m) \in Key
      BY <1>24, HeaderFacts DEF SipInv, RequestsOK
    <2>2. Conforming(m) => KeyOf(m) # k
      BY <1>1, <1>2, <1>24, SharedKey
    <2>3. Conforming(m) => ~Present(server'[KeyOf(m)]) /\ finals'[KeyOf(m)] = {}
      BY <1>16, <1>17, <2>1, <2>2 DEF AckOK
    <2> QED
      BY <1>0, <1>18, <1>20, <2>1, <2>3, FrameBare
  <1>25. Offered'
    <2> SUFFICES ASSUME NEW u \in Up(dialogs)'
                 PROVE  \/ \E j \in Key : Ok(u) \in finals'[j]
                        \/ \E i \in Loop : /\ loop'[i].pc = "provide" /\ Head(loop'[i].replies) = Ok(u)
                                           /\ Header[loop'[i].m].method = "INVITE"
                        \/ \E n \in Request : Header[n].method = "INVITE" /\ KeyOf(n) \in evicted'
      BY DEF Offered
    <2>0. u \in Up(dialogs)
      BY <1>0 DEF Up
    <2>1. CASE \E j \in Key : Ok(u) \in finals[j]
      BY <1>17, <2>1
    <2>2. CASE \E n \in Request : Header[n].method = "INVITE" /\ KeyOf(n) \in evicted
      BY <1>0, <2>2
    <2>3. ASSUME NEW i \in Loop, loop[i].pc = "provide", Head(loop[i].replies) = Ok(u),
                 Header[loop[i].m].method = "INVITE"
          PROVE  \/ \E j \in Key : Ok(u) \in finals'[j]
                 \/ \E j \in Loop : /\ loop'[j].pc = "provide" /\ Head(loop'[j].replies) = Ok(u)
                                    /\ Header[loop'[j].m].method = "INVITE"
                 \/ \E n \in Request : Header[n].method = "INVITE" /\ KeyOf(n) \in evicted'
      <3>1. CASE i # l
        BY <1>18, <2>3, <3>1
      <3>2. CASE i = l
        <4>1. r = Ok(u) /\ Header[o].method = "INVITE" /\ Success(r) /\ ~Provisional(r)
          BY <1>1, <1>3, <1>4, <2>3, <3>2 DEF Ok, Success, Provisional
        <4>2. CASE KeyOf(o) \in evicted
          BY <1>0, <4>1, <4>2
        <4>3. CASE ~Header[o].keyed
          BY <1>10, <1>17, <4>1, <4>3 DEF live
        <4>4. CASE Header[o].keyed /\ KeyOf(o) \notin evicted
          <5>1. e.st = "Proceeding" /\ DOMAIN e.timers = {}
            BY <1>2, <1>5, <1>7, <4>1, <4>4 DEF RequestOK, InviteHeld
          <5>2. live /\ Invite(e)
            BY <1>2, <1>5, <1>7, <4>1, <4>4, <5>1 DEF live, Present, RequestOK, OwnEntry, Invite
          <5>3. s.send = {r}
            BY <1>5, <1>6, <1>7, <4>1, <5>1, <5>2, HeldAnswer
          <5> QED
            BY <1>10, <1>17, <4>1, <5>2, <5>3
        <4> QED
          BY <1>7, <4>2, <4>3, <4>4
      <3> QED
        BY <3>1, <3>2
    <2> QED
      BY <2>0, <2>1, <2>2, <2>3 DEF SipInv, Offered
  <1> QED
    BY <1>18, <1>22, <1>23, <1>24, <1>25 DEF SipInv, RequestsOK

-----------------------------------------------------------------------------
\* The ticker and the time.

LEMMA TableTickInv ==
  ASSUME SipInv, NEW tcp \in BOOLEAN, TickTable(tcp),
         UNCHANGED <<dialogs, loop, tags, peer, finals, handed, late, evicted>>
  PROVE  SipInv'
  <1>0. SipTypeOK
    BY DEF SipInv
  <1> DEFINE Swept(k) == Present(server[k]) /\ (k \in TcpKey <=> tcp)
  <1>1. /\ DOMAIN server' = Key
        /\ \A k \in Key : /\ ~Swept(k) => server'[k] = server[k] /\ air'[k] = air[k]
                          /\ Swept(k) => /\ server'[k] = Reclaim(TickServer(server[k], tcp).tx)
                                          /\ air'[k] = air[k] \cup TickServer(server[k], tcp).send
    BY DEF TickTable
  <1>2. \A k \in Key : /\ EntryOK(server'[k]) /\ air'[k] \subseteq Response
                       /\ Present(server'[k]) => Present(server[k]) /\ server'[k].method = server[k].method
    <2> TAKE k \in Key
    <2>1. EntryOK(server[k]) /\ air[k] \subseteq Response
      BY <1>0 DEF SipTypeOK
    <2>2. CASE ~Swept(k)
      BY <1>1, <2>1, <2>2
    <2>3. CASE Swept(k)
      BY <1>1, <2>1, <2>3, TickSound
    <2> QED
      BY <2>2, <2>3
  <1>3. air' \in [Key -> SUBSET Response]
    <2>1. air' = [k \in Key |-> air'[k]]
      BY DEF TickTable
    <2> QED
      BY <1>2, <2>1
  <1>4. SipTypeOK'
    BY <1>0, <1>1, <1>2, <1>3 DEF SipTypeOK
  <1>5. \A m \in Request : Calm(m) /\ NotTaken(m)
    BY <1>0, CalmStays, LoopStays
  <1>6. ASSUME NEW m \in Request, Header[m].method # "ACK" PROVE RequestOK(m)'
    <2>0. KeyOf(m) \in Key /\ EntryOK(server[KeyOf(m)])
      BY <1>0, SipTypeFacts
    <2>1. RequestOK(m)
      BY <1>6 DEF SipInv, RequestsOK
    <2>2. CASE ~Swept(KeyOf(m))
      <3>1. Same(m)
        BY <1>1, <2>0, <2>2 DEF Same
      <3> QED
        BY <1>0, <1>4, <1>5, <2>1, <3>1, FrameRequest
    <2>3. CASE Swept(KeyOf(m))
      <3>1. PICK e : e = server[KeyOf(m)] /\ EntryOK(e) /\ Present(e)
        BY <2>0, <2>3
      <3>2. PICK f : f = Reclaim(TickServer(e, tcp).tx) /\ f = server'[KeyOf(m)]
        BY <1>1, <2>0, <2>3, <3>1
      <3>3. ~NoTrace(m) /\ peer[m].left # -1 /\ peer[m].age # -1
        BY <2>1, <3>1 DEF NoTrace, RequestOK, NotSentOK
      <3>4. NotSentOK(m)'
        BY <3>3 DEF NotSentOK
      <3>5. OwnEntry(m)'
        BY <1>2, <2>0, <2>1 DEF OwnEntry, RequestOK
      <3>6. InviteHeld(m)'
        <4> SUFFICES ASSUME Header[m].method = "INVITE", Header[m].keyed, KeyOf(m) \notin evicted,
                            NEW i \in Loop, Handles(i, m)
                     PROVE  /\ f.st = "Proceeding" /\ DOMAIN f.timers = {} /\ f.idle = 0
                            /\ \A j \in Loop : Handles(j, m) => j = i
          BY <3>2 DEF InviteHeld, Handles
        <4>1. /\ e.st = "Proceeding" /\ DOMAIN e.timers = {} /\ e.idle = 0
              /\ \A j \in Loop : Handles(j, m) => j = i
          BY <2>1, <3>1 DEF RequestOK, InviteHeld
        <4>2. Due(e) = {}
          BY <4>1 DEF Due
        <4>3. TickServer(e, tcp) = [tx |-> e, send |-> {}]
          BY <4>2, QuietTick
        <4>4. f = e
          BY <3>2, <4>1, <4>3, Times DEF Reclaim
        <4> QED
          BY <4>1, <4>4
      <3>7. ASSUME OnceOK(m) PROVE OnceOK(m)'
        <4>1. ASSUME Near(peer[m]) > 0 PROVE Guarded(m)'
          <5>1. Guarded(m)
            BY <3>3, <3>7, <4>1 DEF OnceOK
          <5>2. ~Header[m].tcp /\ Guards(e, Near(peer[m])) /\ e.idle + Near(peer[m]) <= Timeout
                /\ e.final = finals[KeyOf(m)]
            BY <3>1, <5>1 DEF Guarded
          <5>3. ~tcp
            BY <1>6, <2>3, <5>2, TableOf
          <5>4. Near(peer[m]) \in Int
            BY <1>0, SipTypeFacts
          <5>5. /\ Present(f) /\ f.final = e.final /\ f.idle + Near(peer[m]) <= Timeout
                /\ Guards(f, Near(peer[m]))
            BY <3>1, <3>2, <4>1, <5>2, <5>3, <5>4, GuardTick
          <5> QED
            BY <3>2, <5>2, <5>5 DEF Guarded
        <4>2. \A l \in Loop : Waits(l, m)' <=> Waits(l, m)
          BY DEF Waits
        <4> QED
          BY <3>7, <4>1, <4>2 DEF OnceOK
      <3>8. (Tracked(m) /\ ~Accepted(m) /\ m \notin late)' => Tracked(m) /\ ~Accepted(m) /\ m \notin late
        BY DEF Tracked, Accepted
      <3> QED
        BY <2>1, <3>4, <3>5, <3>6, <3>7, <3>8 DEF RequestOK
    <2> QED
      BY <2>2, <2>3
  <1>7. ASSUME NEW m \in Request, Header[m].method = "ACK" PROVE AckOK(m)'
    <2>1. AckOK(m) /\ KeyOf(m) \in Key
      BY <1>7, HeaderFacts DEF SipInv, RequestsOK
    <2>2. Conforming(m) => ~Present(server'[KeyOf(m)]) /\ finals'[KeyOf(m)] = {}
      BY <1>2, <2>1 DEF AckOK
    <2> QED
      BY <1>0, <1>4, <1>5, <2>1, <2>2, FrameBare
  <1>8. Offered'
    <2>1. Up(dialogs)' = Up(dialogs)
      BY DEF Up
    <2> QED
      BY <1>0, <2>1, FrameOffered DEF SipInv
  <1> QED
    BY <1>4, <1>6, <1>7, <1>8 DEF SipInv, RequestsOK

LEMMA OlderFacts ==
  ASSUME NEW p \in PeerSet
  PROVE  LET q == Older(p) IN
         /\ q \in PeerSet /\ q.left <= p.left /\ (q.left = -1 <=> p.left = -1)
         /\ (q.age = -1 <=> p.age = -1)
         /\ Near(q) <= Near(p) /\ (p.age # -1 /\ Near(q) > 0 => Near(q) = Near(p) - 1)
  <1>1. PICK q : q = Older(p)
    OBVIOUS
  <1>2. CASE p.left <= 1
    <2>1. /\ q \in PeerSet /\ q.left = (IF p.left = 1 THEN 0 ELSE p.left)
          /\ q.age = (IF p.age = -1 THEN -1 ELSE Timeout)
      <3>1. PICK a : a = IF p.left = 1 THEN 0 ELSE p.left
        OBVIOUS
      <3>2. PICK b : b = IF p.age = -1 THEN -1 ELSE Timeout
        OBVIOUS
      <3>3. a \in -1 .. Timeout + T4 /\ b \in -1 .. Timeout
        BY <3>1, <3>2, Times DEF PeerSet
      <3>4. q = [p EXCEPT !.left = a, !.age = b]
        BY <1>1, <1>2, <3>1, <3>2 DEF Older
      <3>5. q \in PeerSet /\ q.left = a /\ q.age = b
        BY <3>3, <3>4 DEF PeerSet
      <3> QED
        BY <3>1, <3>2, <3>5
    <2> QED
      BY <1>1, <1>2, <2>1, Times DEF PeerSet, Near, Window
  <1>3. CASE ~(p.left <= 1)
    <2>1. /\ q \in PeerSet /\ q.left = p.left - 1
          /\ q.age = (IF p.age = -1 \/ p.age = Timeout THEN p.age ELSE p.age + 1)
      <3>1. PICK a : a = p.left - 1
        OBVIOUS
      <3>2. PICK b : b = IF p.age \in {-1, Timeout} THEN p.age ELSE p.age + 1
        OBVIOUS
      <3>3. a \in -1 .. Timeout + T4 /\ b \in -1 .. Timeout
        BY <1>3, <3>1, <3>2, Times DEF PeerSet
      <3>4. q = [p EXCEPT !.left = a, !.age = b]
        BY <1>1, <1>3, <3>1, <3>2 DEF Older
      <3>5. q \in PeerSet /\ q.left = a /\ q.age = b
        BY <3>3, <3>4 DEF PeerSet
      <3> QED
        BY <3>1, <3>2, <3>5
    <2> QED
      BY <1>1, <1>3, <2>1, Times DEF PeerSet, Near, Window
  <1> QED
    BY <1>2, <1>3

LEMMA AdvanceInv ==
  ASSUME SipInv, Advance
  PROVE  SipInv'
  <1>0. /\ SipTypeOK /\ UNCHANGED <<loop, tags, finals, handed, late, evicted>>
        /\ \A l \in Loop : loop[l].pc = "idle"
    BY DEF SipInv, Advance, history, Pause
  <1>1. peer \in [Request -> PeerSet]
    BY <1>0 DEF SipTypeOK
  <1>2. \A m \in Request : peer'[m] = Older(peer[m]) /\ peer'[m] \in PeerSet
    BY <1>1, OlderFacts DEF Advance
  <1>3. peer' \in [Request -> PeerSet]
    <2>1. peer' = [m \in Request |-> peer'[m]]
      BY DEF Advance
    <2> QED
      BY <1>2, <2>1
  <1>4. \A m \in Request : Calm(m) /\ NotTaken(m)
    <2>1. \A m \in Request : Calm(m)
      <3> TAKE m \in Request
      <3>1. PICK p \in PeerSet : p = peer[m] /\ peer'[m] = Older(p)
        BY <1>1, <1>2
      <3>2. /\ Older(p).left <= p.left /\ (Older(p).left = -1 <=> p.left = -1)
            /\ (Older(p).age = -1 <=> p.age = -1) /\ Near(Older(p)) <= Near(p)
        BY OlderFacts
      <3> QED
        BY <1>0, <3>1, <3>2 DEF Calm
    <2> QED
      BY <1>0, <2>1, LoopStays
  <1>5. dialogs' \in [1 .. MaxTags -> Dialog] /\ Up(dialogs)' \subseteq Up(dialogs)
    <2>1. dialogs \in [1 .. MaxTags -> Dialog] /\ dialogs' = DialogsLater(dialogs)
      BY <1>0 DEF SipTypeOK, Advance
    <2>2. ASSUME NEW d \in Dialog, d.idle < DialogTtl
          PROVE  [d EXCEPT !.idle = @ + 1] \in Dialog /\ [d EXCEPT !.idle = @ + 1].on = d.on
      BY <2>2, DialogAssumption DEF Dialog
    <2>3. \A t \in 1 .. MaxTags : dialogs'[t] \in Dialog /\ dialogs'[t].on = dialogs[t].on
      BY <2>1, <2>2 DEF DialogsLater
    <2>4. dialogs' = [t \in 1 .. MaxTags |-> dialogs'[t]]
      BY <2>1 DEF DialogsLater
    <2> QED
      BY <2>1, <2>3, <2>4 DEF Up
  <1>6. /\ DOMAIN server' = Key /\ \A k \in Key : server'[k] = Later(server[k])
        /\ air' = [k \in Key |-> {}]
    BY DEF Advance
  <1>7. \A k \in Key : /\ EntryOK(server'[k])
                       /\ Present(server'[k]) => Present(server[k]) /\ server'[k].method = server[k].method
    BY <1>0, <1>6, LaterSound DEF SipTypeOK
  <1>8. SipTypeOK'
    BY <1>0, <1>3, <1>5, <1>6, <1>7 DEF SipTypeOK
  <1>9. ASSUME NEW m \in Request, Header[m].method # "ACK" PROVE RequestOK(m)'
    <2>0. KeyOf(m) \in Key /\ EntryOK(server[KeyOf(m)])
      BY <1>0, SipTypeFacts
    <2>1. RequestOK(m)
      BY <1>9 DEF SipInv, RequestsOK
    <2>2. NoTrace(m) => NoTrace(m)'
      BY <1>0, <1>7, <2>0 DEF NoTrace, Handles
    <2>3. NotSentOK(m)'
      BY <1>4, <1>6, <2>0, <2>1, <2>2 DEF RequestOK, NotSentOK, Calm
    <2>4. OwnEntry(m)'
      BY <1>7, <2>0, <2>1 DEF RequestOK, OwnEntry
    <2>5. InviteHeld(m)'
      BY <1>0 DEF InviteHeld, Handles
    <2>6. ASSUME OnceOK(m) PROVE OnceOK(m)'
      <3>0. PICK p \in PeerSet : p = peer[m] /\ peer'[m] = Older(p) /\ Older(p) \in PeerSet
        BY <1>1, <1>2
      <3>a. Near(p) \in Int /\ Near(Older(p)) \in Int
        BY <3>0, NearFacts
      <3>1. ASSUME Near(peer'[m]) > 0, Guarded(m) PROVE Guarded(m)'
        <4>0. p.age # -1
          BY <2>1, <3>0, <3>1 DEF RequestOK, NotSentOK, NoTrace, Guarded
        <4>1. PICK left \in Int : left = Near(peer[m]) /\ left > 0 /\ Near(peer'[m]) = left - 1
          BY <3>0, <3>a, <3>1, <4>0, OlderFacts
        <4>2. PICK e : e = server[KeyOf(m)] /\ EntryOK(e) /\ Present(e)
          BY <2>0, <3>1 DEF Guarded
        <4>3. ~Header[m].tcp /\ Guards(e, left) /\ e.idle + left <= Timeout /\ e.final = finals[KeyOf(m)]
          BY <3>1, <4>1, <4>2 DEF Guarded
        <4>4. PICK f : f = Later(e) /\ f = server'[KeyOf(m)]
          BY <1>6, <2>0, <4>2
        <4>5. Present(f) /\ f.final = e.final /\ f.idle + (left - 1) <= Timeout /\ Guards(f, left - 1)
          BY <4>1, <4>2, <4>3, <4>4, GuardLater
        <4>6. finals'[KeyOf(m)] = finals[KeyOf(m)]
          BY <1>0
        <4> QED
          BY <4>1, <4>3, <4>4, <4>5, <4>6 DEF Guarded
      <3>2. Near(peer'[m]) > 0 => Near(peer[m]) > 0
        BY <3>0, <3>a, OlderFacts
      <3>3. \A l \in Loop : ~Waits(l, m)'
        BY <1>0 DEF Waits
      <3> QED
        BY <1>0, <2>2, <2>6, <3>1, <3>2, <3>3 DEF OnceOK
    <2>7. (Tracked(m) /\ ~Accepted(m) /\ m \notin late)' => Tracked(m) /\ ~Accepted(m) /\ m \notin late
      BY <1>0 DEF Tracked, Accepted
    <2> QED
      BY <2>1, <2>3, <2>4, <2>5, <2>6, <2>7 DEF RequestOK
  <1>10. ASSUME NEW m \in Request, Header[m].method = "ACK" PROVE AckOK(m)'
    <2>1. AckOK(m) /\ KeyOf(m) \in Key
      BY <1>10, HeaderFacts DEF SipInv, RequestsOK
    <2>2. Conforming(m) => ~Present(server'[KeyOf(m)]) /\ finals'[KeyOf(m)] = {}
      BY <1>0, <1>7, <2>1 DEF AckOK
    <2> QED
      BY <1>0, <1>4, <1>8, <2>1, <2>2, FrameBare
  <1>11. Offered'
    BY <1>0, <1>5, FrameOffered DEF SipInv
  <1> QED
    BY <1>8, <1>9, <1>10, <1>11 DEF SipInv, RequestsOK

-----------------------------------------------------------------------------
\* The invariant, and what follows from it.

LEMMA SipNextInv ==
  ASSUME SipInv, [SipNext]_sipVars
  PROVE  SipInv'
  <1>1. ASSUME NEW m \in Request, PeerBegins(m) PROVE SipInv'
    BY <1>1, PeerBeginsInv
  <1>2. ASSUME NEW m \in Request, PeerFollows(m) PROVE SipInv'
    BY <1>2, PeerFollowsInv
  <1>3. ASSUME NEW m \in Request, PeerHears(m) PROVE SipInv'
    BY <1>3, PeerHearsInv
  <1>4. ASSUME NEW l \in Loop, NEW m \in Request, HandleCopy(l, m) PROVE SipInv'
    BY <1>4, HandleCopyInv
  <1>5. ASSUME NEW l \in Loop, NEW m \in Request, HandleNew(l, m) PROVE SipInv'
    BY <1>5, HandleNewInv
  <1>6. ASSUME NEW l \in Loop, NEW m \in Request, HandleStateless(l, m) PROVE SipInv'
    BY <1>6, HandleStatelessInv
  <1>7. ASSUME NEW l \in Loop, LoopStep(l) PROVE SipInv'
    BY <1>7, RouteDialogInv, AccessInv, EstablishInv, ProvideInv DEF LoopStep
  <1>8. ASSUME NEW c \in Command, HandleCommand(c) PROVE SipInv'
    <2>1. UNCHANGED <<server, dialogs, loop, tags, peer, air, finals, handed, late>> /\ evicted \subseteq evicted'
      BY <1>8 DEF HandleCommand
    <2> QED
      BY <2>1, CommandsInv
  <1>9. ASSUME NEW c \in Command, NEW r, HandleResponse(c, r) PROVE SipInv'
    <2>1. UNCHANGED <<server, dialogs, loop, tags, peer, air, finals, handed, late>> /\ evicted \subseteq evicted'
      BY <1>9 DEF HandleResponse, history
    <2> QED
      BY <2>1, CommandsInv
  <1>10. ASSUME TickDialogs PROVE SipInv'
    BY <1>10, TickDialogsInv
  <1>11. ASSUME TickUdp PROVE SipInv'
    BY <1>11, TableTickInv DEF TickUdp, history
  <1>12. ASSUME TickTcp PROVE SipInv'
    BY <1>12, TableTickInv DEF TickTcp, history
  <1>13. ASSUME Advance PROVE SipInv'
    BY <1>13, AdvanceInv
  <1>14. ASSUME UNCHANGED sipVars PROVE SipInv'
    <2>1. UNCHANGED <<server, dialogs, loop, tags, peer, air, finals, handed, late>> /\ evicted \subseteq evicted'
      BY <1>14 DEF sipVars
    <2> QED
      BY <2>1, CommandsInv
  <1> QED
    BY <1>1, <1>2, <1>3, <1>4, <1>5, <1>6, <1>7, <1>8, <1>9, <1>10, <1>11, <1>12, <1>13, <1>14 DEF SipNext

LEMMA SipInvariance == SipSpec => []SipInv
  <1>1. SipInit => SipInv
    BY SipInitInv
  <1>2. SipInv /\ [SipNext]_sipVars => SipInv'
    BY SipNextInv
  <1> QED
    BY <1>1, <1>2, PTL DEF SipSpec

\* An ACK ends at the transaction layer, or is dropped.
AcksEnd == \A n \in Request : Header[n].method = "ACK" => handed[n] = 0

LEMMA AcksStay ==
  ASSUME SipInv, AcksEnd, [SipNext]_sipVars
  PROVE  AcksEnd'
  <1>1. ASSUME NEW l \in Loop, Access(l) PROVE AcksEnd'
    <2>1. PICK o \in Request : o = loop[l].m /\ Header[o].method # "ACK"
      BY <1>1, LoopWork DEF Access, SipInv
    <2>2. handed \in [Request -> Nat]
      BY DEF SipInv, SipTypeOK
    <2>3. \A n \in Request : n # o => handed'[n] = handed[n]
      BY <1>1, <2>1, <2>2 DEF Access
    <2> QED
      BY <2>1, <2>3 DEF AcksEnd
  <1>2. ASSUME UNCHANGED handed PROVE AcksEnd'
    BY <1>2 DEF AcksEnd
  <1>3. (\E l \in Loop : Access(l)) \/ UNCHANGED handed
    <2>1. ASSUME NEW m \in Request, PeerBegins(m) \/ PeerFollows(m) \/ PeerHears(m) PROVE UNCHANGED handed
      BY <2>1 DEF PeerBegins, PeerFollows, PeerHears, history
    <2>2. ASSUME NEW l \in Loop, NEW m \in Request, HandleCopy(l, m) \/ HandleNew(l, m) \/ HandleStateless(l, m)
          PROVE  UNCHANGED handed
      BY <2>2 DEF HandleCopy, HandleNew, HandleStateless, history
    <2>3. ASSUME NEW l \in Loop, RouteDialog(l) \/ Establish(l) \/ Provide(l) PROVE UNCHANGED handed
      BY <2>3 DEF RouteDialog, Establish, Provide, history
    <2>4. ASSUME NEW c \in Command, HandleCommand(c) \/ \E r : HandleResponse(c, r) PROVE UNCHANGED handed
      BY <2>4 DEF HandleCommand, HandleResponse, history
    <2>5. ASSUME TickDialogs \/ TickUdp \/ TickTcp \/ Advance PROVE UNCHANGED handed
      BY <2>5 DEF TickDialogs, TickUdp, TickTcp, Advance, history
    <2>6. ASSUME UNCHANGED sipVars PROVE UNCHANGED handed
      BY <2>6 DEF sipVars
    <2> QED
      BY <2>1, <2>2, <2>3, <2>4, <2>5, <2>6 DEF SipNext, LoopStep
  <1> QED
    BY <1>1, <1>2, <1>3

\* However often a peer sends a request, and whichever receive loops its copies
\* reach, process_access gets it once (handle_request, timers H and J, reclaim),
\* as long as no copy comes more than Timeout after the first one.
THEOREM HandedOnce == SipSpec => []HandedOverOnce
  <1>1. SipInit => AcksEnd
    BY DEF SipInit, AcksEnd
  <1>2. SipInv /\ AcksEnd /\ [SipNext]_sipVars => AcksEnd'
    BY AcksStay
  <1>3. SipInv /\ AcksEnd => HandedOverOnce
    <2> SUFFICES ASSUME SipInv, AcksEnd, NEW m \in Request, Tracked(m), ~Accepted(m), m \notin late
                 PROVE  handed[m] <= 1
      BY DEF HandedOverOnce
    <2>1. CASE Header[m].method = "ACK"
      BY <2>1 DEF AcksEnd
    <2>2. CASE Header[m].method # "ACK"
      BY <2>2 DEF SipInv, RequestsOK, RequestOK, OnceOK
    <2> QED
      BY <2>1, <2>2
  <1> QED
    BY <1>1, <1>2, <1>3, SipInvariance, PTL DEF SipSpec

\* A dialog that establish_invite made has its 2xx sent or about to be, unless
\* an INVITE transaction was evicted.
THEOREM DialogsOffered == SipSpec => []DialogBacked
  <1>1. SipInv => DialogBacked
    <2> SUFFICES ASSUME SipInv, NEW t \in Up(dialogs)
                 PROVE  \/ \E k \in Key : [code |-> "2xx", tag |-> t] \in finals[k]
                        \/ \E l \in Loop : loop[l].pc = "provide" /\ Head(loop[l].replies).tag = t
                        \/ \E m \in Request : Header[m].method = "INVITE" /\ KeyOf(m) \in evicted
      BY DEF DialogBacked
    <2> QED
      BY DEF SipInv, Offered, Ok
  <1> QED
    BY <1>1, SipInvariance, PTL

\* A copy of a request that was answered is answered again with what
\* provide_response kept, as long as its INVITE is not confirmed and the copy
\* comes within Timeout of the first one.
THEOREM CopiesAnswered == SipSpec => CopiesReplayed
  <1> DEFINE Replayed(m) == /\ Tracked(m) /\ m \notin late' /\ finals[KeyOf(m)] # {} /\ ~Accepted(m)
                            /\ server[KeyOf(m)].st # "Confirmed"
                            /\ \E l \in Loop : HandleCopy(l, m) \/ HandleNew(l, m)
                            => finals[KeyOf(m)] \subseteq air'[KeyOf(m)]
  <1>1. SipInv /\ [SipNext]_sipVars => [\A m \in Request : Replayed(m)]_sipVars
    <2> SUFFICES ASSUME SipInv, NEW m \in Request, Tracked(m), m \notin late', finals[KeyOf(m)] # {},
                        ~Accepted(m), server[KeyOf(m)].st # "Confirmed",
                        NEW l \in Loop, HandleCopy(l, m) \/ HandleNew(l, m)
                 PROVE  finals[KeyOf(m)] \subseteq air'[KeyOf(m)]
      OBVIOUS
    <2>0. SipTypeOK /\ KeyOf(m) \in Key /\ Arrives(l, m)
      BY HeaderFacts DEF SipInv, HandleCopy, HandleNew
    <2>1. SipTypeOK /\ KeyOf(m) \in Key /\ Near(peer[m]) > 0 /\ m \notin late
      BY <2>0, ArrivesFacts DEF Calm
    <2>2. Header[m].method # "ACK"
      BY DEF SipInv, RequestsOK, AckOK, Tracked
    <2>3. RequestOK(m)
      BY <2>2 DEF SipInv, RequestsOK
    <2>4. Guarded(m)
      BY <2>1, <2>3 DEF RequestOK, OnceOK, NoTrace
    <2>5. PICK k \in Key : k = KeyOf(m)
      BY <2>1
    <2>6. PICK e : e = server[k] /\ EntryOK(e) /\ Present(e) /\ e.method = Header[m].method
                   /\ e.final = finals[k] /\ Guards(e, Near(peer[m])) /\ e.st # "Confirmed"
      BY <2>1, <2>3, <2>4, <2>5, SipTypeFacts DEF Guarded, RequestOK, OwnEntry
    <2>7. PICK reliable \in BOOLEAN : reliable = Header[m].tcp /\ ~reliable
      BY <2>4, HeaderFacts DEF Guarded
    <2>8. HandleCopy(l, m)
      BY <2>5, <2>6 DEF HandleNew
    <2>9. PICK s : s = ServerRequest(e, e.method, reliable)
      OBVIOUS
    <2>10. Says(k, s.send)
      BY <2>5, <2>6, <2>7, <2>8, <2>9 DEF HandleCopy
    <2>11. e.final \subseteq s.send
      BY <2>2, <2>6, <2>7, <2>9, GuardCopy
    <2>12. s.send \subseteq air'[k]
      BY <2>1, <2>10 DEF Says, SipTypeOK
    <2> QED
      BY <2>5, <2>6, <2>11, <2>12
  <1> QED
    BY <1>1, SipInvariance, PTL DEF SipSpec, CopiesReplayed
=============================================================================
