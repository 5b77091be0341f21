---------------------------- MODULE MediaProofs ----------------------------
(***************************************************************************)
(* Proofs about MediaSessions, for any number of nodes, bindings, passes   *)
(* at the same time, API calls and faults.                                 *)
(***************************************************************************)
EXTENDS MediaSessions, FiniteSetTheorems, SequenceTheorems, TLAPS

-----------------------------------------------------------------------------
\* The inductive invariant.

\* A row that exists names its node; revision 0 is the one it was inserted with.
RowOK(r) ==
  /\ r \in BindingRow
  /\ r.st = "none" => r = NoBindingRow
  /\ r.st # "none" => r.node \in Node
  /\ r.rev = 0 => r.st \in {"none", "Reserved"}

SessionOK(s) == s \in Session /\ (s.st = "none" => s = NoSession)

\* The rows: no binding without a session, and one that lives at most.
RowsOK(s, rows) ==
  /\ SessionOK(s)
  /\ rows \in [Binding -> BindingRow] /\ \A b \in Binding : RowOK(rows[b])
  /\ s.st = "none" => \A b \in Binding : rows[b].st = "none"
  /\ \A b, c \in Binding : BLive(rows[b]) /\ BLive(rows[c]) => b = c

\* A call that has written its rows works on rows that exist.
CallOK(c, s, rows) ==
  /\ c \in Call
  /\ c.pc \notin {"idle", "done"} => c.b \in Binding
  /\ c.pc \in {"schedule", "reserve", "persist"} => s.st = "none"
  /\ c.pc \in {"reserve", "persist"} => c.node \in Node
  /\ c.pc \in {"begin", "exec", "settle"} => s.st # "none" /\ rows[c.b].st # "none"

\* The binding has a name and no row.
Claiming == {"schedule", "reserve", "bump", "create"}

HasNew == {"schedule", "reserve", "bump", "create", "begin", "exec", "settle"}

HasCopies == {"list", "lookup", "migrate"} \cup HasNew

\* The copies of a pass: a row with the revision of the copy is the copy. The
\* identity of the new binding is its own until the row is written.
PassOK(p, s, rows) ==
  /\ p \in PassState
  /\ p.pc \in HasCopies =>
       /\ s.st # "none" /\ p.s.st # "none" /\ ~SEnded(p.s)
       /\ p.s.rev <= s.rev /\ (p.s.rev = s.rev => p.s = s)
       /\ p.b \in Binding /\ BLive(p.br) /\ rows[p.b].st # "none"
       /\ p.br.rev <= rows[p.b].rev /\ (p.br.rev = rows[p.b].rev => p.br = rows[p.b])
  /\ p.pc \in HasNew => p.nb \in Binding
  /\ p.pc \in HasNew \ {"schedule"} => p.node \in Node
  /\ p.pc \in Claiming => rows[p.nb].st = "none"
  /\ p.pc \in {"begin", "exec", "settle"} => rows[p.nb].st # "none"
  /\ p.pc \in {"dropnew", "dropold"} => p.b \in Binding
  /\ p.pc = "dropnew" => p.nb \in Binding

\* Two passes never create the same binding.
OwnBindings(ps) ==
  \A r, q \in Pass : /\ r # q
                     /\ ps[r].pc \in Claiming /\ ps[q].pc \in Claiming
                     => ps[r].nb # ps[q].nb

SessionInv ==
  /\ RowsOK(ses, bnd)
  /\ api \in [Kind -> Call] /\ \A k \in Kind : CallOK(api[k], ses, bnd)
  /\ \A k \in Kind \ {"start"} : api[k].pc \notin {"schedule", "reserve", "persist"}
  /\ pass \in [Pass -> PassState] /\ \A r \in Pass : PassOK(pass[r], ses, bnd)
  /\ OwnBindings(pass)

NodesInv ==
  /\ boot \in [Node -> Nat] /\ \A n \in Node : boot[n] \in 1 .. faults + 1
  /\ running \in [Node -> Nat]
  /\ row \in [Node -> NodeRow] /\ reg \in [Node -> NodeEntry]
  /\ late \subseteq Late
  /\ faults \in 0 .. MaxFaults

SchedInv == sched \in Sched /\ AffinityCounted

\* Bindings that have been named and await an attempt to reserve a node.
Waiting ==
  {b \in Binding : \/ api["start"].pc = "schedule" /\ api["start"].b = b
                  \/ \E r \in Pass : pass[r].pc = "schedule" /\ pass[r].nb = b}

\* An attempt begins without the reservation of an earlier one: without it the
\* affinity count would grow with every attempt.
WaitInv == \A b \in Waiting : sched.at[b] = NoNode

\* An event that was not processed is about a binding that has a row.
EventsInv ==
  /\ evs \in [Node -> Seq(Event)]
  /\ \A n \in Node : \A i \in 1 .. Len(evs[n]) : ~evs[n][i].seen => evs[n][i].b \in Binding

MediaInv == SessionInv /\ NodesInv /\ SchedInv /\ WaitInv /\ EventsInv

-----------------------------------------------------------------------------
\* The transitions of one row.

\* What a save may do to the row of a session.
SMove(s, t) ==
  \/ t = s
  \/ /\ SessionOK(t) /\ s.st # "none" /\ t.st # "none" /\ s.rev < t.rev
     /\ SEnded(s) => t.st = s.st

\* What a save may do to the row of a binding.
BMove(r, q) ==
  \/ q = r
  \/ /\ RowOK(q) /\ r.st # "none" /\ q.st # "none" /\ r.rev < q.rev
     /\ r.st \in BindingEnd => q.st = r.st
     /\ BLive(q) => BLive(r)

LEMMA SToFacts ==
  ASSUME NEW s \in Session, NEW st \in SessionState \ {"none"}
  PROVE  /\ STo(s, st) \in Session /\ STo(s, st).st = st /\ STo(s, st).rev = s.rev + 1
         /\ STo(s, st).stop = s.stop /\ SessionOK(STo(s, st))
  <1>1. s.rev \in Nat /\ s.rev + 1 \in Nat
    BY DEF Session
  <1> DEFINE t == [s EXCEPT !.st = st, !.rev = s.rev + 1]
  <1>2. t \in Session
    BY <1>1, Zenon DEF Session
  <1>3. t.st = st /\ t.rev = s.rev + 1 /\ t.stop = s.stop
    BY DEF Session
  <1>4. STo(s, st) = t
    BY DEF STo
  <1> HIDE DEF t
  <1> QED
    BY <1>2, <1>3, <1>4 DEF SessionOK

LEMMA StopFlagFacts ==
  ASSUME NEW s \in Session
  PROVE  /\ [s EXCEPT !.stop = TRUE] \in Session
         /\ [s EXCEPT !.stop = TRUE].st = s.st /\ [s EXCEPT !.stop = TRUE].rev = s.rev
  BY DEF Session

LEMMA BToFacts ==
  ASSUME NEW r \in BindingRow, NEW st \in BindingState \ {"none"}
  PROVE  /\ BTo(r, st) \in BindingRow /\ BTo(r, st).st = st /\ BTo(r, st).rev = r.rev + 1
         /\ BTo(r, st).node = r.node /\ BTo(r, st).ep = r.ep
  <1>1. r.rev \in Nat /\ r.rev + 1 \in Nat
    BY DEF BindingRow
  <1> DEFINE q == [r EXCEPT !.st = st, !.rev = r.rev + 1]
  <1>2. q \in BindingRow
    BY <1>1, Zenon DEF BindingRow
  <1>3. q.st = st /\ q.rev = r.rev + 1 /\ q.node = r.node /\ q.ep = r.ep
    BY DEF BindingRow
  <1>4. BTo(r, st) = q
    BY DEF BTo
  <1> HIDE DEF q
  <1> QED
    BY <1>2, <1>3, <1>4

\* One transition of a session that has not ended.
LEMMA StepS ==
  ASSUME NEW s, SessionOK(s), s.st # "none", ~SEnded(s), NEW st \in SessionState \ {"none"}
  PROVE  SMove(s, STo(s, st)) /\ SessionOK(STo(s, st)) /\ STo(s, st).st = st
  <1>1. s \in Session /\ s.rev \in Nat
    BY DEF SessionOK, Session
  <1> QED
    BY <1>1, SToFacts DEF SMove

\* One transition of a binding that lives.
LEMMA StepB ==
  ASSUME NEW r, RowOK(r), BLive(r), NEW st \in BindingState \ {"none"}
  PROVE  BMove(r, BTo(r, st)) /\ RowOK(BTo(r, st)) /\ BTo(r, st).st = st
  <1>1. r \in BindingRow /\ r.rev \in Nat /\ r.st # "none" /\ r.st \notin BindingEnd /\ r.node \in Node
    BY DEF RowOK, BindingRow, BLive
  <1> QED
    BY <1>1, BToFacts DEF BMove, RowOK

LEMMA SMoveTrans ==
  ASSUME NEW s, NEW t, NEW u, SessionOK(s), SMove(s, t), SMove(t, u)
  PROVE  SMove(s, u)
  <1>1. CASE t = s \/ u = t
    BY <1>1
  <1>2. CASE t # s /\ u # t
    <2>1. {s, t, u} \subseteq Session
      BY <1>2 DEF SMove, SessionOK
    <2>2. s.rev \in Nat /\ t.rev \in Nat /\ u.rev \in Nat
      BY <2>1 DEF Session
    <2>3. s.rev < u.rev
      BY <1>2, <2>2 DEF SMove
    <2> QED
      BY <1>2, <2>3 DEF SMove, SEnded
  <1> QED
    BY <1>1, <1>2

LEMMA BMoveTrans ==
  ASSUME NEW r, NEW q, NEW t, RowOK(r), BMove(r, q), BMove(q, t)
  PROVE  BMove(r, t)
  <1>1. CASE q = r \/ t = q
    BY <1>1
  <1>2. CASE q # r /\ t # q
    <2>1. {r, q, t} \subseteq BindingRow
      BY <1>2 DEF BMove, RowOK
    <2>2. r.rev \in Nat /\ q.rev \in Nat /\ t.rev \in Nat
      BY <2>1 DEF BindingRow
    <2>3. r.rev < t.rev
      BY <1>2, <2>2 DEF BMove
    <2> QED
      BY <1>2, <2>3 DEF BMove
  <1> QED
    BY <1>1, <1>2

\* MediaSession::stop and the walks.
LEMMA WalksS ==
  ASSUME NEW s, SessionOK(s), s.st # "none"
  PROVE  /\ SMove(s, Through(s)) /\ SMove(s, FailedOf(s)) /\ SMove(s, StoppedOf(s))
         /\ ~SEnded(s) => SMove(s, StopOf(s)) /\ SMove(s, STo(s, "Inviting"))
  <1>0. /\ "Inviting" \in SessionState \ {"none"} /\ "Active" \in SessionState \ {"none"}
        /\ "Stopping" \in SessionState \ {"none"} /\ "Stopped" \in SessionState \ {"none"}
        /\ "Failed" \in SessionState \ {"none"}
        /\ ~SEnded([st |-> "Inviting"]) /\ s.st \in SessionState /\ s \in Session
    BY DEF SessionState, SessionEnd, SEnded, SessionOK, Session
  <1>1. SMove(s, Through(s))
    <2>1. CASE s.st = "Allocating"
      <3> DEFINE t == STo(s, "Inviting")
      <3>1. SMove(s, t) /\ SessionOK(t) /\ t.st = "Inviting" /\ ~SEnded(s)
        BY <1>0, <2>1, StepS DEF SEnded, SessionEnd
      <3>2. SMove(t, STo(t, "Active"))
        BY <1>0, <3>1, StepS DEF SEnded, SessionEnd
      <3>3. Through(s) = STo(t, "Active")
        BY <2>1 DEF Through
      <3> HIDE DEF t
      <3> QED
        BY <3>1, <3>2, <3>3, SMoveTrans
    <2>2. CASE s.st = "Inviting"
      <3>1. Through(s) = STo(s, "Active") /\ ~SEnded(s)
        BY <2>2 DEF Through, SEnded, SessionEnd
      <3> QED
        BY <1>0, <3>1, StepS
    <2>3. CASE s.st \notin {"Allocating", "Inviting"}
      BY <2>3 DEF Through, SMove
    <2> QED
      BY <2>1, <2>2, <2>3
  <1>2. SMove(s, FailedOf(s))
    <2>1. CASE SEnded(s)
      BY <2>1 DEF FailedOf, SMove
    <2>2. CASE ~SEnded(s)
      <3>1. FailedOf(s) = STo(s, "Failed")
        BY <2>2 DEF FailedOf
      <3> QED
        BY <1>0, <2>2, <3>1, StepS
    <2> QED
      BY <2>1, <2>2
  <1>3. ASSUME NEW t, SessionOK(t), t.st # "none", SMove(s, t), t # s
        PROVE  SMove(s, [t EXCEPT !.stop = TRUE])
    <2> DEFINE u == [t EXCEPT !.stop = TRUE]
    <2>1. u \in Session /\ u.st = t.st /\ u.rev = t.rev
      BY <1>3, StopFlagFacts DEF SessionOK
    <2> HIDE DEF u
    <2>2. SMove(s, u)
      BY <1>3, <2>1 DEF SMove, SessionOK
    <2> QED
      BY <2>2 DEF u
  <1>4. ASSUME NEW st \in {"Stopping", "Stopped"}, ~SEnded(s)
        PROVE  STo(s, st) # s /\ SMove(s, STo(s, st)) /\ SessionOK(STo(s, st)) /\ STo(s, st).st = st
    <2>1. SMove(s, STo(s, st)) /\ SessionOK(STo(s, st)) /\ STo(s, st).st = st
      BY <1>0, <1>4, StepS
    <2>2. s.rev \in Nat /\ STo(s, st).rev = s.rev + 1
      BY <1>0, <1>4, SToFacts DEF Session
    <2> QED
      BY <2>1, <2>2
  <1>5. ASSUME ~SEnded(s) PROVE SMove(s, StopOf(s))
    <2> DEFINE st == IF s.st = "Active" THEN "Stopping" ELSE "Stopped"
    <2>1. st \in {"Stopping", "Stopped"}
      OBVIOUS
    <2>2. StopOf(s) = [STo(s, st) EXCEPT !.stop = TRUE]
      BY DEF StopOf
    <2> HIDE DEF st
    <2>3. STo(s, st) # s /\ SMove(s, STo(s, st)) /\ SessionOK(STo(s, st)) /\ STo(s, st).st # "none"
      BY <1>4, <1>5, <2>1
    <2> QED
      BY <1>3, <2>2, <2>3
  <1>6. SMove(s, StoppedOf(s))
    <2>1. CASE SEnded(s)
      BY <2>1 DEF StoppedOf, SMove, SEnded, SessionEnd
    <2>2. CASE ~SEnded(s) /\ s.st = "Active"
      <3> DEFINE t == STo(s, "Stopping")
                 u == STo(t, "Stopped")
      <3>1. SMove(s, t) /\ SessionOK(t) /\ t.st = "Stopping"
        BY <1>4, <2>2
      <3>2. SMove(t, u) /\ SessionOK(u) /\ u.st = "Stopped"
        BY <1>0, <3>1, StepS DEF SEnded, SessionEnd
      <3>3. StoppedOf(s) = [u EXCEPT !.stop = TRUE]
        BY <2>2 DEF StoppedOf
      <3> HIDE DEF t, u
      <3>4. SMove(s, u) /\ u # s
        BY <2>2, <3>1, <3>2, SMoveTrans
      <3> QED
        BY <1>3, <3>2, <3>3, <3>4
    <2>3. CASE ~SEnded(s) /\ s.st # "Active"
      <3>1. StoppedOf(s) = STo(s, "Stopped")
        BY <2>3 DEF StoppedOf
      <3> QED
        BY <1>4, <2>3, <3>1
    <2> QED
      BY <2>1, <2>2, <2>3
  <1>7. ASSUME ~SEnded(s) PROVE SMove(s, STo(s, "Inviting"))
    BY <1>0, <1>7, StepS
  <1> QED
    BY <1>1, <1>2, <1>5, <1>6, <1>7

\* The walks of a binding.
LEMMA WalksB ==
  ASSUME NEW r, RowOK(r)
  PROVE  /\ BMove(r, BFailedOf(r)) /\ BMove(r, ReleasingOf(r)) /\ BMove(r, ReleasedOf(r))
         /\ BMove(r, Converged(r))
         /\ ~BLive(BFailedOf(r)) /\ BFailedOf(r).st # "none" <=> r.st # "none"
         /\ BLive(r) => BMove(r, BTo(r, "Active")) /\ BMove(r, BTo(r, "NeedsVerification"))
  <1>0. /\ "Active" \in BindingState \ {"none"} /\ "Releasing" \in BindingState \ {"none"}
        /\ "Released" \in BindingState \ {"none"} /\ "Failed" \in BindingState \ {"none"}
        /\ "NeedsVerification" \in BindingState \ {"none"}
    BY DEF BindingState, BindingEnd
  <1>1. ASSUME BLive(r)
        PROVE  /\ BMove(r, BTo(r, "Failed")) /\ BTo(r, "Failed").st = "Failed"
               /\ BMove(r, BTo(r, "Active")) /\ BMove(r, BTo(r, "NeedsVerification"))
               /\ BMove(r, BTo(r, "Releasing")) /\ RowOK(BTo(r, "Releasing"))
               /\ BTo(r, "Releasing").st = "Releasing"
    BY <1>0, <1>1, StepB
  <1>2. BMove(r, r)
    BY DEF BMove
  <1>3. BMove(r, BFailedOf(r)) /\ ~BLive(BFailedOf(r)) /\ (BFailedOf(r).st # "none" <=> r.st # "none")
    <2>1. CASE BLive(r)
      <3>1. BFailedOf(r) = BTo(r, "Failed")
        BY <2>1 DEF BFailedOf
      <3> QED
        BY <1>1, <2>1, <3>1 DEF BLive, BindingEnd
    <2>2. CASE ~BLive(r)
      BY <1>2, <2>2 DEF BFailedOf
    <2> QED
      BY <2>1, <2>2
  <1>4. BMove(r, ReleasingOf(r)) /\ RowOK(ReleasingOf(r)) /\ (BLive(r) => ReleasingOf(r).st = "Releasing")
    <2>1. CASE BLive(r) /\ r.st # "Releasing"
      <3>1. ReleasingOf(r) = BTo(r, "Releasing")
        BY <2>1 DEF ReleasingOf
      <3> QED
        BY <1>1, <2>1, <3>1
    <2>2. CASE ~(BLive(r) /\ r.st # "Releasing")
      BY <1>2, <2>2 DEF ReleasingOf
    <2> QED
      BY <2>1, <2>2
  <1>5. BMove(r, ReleasedOf(r))
    <2>1. CASE BLive(r)
      <3> DEFINE q == ReleasingOf(r)
      <3>1. BMove(r, q) /\ RowOK(q) /\ BLive(q)
        BY <1>4, <2>1 DEF BLive, BindingEnd
      <3>2. BMove(q, BTo(q, "Released"))
        BY <1>0, <3>1, StepB
      <3>3. ReleasedOf(r) = BTo(q, "Released")
        BY <2>1 DEF ReleasedOf
      <3> HIDE DEF q
      <3> QED
        BY <3>1, <3>2, <3>3, BMoveTrans
    <2>2. CASE ~BLive(r)
      BY <1>2, <2>2 DEF ReleasedOf
    <2> QED
      BY <2>1, <2>2
  <1>6. BMove(r, Converged(r))
    <2>1. CASE r.st \in {"Reserved", "NeedsVerification"}
      <3>1. Converged(r) = BTo(r, "Active") /\ BLive(r)
        BY <2>1 DEF Converged, BLive, BindingEnd
      <3> QED
        BY <1>1, <3>1
    <2>2. CASE r.st \notin {"Reserved", "NeedsVerification"}
      BY <1>2, <2>2 DEF Converged
    <2> QED
      BY <2>1, <2>2
  <1> QED
    BY <1>1, <1>3, <1>4, <1>5, <1>6

-----------------------------------------------------------------------------
\* A transaction moves rows on and may create one binding, c.
Moves(c) ==
  /\ SMove(ses, ses')
  /\ bnd' \in [Binding -> BindingRow]
  /\ \A b \in Binding \ {c} : BMove(bnd[b], bnd'[b])
  /\ c \in Binding => bnd[c].st = "none" /\ bnd'[c].st # "none"

\* The action of EndIsKept.
Kept ==
  /\ SEnded(ses) => ses'.st = ses.st
  /\ \A b \in Binding : bnd[b].st \in BindingEnd => bnd'[b].st = bnd[b].st

LEMMA MovesKeep ==
  ASSUME NEW c, Moves(c)
  PROVE  Kept
  <1>1. SEnded(ses) => ses'.st = ses.st
    BY DEF Moves, SMove
  <1>2. ASSUME NEW b \in Binding, bnd[b].st \in BindingEnd PROVE bnd'[b].st = bnd[b].st
    <2>1. b # c
      BY <1>2 DEF Moves, BindingEnd
    <2> QED
      BY <1>2, <2>1 DEF Moves, BMove
  <1> QED
    BY <1>1, <1>2 DEF Kept

\* The rows after a transaction that creates nothing.
LEMMA RowsMove ==
  ASSUME SessionInv, Moves(NoBinding)
  PROVE  RowsOK(ses', bnd')
  <1>1. \A b \in Binding : BMove(bnd[b], bnd'[b]) /\ RowOK(bnd[b])
    BY MediaSessionsAssumption DEF Moves, SessionInv, RowsOK
  <1>2. SessionOK(ses) /\ SMove(ses, ses')
    BY DEF Moves, SessionInv, RowsOK
  <1>3. SessionOK(ses')
    BY <1>2 DEF SMove
  <1>4. \A b \in Binding : RowOK(bnd'[b])
    BY <1>1 DEF BMove
  <1>5. ASSUME ses'.st = "none", NEW b \in Binding PROVE bnd'[b].st = "none"
    <2>1. ses.st = "none"
      BY <1>2, <1>5 DEF SMove
    <2>2. bnd[b].st = "none"
      BY <2>1 DEF SessionInv, RowsOK
    <2> QED
      BY <1>1, <2>2 DEF BMove
  <1>6. \A b \in Binding : BLive(bnd'[b]) => BLive(bnd[b])
    BY <1>1 DEF BMove
  <1>7. \A b, c \in Binding : BLive(bnd'[b]) /\ BLive(bnd'[c]) => b = c
    BY <1>6 DEF SessionInv, RowsOK
  <1> QED
    BY <1>3, <1>4, <1>5, <1>7 DEF RowsOK, Moves

\* Calls and passes that have no part in the transaction.
LEMMA CallKeeps ==
  ASSUME SessionInv, NEW c, Moves(c), NEW k \in Kind
  PROVE  CallOK(api[k], ses', bnd')
  <1>1. CallOK(api[k], ses, bnd)
    BY DEF SessionInv
  <1>2. SMove(ses, ses')
    BY DEF Moves
  <1>3. ses.st = "none" => ses' = ses
    BY <1>2 DEF SMove
  <1>4. ses.st # "none" => ses'.st # "none"
    BY <1>2 DEF SMove
  <1>5. ASSUME NEW b \in Binding, bnd[b].st # "none" PROVE bnd'[b].st # "none"
    BY <1>5 DEF Moves, BMove
  <1>6. api[k].pc \in {"begin", "exec", "settle"} => api[k].b \in Binding
    BY <1>1 DEF CallOK
  <1> QED
    BY <1>1, <1>3, <1>4, <1>5, <1>6 DEF CallOK

LEMMA PassKeeps ==
  ASSUME SessionInv, NEW c, Moves(c), NEW r \in Pass,
         pass[r].pc \in Claiming => pass[r].nb # c
  PROVE  PassOK(pass[r], ses', bnd')
  <1> DEFINE p == pass[r]
  <1>1. PassOK(p, ses, bnd) /\ SessionOK(ses) /\ \A b \in Binding : RowOK(bnd[b])
    BY DEF SessionInv, RowsOK
  <1>2. SMove(ses, ses') /\ \A b \in Binding \ {c} : BMove(bnd[b], bnd'[b])
    BY DEF Moves
  <1>3. ASSUME NEW b \in Binding, bnd[b].st # "none"
        PROVE  bnd'[b].st # "none" /\ BMove(bnd[b], bnd'[b])
    <2>1. b # c
      BY <1>3 DEF Moves
    <2> QED
      BY <1>2, <1>3, <2>1 DEF BMove
  <1> HIDE DEF p
  <1>4. ASSUME p.pc \in HasCopies
        PROVE  /\ ses'.st # "none" /\ p.s.rev <= ses'.rev /\ (p.s.rev = ses'.rev => p.s = ses')
    <2>1. p.s \in Session /\ ses \in Session /\ ses.st # "none"
          /\ p.s.rev <= ses.rev /\ (p.s.rev = ses.rev => p.s = ses)
      BY <1>1, <1>4 DEF PassOK, PassState, SessionOK
    <2>2. p.s.rev \in Nat /\ ses.rev \in Nat
      BY <2>1 DEF Session
    <2>3. CASE ses' = ses
      BY <2>1, <2>3
    <2>4. CASE ses' # ses
      <3>1. ses' \in Session /\ ses'.st # "none" /\ ses.rev < ses'.rev
        BY <1>2, <2>4 DEF SMove, SessionOK
      <3>2. ses'.rev \in Nat
        BY <3>1 DEF Session
      <3> QED
        BY <2>1, <2>2, <3>1, <3>2
    <2> QED
      BY <2>3, <2>4
  <1>5. ASSUME p.pc \in HasCopies
        PROVE  /\ bnd'[p.b].st # "none" /\ p.br.rev <= bnd'[p.b].rev
               /\ p.br.rev = bnd'[p.b].rev => p.br = bnd'[p.b]
    <2> DEFINE b == p.b
    <2>1. p.br \in BindingRow /\ b \in Binding /\ bnd[b].st # "none"
          /\ p.br.rev <= bnd[b].rev /\ (p.br.rev = bnd[b].rev => p.br = bnd[b])
      BY <1>1, <1>5 DEF PassOK, PassState
    <2> HIDE DEF b
    <2>2. bnd[b] \in BindingRow
      BY <1>1, <2>1 DEF RowOK
    <2>3. p.br.rev \in Nat /\ bnd[b].rev \in Nat
      BY <2>1, <2>2 DEF BindingRow
    <2>4. bnd'[b].st # "none" /\ BMove(bnd[b], bnd'[b])
      BY <1>3, <2>1
    <2>5. CASE bnd'[b] = bnd[b]
      BY <2>1, <2>5 DEF b
    <2>6. CASE bnd'[b] # bnd[b]
      <3>1. bnd'[b] \in BindingRow /\ bnd[b].rev < bnd'[b].rev
        BY <2>4, <2>6 DEF BMove, RowOK
      <3>2. bnd'[b].rev \in Nat
        BY <3>1 DEF BindingRow
      <3>3. p.br.rev < bnd'[b].rev
        BY <2>1, <2>3, <3>1, <3>2
      <3> QED
        BY <2>3, <2>4, <3>2, <3>3 DEF b
    <2> QED
      BY <2>5, <2>6
  <1>6. ASSUME p.pc \in Claiming PROVE bnd'[p.nb].st = "none"
    <2>1. p.nb \in Binding /\ p.nb # c /\ bnd[p.nb].st = "none"
      BY <1>1, <1>6 DEF PassOK, HasNew, Claiming, p
    <2> QED
      BY <1>2, <2>1 DEF BMove
  <1>7. ASSUME p.pc \in {"begin", "exec", "settle"} PROVE bnd'[p.nb].st # "none"
    <2>1. p.nb \in Binding /\ bnd[p.nb].st # "none"
      BY <1>1, <1>7 DEF PassOK, HasNew, Claiming
    <2> QED
      BY <1>3, <2>1
  <1>8. PassOK(p, ses', bnd')
    BY <1>1, <1>4, <1>5, <1>6, <1>7 DEF PassOK
  <1> QED
    BY <1>8 DEF p

\* A transaction in which neither a call nor a pass moves.
LEMMA OnlyRows ==
  ASSUME SessionInv, Moves(NoBinding), UNCHANGED <<api, pass>>
  PROVE  SessionInv' /\ Kept
  <1>1. \A r \in Pass : pass[r].pc \in Claiming => pass[r].nb # NoBinding
    BY MediaSessionsAssumption DEF SessionInv, PassOK, HasNew, Claiming
  <1>2. \A r \in Pass : PassOK(pass[r], ses', bnd')
    BY <1>1, PassKeeps
  <1>3. \A k \in Kind : CallOK(api[k], ses', bnd')
    BY CallKeeps
  <1> QED
    BY <1>2, <1>3, RowsMove, MovesKeep DEF SessionInv

\* A transaction of an API call.
LEMMA CallMoves ==
  ASSUME SessionInv, Moves(NoBinding), NEW k \in Kind, NEW c, api' = [api EXCEPT ![k] = c],
         CallOK(c, ses', bnd'), c.pc \in {"schedule", "reserve", "persist"} => k = "start",
         UNCHANGED pass
  PROVE  SessionInv' /\ Kept
  <1>1. \A r \in Pass : pass[r].pc \in Claiming => pass[r].nb # NoBinding
    BY MediaSessionsAssumption DEF SessionInv, PassOK, HasNew, Claiming
  <1>2. \A r \in Pass : PassOK(pass[r], ses', bnd')
    BY <1>1, PassKeeps
  <1>3. \A j \in Kind : CallOK(api[j], ses', bnd')
    BY CallKeeps
  <1>4. api \in [Kind -> Call] /\ c \in Call
    BY DEF SessionInv, CallOK
  <1>5. api' \in [Kind -> Call] /\ api'[k] = c /\ \A j \in Kind \ {k} : api'[j] = api[j]
    BY <1>4
  <1> QED
    BY <1>2, <1>3, <1>5, RowsMove, MovesKeep DEF SessionInv

\* A transaction of a pass.
LEMMA PassMoves ==
  ASSUME SessionInv, Moves(NoBinding), NEW r \in Pass, NEW p, pass' = [pass EXCEPT ![r] = p],
         PassOK(p, ses', bnd'), UNCHANGED api,
         \A q \in Pass \ {r} : /\ p.pc \in Claiming /\ pass[q].pc \in Claiming
                               => p.nb # pass[q].nb
  PROVE  SessionInv' /\ Kept
  <1>1. \A q \in Pass : pass[q].pc \in Claiming => pass[q].nb # NoBinding
    BY MediaSessionsAssumption DEF SessionInv, PassOK, HasNew, Claiming
  <1>2. \A q \in Pass : PassOK(pass[q], ses', bnd')
    BY <1>1, PassKeeps
  <1>3. \A k \in Kind : CallOK(api[k], ses', bnd')
    BY CallKeeps
  <1>4. pass \in [Pass -> PassState] /\ p \in PassState /\ OwnBindings(pass)
    BY DEF SessionInv, PassOK
  <1>5. pass' \in [Pass -> PassState] /\ pass'[r] = p /\ \A q \in Pass \ {r} : pass'[q] = pass[q]
    BY <1>4
  <1>6. OwnBindings(pass')
    BY <1>4, <1>5 DEF OwnBindings, Claiming
  <1> QED
    BY <1>2, <1>3, <1>5, <1>6, RowsMove, MovesKeep DEF SessionInv

-----------------------------------------------------------------------------
\* API calls.

LEMMA NoWrite ==
  ASSUME SessionInv, UNCHANGED <<ses, bnd>>
  PROVE  Moves(NoBinding)
  BY MediaSessionsAssumption DEF SessionInv, RowsOK, Moves, SMove, BMove

LEMMA SaveOne ==
  ASSUME SessionInv, SMove(ses, ses'), NEW b \in Binding, NEW q, BMove(bnd[b], q),
         bnd' = [bnd EXCEPT ![b] = q]
  PROVE  Moves(NoBinding) /\ bnd'[b] = q
  <1>1. bnd \in [Binding -> BindingRow] /\ RowOK(bnd[b])
    BY DEF SessionInv, RowsOK
  <1>2. q \in BindingRow
    BY <1>1 DEF BMove, RowOK
  <1>3. bnd' \in [Binding -> BindingRow] /\ bnd'[b] = q /\ \A c \in Binding \ {b} : bnd'[c] = bnd[c]
    BY <1>1, <1>2
  <1> QED
    BY <1>3, MediaSessionsAssumption DEF Moves, BMove

LEMMA SaveSession ==
  ASSUME SessionInv, SMove(ses, ses'), UNCHANGED bnd
  PROVE  Moves(NoBinding)
  BY MediaSessionsAssumption DEF SessionInv, RowsOK, Moves, BMove

LEMMA CallFacts ==
  ASSUME SessionInv, NEW k \in Kind, api[k].pc \in {"begin", "exec", "settle"}
  PROVE  /\ api[k] \in Call /\ api[k].b \in Binding /\ ses.st # "none" /\ bnd[api[k].b].st # "none"
         /\ SessionOK(ses) /\ RowOK(bnd[api[k].b])
  BY DEF SessionInv, RowsOK, CallOK

\* A call that goes on and writes what Moves allows.
LEMMA GotoInv ==
  ASSUME SessionInv, Moves(NoBinding), UNCHANGED pass, NEW k \in Kind,
         NEW pc \in {"exec", "drop", "done"}, Goto(k, pc), api[k].pc \in {"persist", "begin", "settle", "drop"} \/ pc = "done",
         pc = "exec" => api[k].pc = "begin"
  PROVE  SessionInv' /\ Kept
  <1> DEFINE c == IF pc = "done" THEN [NoCall EXCEPT !.pc = pc] ELSE [api[k] EXCEPT !.pc = pc]
  <1>1. api' = [api EXCEPT ![k] = c]
    BY DEF Goto
  <1>2. api[k] \in Call /\ CallOK(api[k], ses, bnd) /\ CallOK(api[k], ses', bnd')
    BY CallKeeps DEF SessionInv
  <1>3. CallOK(c, ses', bnd') /\ c.pc = pc
    <2>1. CASE pc = "done"
      <3>1. c = [NoCall EXCEPT !.pc = "done"]
        BY <2>1
      <3>2. c \in Call /\ c.pc = "done"
        BY <3>1 DEF NoCall, Call, Result
      <3> QED
        BY <2>1, <3>2 DEF CallOK
    <2>2. CASE pc # "done"
      <3>1. c = [api[k] EXCEPT !.pc = pc]
        BY <2>2
      <3>2. c \in Call
        BY <1>2, <3>1, Zenon DEF Call
      <3>3. c.pc = pc /\ c.b = api[k].b
        BY <1>2, <3>1 DEF Call
      <3> HIDE DEF c
      <3>4. c.b \in Binding
        BY <1>2, <2>2, <3>3 DEF CallOK
      <3> QED
        BY <1>2, <2>2, <3>2, <3>3, <3>4 DEF CallOK
    <2> QED
      BY <2>1, <2>2
  <1> HIDE DEF c
  <1> QED
    BY <1>1, <1>3, CallMoves

\* A call that begins with rows that are there.
LEMMA BeginCall ==
  ASSUME SessionInv, Moves(NoBinding), UNCHANGED pass, NEW k \in Kind, NEW b \in Live,
         ses.st # "none",
         api' = [api EXCEPT ![k] = [NoCall EXCEPT !.pc = "begin", !.b = b,
                                    !.node = bnd[b].node, !.ep = bnd[b].ep]]
  PROVE  SessionInv' /\ Kept
  <1> DEFINE c == [NoCall EXCEPT !.pc = "begin", !.b = b, !.node = bnd[b].node, !.ep = bnd[b].ep]
  <1>1. b \in Binding /\ bnd[b].st # "none" /\ bnd[b] \in BindingRow
    BY DEF Live, BLive, SessionInv, RowsOK
  <1>2. c \in Call
    BY <1>1 DEF NoCall, Call, Result, BindingRow
  <1>3. c.pc = "begin" /\ c.b = b
    BY DEF NoCall
  <1> HIDE DEF c
  <1>4. ses'.st # "none"
    BY DEF Moves, SMove
  <1>5. bnd'[b].st # "none"
    BY <1>1, MediaSessionsAssumption DEF Moves, BMove
  <1>6. CallOK(c, ses', bnd')
    BY <1>1, <1>2, <1>3, <1>4, <1>5 DEF CallOK
  <1> QED
    BY <1>3, <1>6, CallMoves DEF c

LEMMA NoCallType ==
  /\ NoCall \in Call /\ NoCall.pc = "idle"
  BY DEF NoCall, Call, Result

\* A start that has no rows yet.
LEMMA StartGoes ==
  ASSUME SessionInv, UNCHANGED <<ses, bnd, pass>>, ses.st = "none", NEW c \in Call,
         c.pc \in {"schedule", "reserve", "persist"}, c.b \in Binding,
         c.pc \in {"reserve", "persist"} => c.node \in Node,
         api' = [api EXCEPT !["start"] = c]
  PROVE  SessionInv' /\ Kept
  <1>1. CallOK(c, ses', bnd')
    BY DEF CallOK
  <1>2. "start" \in Kind
    BY DEF Kind
  <1> QED
    BY <1>1, <1>2, NoWrite, CallMoves

LEMMA StartRequestInv ==
  ASSUME SessionInv, StartRequest
  PROVE  SessionInv' /\ Kept
  <1>1. PICK b \in Binding : api' = [api EXCEPT !["start"] = [NoCall EXCEPT !.pc = "schedule", !.b = b]]
    BY DEF StartRequest
  <1> DEFINE c == [NoCall EXCEPT !.pc = "schedule", !.b = b]
  <1>2. UNCHANGED <<ses, bnd, pass>> /\ ses.st = "none"
    BY DEF StartRequest, dbVars
  <1>3. c \in Call /\ c.pc = "schedule" /\ c.b = b
    BY DEF NoCall, Call, Result
  <1>4. api' = [api EXCEPT !["start"] = c]
    BY <1>1
  <1> HIDE DEF c
  <1> QED
    BY <1>2, <1>3, <1>4, StartGoes

\* The call that has a name and no rows.
LEMMA StartFacts ==
  ASSUME SessionInv, api["start"].pc \in {"schedule", "reserve"}
  PROVE  /\ api["start"] \in Call /\ api["start"].b \in Binding /\ ses.st = "none" /\ "start" \in Kind
         /\ api["start"].tried \in SUBSET Node /\ api \in [Kind -> Call]
         /\ api["start"].pc = "reserve" => api["start"].node \in Node
  <1>1. "start" \in Kind
    BY DEF Kind
  <1>2. api["start"] \in Call /\ CallOK(api["start"], ses, bnd) /\ api \in [Kind -> Call]
    BY <1>1 DEF SessionInv
  <1>3. api["start"].tried \in SUBSET Node
    BY <1>2 DEF Call
  <1> QED
    BY <1>1, <1>2, <1>3 DEF CallOK

LEMMA CandidatesAreNodes ==
  ASSUME NEW tried, NEW n \in Candidates(tried)
  PROVE  n \in Node
  BY DEF Candidates

LEMMA StartScheduleInv ==
  ASSUME SessionInv, NodesInv, StartSchedule
  PROVE  SessionInv' /\ Kept
  <1> DEFINE c == api["start"]
  <1>0. c.pc = "schedule" /\ UNCHANGED <<ses, bnd, pass>>
    BY DEF StartSchedule, dbVars
  <1>1. /\ c \in Call /\ c.b \in Binding /\ ses.st = "none" /\ "start" \in Kind
        /\ c.tried \in SUBSET Node /\ api \in [Kind -> Call]
    BY <1>0, StartFacts
  <1>2. CASE Goto("start", "done")
    BY <1>0, <1>1, <1>2, NoWrite, GotoInv
  <1>3. ASSUME NEW n \in Candidates(c.tried), api' = [api EXCEPT !["start"].tried = @ \cup {n}]
        PROVE  SessionInv' /\ Kept
    <2> DEFINE t == c.tried \cup {n}
               d == [c EXCEPT !.tried = t]
    <2>1. t \in SUBSET Node
      BY <1>1, CandidatesAreNodes
    <2>2. api' = [api EXCEPT !["start"] = d]
      BY <1>1, <1>3
    <2> HIDE DEF t
    <2>3. d \in Call
      BY <1>1, <2>1, Zenon DEF Call
    <2>4. d.pc = c.pc /\ d.b = c.b
      BY <1>1 DEF Call
    <2> HIDE DEF d
    <2> QED
      BY <1>0, <1>1, <2>2, <2>3, <2>4, StartGoes
  <1>4. ASSUME NEW n \in Candidates(c.tried),
               api' = [api EXCEPT !["start"] = [c EXCEPT !.pc = "reserve", !.node = n, !.ep = reg[n].node.ep]]
        PROVE  SessionInv' /\ Kept
    <2> DEFINE ep == reg[n].node.ep
               d == [c EXCEPT !.pc = "reserve", !.node = n, !.ep = ep]
    <2>1. n \in Node
      BY CandidatesAreNodes
    <2>2. ep \in Nat
      BY <2>1 DEF NodesInv, NodeEntry, NodeRow
    <2>3. api' = [api EXCEPT !["start"] = d]
      BY <1>4
    <2> HIDE DEF ep
    <2>4. d \in Call
      BY <1>1, <2>1, <2>2, Zenon DEF Call
    <2>5. d.pc = "reserve" /\ d.b = c.b /\ d.node = n
      BY <1>1 DEF Call
    <2> HIDE DEF d
    <2> QED
      BY <1>0, <1>1, <2>1, <2>3, <2>4, <2>5, StartGoes
  <1> QED
    BY <1>2, <1>3, <1>4 DEF StartSchedule

LEMMA StartReserveInv ==
  ASSUME SessionInv, StartReserve
  PROVE  SessionInv' /\ Kept
  <1> DEFINE c == api["start"]
  <1>0. c.pc = "reserve" /\ UNCHANGED <<ses, bnd, pass>>
    BY DEF StartReserve, dbVars
  <1>1. /\ c \in Call /\ c.b \in Binding /\ ses.st = "none" /\ "start" \in Kind
        /\ c.tried \in SUBSET Node /\ api \in [Kind -> Call] /\ c.node \in Node
    BY <1>0, StartFacts
  <1>2. CASE api' = [api EXCEPT !["start"] = [c EXCEPT !.pc = "persist", !.tried = {}]]
    <2> DEFINE d == [c EXCEPT !.pc = "persist", !.tried = {}]
    <2>1. d \in Call
      <3>1. {} \in SUBSET Node
        OBVIOUS
      <3> QED
        BY <1>1, <3>1, Zenon DEF Call
    <2>2. d.pc = "persist" /\ d.b = c.b /\ d.node = c.node
      BY <1>1 DEF Call
    <2>3. api' = [api EXCEPT !["start"] = d]
      BY <1>2
    <2> HIDE DEF d
    <2> QED
      BY <1>0, <1>1, <2>1, <2>2, <2>3, StartGoes
  <1>3. CASE api' = [api EXCEPT !["start"] = [c EXCEPT !.pc = "schedule", !.tried = @ \cup {c.node}]]
    <2> DEFINE t == c.tried \cup {c.node}
               d == [c EXCEPT !.pc = "schedule", !.tried = t]
    <2>1. t \in SUBSET Node
      BY <1>1
    <2>2. api' = [api EXCEPT !["start"] = d]
      BY <1>1, <1>3 DEF Call
    <2> HIDE DEF t
    <2>3. d \in Call
      BY <1>1, <2>1, Zenon DEF Call
    <2>4. d.pc = "schedule" /\ d.b = c.b
      BY <1>1 DEF Call
    <2> HIDE DEF d
    <2> QED
      BY <1>0, <1>1, <2>2, <2>3, <2>4, StartGoes
  <1> QED
    BY <1>2, <1>3 DEF StartReserve

\* persist_start_resources: the first rows.
LEMMA StartPersistInv ==
  ASSUME SessionInv, StartPersist
  PROVE  SessionInv' /\ Kept
  <1> DEFINE c == api["start"]
  <1>0. "start" \in Kind /\ c.pc = "persist" /\ UNCHANGED pass
    BY DEF Kind, StartPersist
  <1>1. /\ c \in Call /\ c.b \in Binding /\ c.node \in Node /\ ses = NoSession
        /\ \A b \in Binding : bnd[b].st = "none"
    BY <1>0 DEF SessionInv, CallOK, RowsOK, SessionOK
  <1>2. CASE Goto("start", "drop") /\ UNCHANGED dbVars
    BY <1>0, <1>2, NoWrite, GotoInv DEF dbVars
  <1>3. CASE /\ Goto("start", "begin")
             /\ ses' = [ses EXCEPT !.st = "Allocating", !.rev = 1]
             /\ bnd' = [bnd EXCEPT ![c.b] = [st |-> "Reserved", rev |-> 0, node |-> c.node, ep |-> c.ep]]
    <2> DEFINE q == [st |-> "Reserved", rev |-> 0, node |-> c.node, ep |-> c.ep]
               d == [c EXCEPT !.pc = "begin"]
    <2>1. ses' = [st |-> "Allocating", stop |-> FALSE, rev |-> 1]
      BY <1>1, <1>3 DEF NoSession
    <2>2. SessionOK(ses') /\ ses'.st = "Allocating"
      BY <2>1 DEF SessionOK, Session, SessionState
    <2>3. q \in BindingRow /\ RowOK(q) /\ q.st = "Reserved"
      BY <1>1 DEF BindingRow, RowOK, BindingState, Call
    <2>4. d \in Call
      BY <1>1, Zenon DEF Call
    <2>5. d.pc = "begin" /\ d.b = c.b
      BY <1>1 DEF Call
    <2>6. api' = [api EXCEPT !["start"] = d] /\ bnd' = [bnd EXCEPT ![c.b] = q]
      BY <1>3 DEF Goto
    <2> HIDE DEF q, d
    <2>7. /\ bnd' \in [Binding -> BindingRow] /\ bnd'[c.b] = q
          /\ \A b \in Binding \ {c.b} : bnd'[b] = bnd[b]
      BY <1>1, <2>3, <2>6 DEF SessionInv, RowsOK
    <2>8. \A b \in Binding : BLive(bnd'[b]) => b = c.b
      BY <1>1, <2>7 DEF BLive
    <2>9. RowsOK(ses', bnd')
      <3>1. \A b \in Binding : RowOK(bnd'[b])
        BY <1>1, <2>3, <2>7 DEF SessionInv, RowsOK
      <3> QED
        BY <2>2, <2>7, <2>8, <3>1 DEF RowsOK
    <2>10. CallOK(d, ses', bnd')
      BY <1>1, <2>2, <2>3, <2>4, <2>5, <2>7 DEF CallOK
    <2>11. /\ api' \in [Kind -> Call] /\ api'["start"] = d
           /\ \A k \in Kind \ {"start"} : api'[k] = api[k] 
                                          /\ api[k].pc \notin {"schedule", "reserve", "persist"}
                                          /\ CallOK(api[k], ses, bnd)
      BY <1>0, <2>4, <2>6 DEF SessionInv
    <2>12. ses.st = "none"
      BY <1>1 DEF NoSession
    <2>13. \A k \in Kind \ {"start"} : CallOK(api'[k], ses', bnd')
      BY <2>11, <2>12 DEF CallOK
    <2>14. \A r \in Pass : PassOK(pass[r], ses', bnd')
      <3>1. \A r \in Pass : PassOK(pass[r], ses, bnd)
        BY DEF SessionInv
      <3> QED
        BY <2>12, <3>1 DEF PassOK, HasCopies, HasNew, Claiming
    <2>15. SessionInv'
      BY <1>0, <2>5, <2>9, <2>10, <2>11, <2>13, <2>14 DEF SessionInv
    <2>16. Kept
      BY <1>1, <2>12 DEF Kept, SEnded, SessionEnd, BindingEnd
    <2> QED
      BY <2>15, <2>16
  <1> QED
    BY <1>2, <1>3 DEF StartPersist

LEMMA StopRequestInv ==
  ASSUME SessionInv, StopRequest
  PROVE  SessionInv' /\ Kept
  <1>0. "stop" \in Kind /\ ses.st # "none" /\ UNCHANGED <<bnd, pass>> /\ SessionOK(ses)
    BY DEF Kind, StopRequest, SessionInv, RowsOK
  <1>1. CASE SEnded(ses) /\ Goto("stop", "done") /\ UNCHANGED ses
    BY <1>0, <1>1, NoWrite, GotoInv
  <1>2. ASSUME ~SEnded(ses), ses' = StopOf(ses), NEW b \in Live,
               api' = [api EXCEPT !["stop"] = [NoCall EXCEPT !.pc = "begin", !.b = b,
                                           !.node = bnd[b].node, !.ep = bnd[b].ep]]
        PROVE  SessionInv' /\ Kept
    <2>1. SMove(ses, ses')
      BY <1>0, <1>2, WalksS
    <2> QED
      BY <1>0, <1>2, <2>1, SaveSession, BeginCall
  <1> QED
    BY <1>1, <1>2 DEF StopRequest

LEMMA ControlRequestInv ==
  ASSUME SessionInv, ControlRequest
  PROVE  SessionInv' /\ Kept
  <1>0. "control" \in Kind /\ ses.st # "none" /\ UNCHANGED <<ses, bnd, pass>>
    BY DEF Kind, ControlRequest
  <1> QED
    BY <1>0, NoWrite, BeginCall DEF ControlRequest

LEMMA BeginInv ==
  ASSUME SessionInv, NEW k \in Kind, Begin(k)
  PROVE  SessionInv' /\ Kept
  <1>0. api[k].pc = "begin" /\ UNCHANGED <<ses, bnd, pass>>
    BY DEF Begin
  <1> QED
    BY <1>0, NoWrite, GotoInv DEF Begin

LEMMA ExecInv ==
  ASSUME SessionInv, NEW k \in Kind, Exec(k)
  PROVE  SessionInv' /\ Kept
  <1>0. api[k].pc = "exec" /\ UNCHANGED <<ses, bnd, pass>>
    BY DEF Exec, dbVars
  <1>1. PICK res \in Result : api' = [api EXCEPT ![k].pc = "settle", ![k].res = res]
    BY DEF Exec
  <1> DEFINE c == [api[k] EXCEPT !.pc = "settle", !.res = res]
  <1>2. api[k] \in Call /\ api \in [Kind -> Call] /\ api[k].b \in Binding /\ ses.st # "none" /\ bnd[api[k].b].st # "none"
    BY <1>0, CallFacts DEF SessionInv
  <1>3. c \in Call
    BY <1>2, Zenon DEF Call
  <1>4. c.pc = "settle" /\ c.b = api[k].b
    BY <1>2 DEF Call
  <1>5. api' = [api EXCEPT ![k] = c]
    BY <1>1, <1>2
  <1> HIDE DEF c
  <1>6. CallOK(c, ses', bnd')
    BY <1>0, <1>2, <1>3, <1>4 DEF CallOK
  <1> QED
    BY <1>0, <1>4, <1>5, <1>6, NoWrite, CallMoves

\* What the transactions that end a command write.
LEMMA SettleInv ==
  ASSUME SessionInv, UNCHANGED pass, NEW k \in Kind, api[k].pc = "settle",
         NEW pc \in {"drop", "done"}, Goto(k, pc),
         SMove(ses, ses'), NEW q, BMove(bnd[api[k].b], q), bnd' = [bnd EXCEPT ![api[k].b] = q]
  PROVE  SessionInv' /\ Kept
  BY CallFacts, SaveOne, GotoInv

LEMMA MayBecomeActive ==
  ASSUME NEW st, "Active" \in BNext(st)
  PROVE  st \notin {"none"} \cup BindingEnd
  BY DEF BNext, BindingEnd

LEMMA RolledBackInv ==
  ASSUME SessionInv, NEW k \in Kind, NEW ok, RolledBack(k, ok), UNCHANGED pass
  PROVE  SessionInv' /\ Kept
  BY NoWrite, GotoInv DEF RolledBack, dbVars

LEMMA StartSettleInv ==
  ASSUME SessionInv, StartSettle
  PROVE  SessionInv' /\ Kept
  <1> DEFINE c == api["start"]
             r == bnd[c.b]
             begun == ses.st = "Allocating" /\ "Active" \in BNext(r.st)
             open == ~SEnded(ses) /\ BLive(r) /\ ~Ended("start")
  <1>0. "start" \in Kind /\ c.pc = "settle" /\ UNCHANGED pass
    BY DEF Kind, StartSettle
  <1>1. SessionOK(ses) /\ ses.st # "none" /\ RowOK(r) /\ c.res \in Result
    BY <1>0, CallFacts DEF Call
  <1>2. ASSUME begun
        PROVE  /\ SMove(ses, Through(ses)) /\ SMove(ses, STo(ses, "Inviting"))
               /\ BMove(r, BTo(r, "Active"))
    <2>1. BLive(r) /\ ~SEnded(ses)
      BY <1>2, MayBecomeActive DEF BLive, SEnded, SessionEnd
    <2> QED
      BY <1>1, <2>1, WalksS, WalksB
  <1>3. SMove(ses, FailedOf(ses)) /\ BMove(r, BFailedOf(r))
    BY <1>1, WalksS, WalksB
  <1>4. \/ \E ok \in BOOLEAN : RolledBack("start", ok)
        \/ begun /\ ses' = Through(ses) /\ bnd' = [bnd EXCEPT ![c.b] = BTo(r, "Active")] /\ Goto("start", "done")
        \/ begun /\ ses' = STo(ses, "Inviting") /\ bnd' = [bnd EXCEPT ![c.b] = BTo(r, "Active")]
           /\ Goto("start", "done")
        \/ ses' = FailedOf(ses) /\ bnd' = [bnd EXCEPT ![c.b] = BFailedOf(r)] /\ Goto("start", "drop")
    <2>1. CASE c.res = "Completed"
      BY <2>1 DEF StartSettle
    <2>2. CASE c.res \in {"Accepted", "Unknown"}
      BY <2>2 DEF StartSettle
    <2>3. CASE c.res = "Failed"
      BY <2>3 DEF StartSettle
    <2> QED
      BY <1>1, <2>1, <2>2, <2>3 DEF Result
  <1> HIDE DEF begun
  <1>5. CASE \E ok \in BOOLEAN : RolledBack("start", ok)
    BY <1>0, <1>5, RolledBackInv
  <1>6. CASE begun /\ ses' = Through(ses) /\ bnd' = [bnd EXCEPT ![c.b] = BTo(r, "Active")] /\ Goto("start", "done")
    BY <1>0, <1>2, <1>6, SettleInv
  <1>7. CASE begun /\ ses' = STo(ses, "Inviting") /\ bnd' = [bnd EXCEPT ![c.b] = BTo(r, "Active")]
             /\ Goto("start", "done")
    BY <1>0, <1>2, <1>7, SettleInv
  <1>8. CASE ses' = FailedOf(ses) /\ bnd' = [bnd EXCEPT ![c.b] = BFailedOf(r)] /\ Goto("start", "drop")
    BY <1>0, <1>3, <1>8, SettleInv
  <1> QED
    BY <1>4, <1>5, <1>6, <1>7, <1>8

LEMMA StopSettleInv ==
  ASSUME SessionInv, StopSettle
  PROVE  SessionInv' /\ Kept
  <1> DEFINE c == api["stop"]
             r == bnd[c.b]
             half == ~SEnded(ses) /\ ses.st # "Stopping"
             pc == IF c.res = "Unknown" THEN "drop" ELSE "done"
  <1>0. "stop" \in Kind /\ c.pc = "settle" /\ UNCHANGED pass
    BY DEF Kind, StopSettle
  <1>1. SessionOK(ses) /\ ses.st # "none" /\ RowOK(r) /\ c.res \in Result
    BY <1>0, CallFacts DEF Call
  <1>2. /\ SMove(ses, FailedOf(ses)) /\ SMove(ses, StoppedOf(ses))
        /\ SMove(ses, IF half THEN StopOf(ses) ELSE ses)
        /\ BMove(r, BFailedOf(r)) /\ BMove(r, ReleasedOf(r)) /\ BMove(r, ReleasingOf(r))
    <2>1. SMove(ses, ses)
      BY DEF SMove
    <2> QED
      BY <1>1, <2>1, WalksS, WalksB
  <1>3. pc \in {"drop", "done"}
    OBVIOUS
  <1>4. \/ \E ok \in BOOLEAN : RolledBack("stop", ok)
        \/ ses' = StoppedOf(ses) /\ bnd' = [bnd EXCEPT ![c.b] = ReleasedOf(r)] /\ Goto("stop", "drop")
        \/ /\ ses' = (IF half THEN StopOf(ses) ELSE ses)
           /\ bnd' = [bnd EXCEPT ![c.b] = ReleasingOf(r)] /\ Goto("stop", pc)
        \/ ses' = FailedOf(ses) /\ bnd' = [bnd EXCEPT ![c.b] = BFailedOf(r)] /\ Goto("stop", "drop")
    <2>1. CASE c.res = "Completed"
      BY <2>1 DEF StopSettle
    <2>2. CASE c.res \in {"Accepted", "Unknown"}
      BY <2>2 DEF StopSettle
    <2>3. CASE c.res = "Failed"
      BY <2>3 DEF StopSettle
    <2> QED
      BY <1>1, <2>1, <2>2, <2>3 DEF Result
  <1> HIDE DEF half, pc
  <1>5. CASE \E ok \in BOOLEAN : RolledBack("stop", ok)
    BY <1>0, <1>5, RolledBackInv
  <1>6. CASE ses' = StoppedOf(ses) /\ bnd' = [bnd EXCEPT ![c.b] = ReleasedOf(r)] /\ Goto("stop", "drop")
    BY <1>0, <1>2, <1>6, SettleInv
  <1>7. CASE /\ ses' = (IF half THEN StopOf(ses) ELSE ses)
             /\ bnd' = [bnd EXCEPT ![c.b] = ReleasingOf(r)] /\ Goto("stop", pc)
    BY <1>0, <1>2, <1>3, <1>7, SettleInv
  <1>8. CASE ses' = FailedOf(ses) /\ bnd' = [bnd EXCEPT ![c.b] = BFailedOf(r)] /\ Goto("stop", "drop")
    BY <1>0, <1>2, <1>8, SettleInv
  <1> QED
    BY <1>4, <1>5, <1>6, <1>7, <1>8

LEMMA ControlSettleInv ==
  ASSUME SessionInv, ControlSettle
  PROVE  SessionInv' /\ Kept
  <1>0. "control" \in Kind /\ Goto("control", "done") /\ UNCHANGED <<ses, bnd, pass>>
    BY DEF Kind, ControlSettle
  <1> QED
    BY <1>0, NoWrite, GotoInv

LEMMA DropInv ==
  ASSUME SessionInv, NEW k \in Kind, Drop(k)
  PROVE  SessionInv' /\ Kept
  <1>0. Goto(k, "done") /\ UNCHANGED <<ses, bnd, pass>>
    BY DEF Drop, dbVars
  <1> QED
    BY <1>0, NoWrite, GotoInv

\* Steps of the nodes, of deadlines and of event streams.
LEMMA NothingWritten ==
  ASSUME SessionInv, UNCHANGED <<ses, bnd, api, pass>>
  PROVE  SessionInv' /\ Kept
  BY NoWrite, OnlyRows

-----------------------------------------------------------------------------
\* Passes.

\* A row that has the revision of a pass's copy is that copy.
LEMMA CopyFacts ==
  ASSUME SessionInv, NEW r \in Pass, pass[r].pc \in HasCopies
  PROVE  LET p == pass[r]
         IN  /\ p \in PassState /\ p.s \in Session /\ p.br \in BindingRow
             /\ ses.st # "none" /\ p.s.st # "none" /\ ~SEnded(p.s)
             /\ p.b \in Binding /\ BLive(p.br) /\ bnd[p.b].st # "none"
             /\ SessionOK(ses) /\ RowOK(bnd[p.b])
             /\ SavesS(p.s) => p.s = ses
             /\ SavesB(p.b, p.br) => p.br = bnd[p.b]
  BY DEF SessionInv, RowsOK, PassOK, PassState, SavesS, SavesB

LEMMA NoPassOK ==
  ASSUME NEW s, NEW rows
  PROVE  /\ NoPass \in PassState /\ PassOK(NoPass, s, rows) /\ NoPass.pc = "idle"
         /\ NoPass.b = NoBinding /\ NoPass.nb = NoBinding
  <1>1. NoSession \in Session /\ NoBindingRow \in BindingRow
    BY DEF NoSession, NoBindingRow, Session, SessionState, BindingRow, BindingState
  <1>2. NoPass \in PassState /\ NoPass.pc = "idle" /\ NoPass.b = NoBinding /\ NoPass.nb = NoBinding
    BY <1>1 DEF NoPass, PassState, PassPc, Result, OpStatus
  <1> QED
    BY <1>2 DEF PassOK, HasCopies, HasNew, Claiming

\* The pass ends.
LEMMA EndPass ==
  ASSUME SessionInv, Moves(NoBinding), NEW r \in Pass, pass' = [pass EXCEPT ![r] = NoPass], UNCHANGED api
  PROVE  SessionInv' /\ Kept
  BY NoPassOK, PassMoves DEF Claiming

LEMMA AbortInv ==
  ASSUME SessionInv, NEW r \in Pass, Abort(r), UNCHANGED api
  PROVE  SessionInv' /\ Kept
  BY NoWrite, EndPass DEF Abort, dbVars

\* The pass has reservations to give back.
LEMMA StepDropOld ==
  ASSUME SessionInv, Moves(NoBinding), NEW r \in Pass, Step(r, "dropold"), pass[r].b \in Binding,
         UNCHANGED api
  PROVE  SessionInv' /\ Kept
  <1> DEFINE b == pass[r].b
             p == [NoPass EXCEPT !.pc = "dropold", !.b = b]
  <1>1. pass' = [pass EXCEPT ![r] = p]
    BY DEF Step
  <1>2. NoPass \in PassState
    BY NoPassOK
  <1>3. b \in Binding \cup {NoBinding}
    OBVIOUS
  <1> HIDE DEF b
  <1>4. p \in PassState
    BY <1>2, <1>3, Zenon DEF PassState, PassPc
  <1>5. p.pc = "dropold" /\ p.b = b
    BY <1>2 DEF PassState
  <1> HIDE DEF p
  <1>6. PassOK(p, ses', bnd')
    BY <1>4, <1>5 DEF PassOK, HasCopies, HasNew, Claiming, b
  <1> QED
    BY <1>1, <1>5, <1>6, PassMoves DEF Claiming

LEMMA StepDropNew ==
  ASSUME SessionInv, Moves(NoBinding), NEW r \in Pass, Step(r, "dropnew"), pass[r].b \in Binding,
         pass[r].nb \in Binding, UNCHANGED api
  PROVE  SessionInv' /\ Kept
  <1> DEFINE b == pass[r].b
             nb == pass[r].nb
             p == [NoPass EXCEPT !.pc = "dropnew", !.b = b, !.nb = nb]
  <1>1. pass' = [pass EXCEPT ![r] = p]
    BY DEF Step
  <1>2. NoPass \in PassState
    BY NoPassOK
  <1>3. b \in Binding \cup {NoBinding} /\ nb \in Binding \cup {NoBinding}
    OBVIOUS
  <1> HIDE DEF b, nb
  <1>4. p \in PassState
    BY <1>2, <1>3, Zenon DEF PassState, PassPc
  <1>5. p.pc = "dropnew" /\ p.b = b /\ p.nb = nb
    BY <1>2 DEF PassState
  <1> HIDE DEF p
  <1>6. PassOK(p, ses', bnd')
    BY <1>4, <1>5 DEF PassOK, HasCopies, HasNew, Claiming, b, nb
  <1> QED
    BY <1>1, <1>5, <1>6, PassMoves DEF Claiming

\* The pass looks on, with the copies it has.
LEMMA StepOn ==
  ASSUME SessionInv, UNCHANGED <<ses, bnd, api>>, NEW r \in Pass, pass[r].pc \in {"list", "lookup"},
         NEW pc \in {"lookup", "migrate"}, Step(r, pc)
  PROVE  SessionInv' /\ Kept
  <1> DEFINE p == [pass[r] EXCEPT !.pc = pc]
  <1>1. pass' = [pass EXCEPT ![r] = p]
    BY DEF Step
  <1>2. pass[r] \in PassState /\ PassOK(pass[r], ses, bnd)
    BY DEF SessionInv
  <1>3. p \in PassState
    BY <1>2, Zenon DEF PassState, PassPc
  <1>4. p.pc = pc /\ p.s = pass[r].s /\ p.b = pass[r].b /\ p.br = pass[r].br
    BY <1>2 DEF PassState
  <1> HIDE DEF p
  <1>5. PassOK(p, ses, bnd)
    BY <1>2, <1>3, <1>4 DEF PassOK, HasCopies, HasNew, Claiming
  <1> QED
    BY <1>1, <1>4, <1>5, NoWrite, PassMoves DEF Claiming

LEMMA FailSessionInv ==
  ASSUME SessionInv, NEW r \in Pass, pass[r].pc \in HasCopies, FailSession(r), UNCHANGED api
  PROVE  SessionInv' /\ Kept
  <1> DEFINE p == pass[r]
  <1>1. CASE Abort(r)
    BY <1>1, AbortInv
  <1>2. CASE /\ SavesS(p.s) /\ SavesB(p.b, p.br)
             /\ ses' = FailedOf(p.s) /\ bnd' = [bnd EXCEPT ![p.b] = BFailedOf(p.br)]
             /\ Step(r, "dropold")
    <2>1. /\ p.s = ses /\ p.br = bnd[p.b] /\ p.b \in Binding
          /\ SessionOK(ses) /\ ses.st # "none" /\ RowOK(bnd[p.b])
      BY <1>2, CopyFacts
    <2>2. SMove(ses, ses') /\ BMove(bnd[p.b], BFailedOf(bnd[p.b]))
      BY <1>2, <2>1, WalksS, WalksB
    <2>3. Moves(NoBinding)
      BY <1>2, <2>1, <2>2, SaveOne
    <2> QED
      BY <1>2, <2>1, <2>3, StepDropOld
  <1> QED
    BY <1>1, <1>2 DEF FailSession

LEMMA NewestFacts ==
  ASSUME SessionInv, Live # {}
  PROVE  /\ Newest \in Binding /\ BLive(bnd[Newest]) /\ RowOK(bnd[Newest]) /\ bnd[Newest].st # "none"
         /\ SessionOK(ses) /\ ses.st # "none"
  <1>1. PICK b \in Live : TRUE
    OBVIOUS
  <1>2. b \in Binding /\ \A c \in Live : c = b
    BY DEF Live, SessionInv, RowsOK
  <1>3. b \in Nat
    BY <1>2, MediaNodesAssumption
  <1>4. \A c \in Live : c <= b
    BY <1>2, <1>3
  <1>5. Newest \in Live
    BY <1>1, <1>4 DEF Newest
  <1> QED
    BY <1>5 DEF Live, BLive, SessionInv, RowsOK

LEMMA PassScanInv ==
  ASSUME SessionInv, NEW r \in Pass, PassScan(r)
  PROVE  SessionInv' /\ Kept
  <1>0. ses.st # "none" /\ UNCHANGED api /\ pass[r] \in PassState
    BY DEF PassScan, SessionInv
  <1>1. CASE Live = {} /\ Step(r, "orphan") /\ UNCHANGED dbVars
    <2> DEFINE p == [pass[r] EXCEPT !.pc = "orphan"]
    <2>1. pass' = [pass EXCEPT ![r] = p]
      BY <1>1 DEF Step
    <2>2. p \in PassState
      BY <1>0, Zenon DEF PassState, PassPc
    <2>3. p.pc = "orphan"
      BY <1>0 DEF PassState
    <2> HIDE DEF p
    <2>4. PassOK(p, ses', bnd')
      BY <2>2, <2>3 DEF PassOK, HasCopies, HasNew, Claiming
    <2> QED
      BY <1>0, <1>1, <2>1, <2>3, <2>4, NoWrite, PassMoves DEF dbVars, Claiming
  <1>2. CASE Live # {}
    <2> DEFINE b == Newest
    <2>0. /\ b \in Binding /\ BLive(bnd[b]) /\ RowOK(bnd[b]) /\ bnd[b].st # "none"
          /\ SessionOK(ses) /\ NoPass \in PassState
      BY <1>2, NewestFacts, NoPassOK
    <2>1. CASE ses.stop \/ SEnded(ses)
      <3> DEFINE p == [NoPass EXCEPT !.pc = "orphan", !.b = b]
      <3>1. /\ ses' = IF SEnded(ses) THEN ses ELSE StopOf(ses)
            /\ bnd' = [bnd EXCEPT ![b] = ReleasedOf(bnd[b])]
            /\ pass' = [pass EXCEPT ![r] = p]
        BY <1>2, <2>1 DEF PassScan
      <3> HIDE DEF b
      <3>2. p \in PassState
        BY <2>0, Zenon DEF PassState, PassPc
      <3>3. p.pc = "orphan"
        BY <2>0 DEF PassState
      <3> HIDE DEF p
      <3>4. PassOK(p, ses', bnd')
        BY <3>2, <3>3 DEF PassOK, HasCopies, HasNew, Claiming
      <3>5. SMove(ses, ses') /\ BMove(bnd[b], ReleasedOf(bnd[b]))
        <4>1. SMove(ses, ses)
          BY DEF SMove
        <4> QED
          BY <1>0, <2>0, <3>1, <4>1, WalksS, WalksB
      <3>6. Moves(NoBinding)
        BY <2>0, <3>1, <3>5, SaveOne
      <3> QED
        BY <1>0, <3>1, <3>3, <3>4, <3>6, PassMoves DEF Claiming
    <2>2. CASE ~(ses.stop \/ SEnded(ses))
      <3> DEFINE p == [NoPass EXCEPT !.s = ses, !.b = b, !.br = bnd[b], !.pc = "list"]
      <3>1. pass' = [pass EXCEPT ![r] = p] /\ UNCHANGED <<ses, bnd>>
        BY <1>2, <2>2 DEF PassScan, dbVars
      <3>2. ses \in Session /\ bnd[b] \in BindingRow
        BY <2>0 DEF SessionOK, RowOK
      <3>3. ses.rev \in Nat /\ bnd[b].rev \in Nat
        BY <3>2 DEF Session, BindingRow
      <3> HIDE DEF b
      <3>4. p \in PassState
        BY <2>0, <3>2, Zenon DEF PassState, PassPc
      <3>5. p.pc = "list" /\ p.s = ses /\ p.b = b /\ p.br = bnd[b]
        BY <2>0 DEF PassState
      <3> HIDE DEF p
      <3>6. PassOK(p, ses, bnd)
        BY <1>0, <2>0, <2>2, <3>3, <3>4, <3>5 DEF PassOK, HasCopies, HasNew, Claiming
      <3> QED
        BY <1>0, <3>1, <3>5, <3>6, NoWrite, PassMoves DEF Claiming
    <2> QED
      BY <2>1, <2>2
  <1> QED
    BY <1>1, <1>2 DEF PassScan

LEMMA PassOrphansDoneInv ==
  ASSUME SessionInv, NEW r \in Pass, PassOrphansDone(r)
  PROVE  SessionInv' /\ Kept
  <1>1. UNCHANGED <<ses, bnd, api>> /\ pass[r] \in PassState
    BY DEF PassOrphansDone, dbVars, SessionInv
  <1>2. pass[r].b # NoBinding => pass[r].b \in Binding
    BY <1>1 DEF PassState
  <1> QED
    BY <1>1, <1>2, NoWrite, StepDropOld, AbortInv DEF PassOrphansDone

LEMMA PassListInv ==
  ASSUME SessionInv, NEW r \in Pass, PassList(r)
  PROVE  SessionInv' /\ Kept
  <1> DEFINE p == pass[r]
  <1>0. p.pc = "list" /\ p.pc \in HasCopies /\ UNCHANGED api
    BY DEF PassList, HasCopies
  <1>1. CASE UNCHANGED dbVars /\ \E pc \in {"lookup", "migrate"} : Step(r, pc)
    BY <1>0, <1>1, StepOn DEF dbVars
  <1>2. CASE Abort(r)
    BY <1>0, <1>2, AbortInv
  <1>3. CASE FailSession(r)
    BY <1>0, <1>3, FailSessionInv
  <1>4. CASE /\ Converges(p.s, p.b, p.br)
             /\ ses' = IF Through(p.s) # p.s THEN Through(p.s) ELSE ses
             /\ bnd' = IF Converged(p.br) # p.br THEN [bnd EXCEPT ![p.b] = Converged(p.br)] ELSE bnd
             /\ pass' = [pass EXCEPT ![r] = NoPass]
    <2>1. SMove(ses, ses')
      <3>1. CASE Through(p.s) # p.s
        <4>1. p.s = ses /\ SessionOK(ses) /\ ses.st # "none"
          BY <1>0, <1>4, <3>1, CopyFacts DEF Converges
        <4> QED
          BY <1>4, <3>1, <4>1, WalksS
      <3>2. CASE Through(p.s) = p.s
        BY <1>4, <3>2 DEF SMove
      <3> QED
        BY <3>1, <3>2
    <2>2. Moves(NoBinding)
      <3>1. CASE Converged(p.br) # p.br
        <4>1. p.br.st \in {"Reserved", "NeedsVerification"}
          BY <3>1 DEF Converged
        <4>2. p.br = bnd[p.b] /\ p.b \in Binding /\ RowOK(bnd[p.b])
          BY <1>0, <1>4, <4>1, CopyFacts DEF Converges
        <4>3. BMove(bnd[p.b], Converged(bnd[p.b]))
          BY <4>2, WalksB
        <4> QED
          BY <1>4, <2>1, <3>1, <4>2, <4>3, SaveOne
      <3>2. CASE Converged(p.br) = p.br
        BY <1>4, <2>1, <3>2, SaveSession
      <3> QED
        BY <3>1, <3>2
    <2> QED
      BY <1>0, <1>4, <2>2, EndPass
  <1> QED
    BY <1>1, <1>2, <1>3, <1>4 DEF PassList

LEMMA PassLookupInv ==
  ASSUME SessionInv, NEW r \in Pass, PassLookup(r)
  PROVE  SessionInv' /\ Kept
  <1> DEFINE p == pass[r]
  <1>0. p.pc = "lookup" /\ p.pc \in HasCopies /\ UNCHANGED api
    BY DEF PassLookup, HasCopies
  <1>1. CASE Step(r, "migrate") /\ UNCHANGED dbVars
    BY <1>0, <1>1, StepOn DEF dbVars
  <1>2. CASE Abort(r)
    BY <1>0, <1>2, AbortInv
  <1>3. CASE /\ SavesB(p.b, p.br) /\ bnd' = [bnd EXCEPT ![p.b] = BTo(p.br, "NeedsVerification")]
             /\ pass' = [pass EXCEPT ![r] = NoPass] /\ UNCHANGED ses
    <2>1. p.br = bnd[p.b] /\ p.b \in Binding /\ RowOK(bnd[p.b]) /\ BLive(bnd[p.b])
      BY <1>0, <1>3, CopyFacts
    <2>2. BMove(bnd[p.b], BTo(bnd[p.b], "NeedsVerification")) /\ SMove(ses, ses')
      BY <1>3, <2>1, WalksB DEF SMove
    <2>3. Moves(NoBinding)
      BY <1>3, <2>1, <2>2, SaveOne
    <2> QED
      BY <1>0, <1>3, <2>3, EndPass
  <1> QED
    BY <1>1, <1>2, <1>3 DEF PassLookup

\* migrate_or_fail: the identity of the new binding is nobody else's.
\* A pass that has named its binding and not created it.
LEMMA ClaimStep ==
  ASSUME SessionInv, UNCHANGED <<ses, bnd, api>>, NEW r \in Pass, pass[r].pc \in Claiming,
         NEW p \in PassState, pass' = [pass EXCEPT ![r] = p],
         p.pc \in {"schedule", "reserve", "bump"}, p.pc # "schedule" => p.node \in Node,
         p.s = pass[r].s, p.b = pass[r].b, p.br = pass[r].br, p.nb = pass[r].nb
  PROVE  SessionInv' /\ Kept
  <1>1. PassOK(pass[r], ses, bnd)
    BY DEF SessionInv
  <1>2. PassOK(p, ses, bnd)
    BY <1>1 DEF PassOK, HasCopies, HasNew, Claiming
  <1>3. \A q \in Pass \ {r} : p.pc \in Claiming /\ pass[q].pc \in Claiming => p.nb # pass[q].nb
    BY DEF SessionInv, OwnBindings, Claiming
  <1> QED
    BY <1>2, <1>3, NoWrite, PassMoves

LEMMA PassMigrateInv ==
  ASSUME SessionInv, NEW r \in Pass, PassMigrate(r)
  PROVE  SessionInv' /\ Kept
  <1>0. pass[r].pc = "migrate" /\ pass[r].pc \in HasCopies /\ UNCHANGED api
    BY DEF PassMigrate, HasCopies
  <1>1. CASE FailSession(r)
    BY <1>0, <1>1, FailSessionInv
  <1>2. ASSUME NEW b \in Binding, Fresh(b), UNCHANGED dbVars,
               pass' = [pass EXCEPT ![r].pc = "schedule", ![r].nb = b]
        PROVE  SessionInv' /\ Kept
    <2> DEFINE p == [pass[r] EXCEPT !.pc = "schedule", !.nb = b]
    <2>1. pass[r] \in PassState /\ PassOK(pass[r], ses, bnd) /\ pass \in [Pass -> PassState]
      BY DEF SessionInv
    <2>3. pass' = [pass EXCEPT ![r] = p]
      BY <1>2, <2>1
    <2>4. p \in PassState
      BY <2>1, Zenon DEF PassState, PassPc
    <2>5. /\ p.pc = "schedule" /\ p.nb = b
          /\ p.s = pass[r].s /\ p.b = pass[r].b /\ p.br = pass[r].br
      BY <2>1 DEF PassState
    <2> HIDE DEF p
    <2>6. bnd[b].st = "none" /\ b \notin Held
      BY <1>2 DEF Fresh, Unused
    <2>7. PassOK(p, ses, bnd)
      BY <1>0, <2>1, <2>4, <2>5, <2>6 DEF PassOK, HasCopies, HasNew, Claiming
    <2>8. \A q \in Pass : p.nb # pass[q].nb
      BY <2>5, <2>6 DEF Held
    <2>9. UNCHANGED <<ses, bnd>>
      BY <1>2 DEF dbVars
    <2> QED
      BY <1>0, <2>3, <2>7, <2>8, <2>9, NoWrite, PassMoves
  <1> QED
    BY <1>1, <1>2 DEF PassMigrate

LEMMA PassScheduleInv ==
  ASSUME SessionInv, NodesInv, NEW r \in Pass, PassSchedule(r)
  PROVE  SessionInv' /\ Kept
  <1>0. pass[r].pc = "schedule" /\ pass[r].pc \in HasCopies /\ pass[r].pc \in Claiming /\ UNCHANGED api
    BY DEF PassSchedule, HasCopies, HasNew, Claiming
  <1>1. CASE FailSession(r)
    BY <1>0, <1>1, FailSessionInv
  <1>2. pass[r] \in PassState /\ pass \in [Pass -> PassState] /\ pass[r].tried \in SUBSET Node
    BY DEF SessionInv, PassState
  <1>3. ASSUME NEW n \in Candidates(pass[r].tried), UNCHANGED dbVars,
               pass' = [pass EXCEPT ![r].tried = @ \cup {n}]
        PROVE  SessionInv' /\ Kept
    <2> DEFINE t == pass[r].tried \cup {n}
               p == [pass[r] EXCEPT !.tried = t]
    <2>1. t \in SUBSET Node
      BY <1>2, CandidatesAreNodes
    <2>2. pass' = [pass EXCEPT ![r] = p]
      BY <1>2, <1>3
    <2> HIDE DEF t
    <2>3. p \in PassState
      BY <1>2, <2>1, Zenon DEF PassState
    <2>4. /\ p.pc = "schedule" /\ p.nb = pass[r].nb
          /\ p.s = pass[r].s /\ p.b = pass[r].b /\ p.br = pass[r].br
      BY <1>0, <1>2 DEF PassState
    <2> HIDE DEF p
    <2>5. UNCHANGED <<ses, bnd>>
      BY <1>3 DEF dbVars
    <2> QED
      BY <1>0, <2>2, <2>3, <2>4, <2>5, ClaimStep
  <1>4. ASSUME NEW n \in Candidates(pass[r].tried), UNCHANGED dbVars,
               pass' = [pass EXCEPT ![r] = [pass[r] EXCEPT !.pc = "reserve", !.node = n, !.ep = reg[n].node.ep]]
        PROVE  SessionInv' /\ Kept
    <2> DEFINE ep == reg[n].node.ep
               p == [pass[r] EXCEPT !.pc = "reserve", !.node = n, !.ep = ep]
    <2>1. n \in Node
      BY CandidatesAreNodes
    <2>2. ep \in Nat
      BY <2>1 DEF NodesInv, NodeEntry, NodeRow
    <2>3. pass' = [pass EXCEPT ![r] = p]
      BY <1>4
    <2> HIDE DEF ep
    <2>4. p \in PassState
      BY <1>2, <2>1, <2>2, Zenon DEF PassState, PassPc
    <2>5. /\ p.pc = "reserve" /\ p.nb = pass[r].nb /\ p.node = n
          /\ p.s = pass[r].s /\ p.b = pass[r].b /\ p.br = pass[r].br
      BY <1>2 DEF PassState
    <2> HIDE DEF p
    <2>6. UNCHANGED <<ses, bnd>>
      BY <1>4 DEF dbVars
    <2> QED
      BY <1>0, <2>1, <2>3, <2>4, <2>5, <2>6, ClaimStep
  <1> QED
    BY <1>1, <1>3, <1>4 DEF PassSchedule

LEMMA PassReserveInv ==
  ASSUME SessionInv, NEW r \in Pass, PassReserve(r)
  PROVE  SessionInv' /\ Kept
  <1> DEFINE c == pass[r]
  <1>0. c.pc = "reserve" /\ c.pc \in Claiming /\ UNCHANGED <<ses, bnd, api>>
    BY DEF PassReserve, Claiming, dbVars
  <1>1. c \in PassState /\ PassOK(c, ses, bnd)
    BY DEF SessionInv
  <1>2. c.node \in Node /\ c.tried \in SUBSET Node
    BY <1>0, <1>1 DEF PassOK, HasNew, Claiming, PassState
  <1>3. CASE pass' = [pass EXCEPT ![r] = [c EXCEPT !.pc = "bump", !.tried = {}]]
    <2> DEFINE p == [c EXCEPT !.pc = "bump", !.tried = {}]
    <2>1. p \in PassState
      <3>1. {} \in SUBSET Node
        OBVIOUS
      <3> QED
        BY <1>1, <3>1, Zenon DEF PassState, PassPc
    <2>2. p.pc = "bump" /\ p.nb = c.nb /\ p.node = c.node /\ p.s = c.s /\ p.b = c.b /\ p.br = c.br
      BY <1>1 DEF PassState
    <2>3. pass' = [pass EXCEPT ![r] = p]
      BY <1>3
    <2> HIDE DEF p
    <2> QED
      BY <1>0, <1>2, <2>1, <2>2, <2>3, ClaimStep
  <1>4. CASE pass' = [pass EXCEPT ![r] = [c EXCEPT !.pc = "schedule", !.tried = @ \cup {c.node}]]
    <2> DEFINE t == c.tried \cup {c.node}
               p == [c EXCEPT !.pc = "schedule", !.tried = t]
    <2>1. t \in SUBSET Node
      BY <1>2
    <2>2. pass' = [pass EXCEPT ![r] = p]
      BY <1>1, <1>4 DEF PassState
    <2> HIDE DEF t
    <2>3. p \in PassState
      BY <1>1, <2>1, Zenon DEF PassState, PassPc
    <2>4. p.pc = "schedule" /\ p.nb = c.nb /\ p.s = c.s /\ p.b = c.b /\ p.br = c.br
      BY <1>1 DEF PassState
    <2> HIDE DEF p
    <2> QED
      BY <1>0, <2>2, <2>3, <2>4, ClaimStep
  <1> QED
    BY <1>3, <1>4 DEF PassReserve

\* bump_generation.
LEMMA PassBumpInv ==
  ASSUME SessionInv, NEW r \in Pass, PassBump(r)
  PROVE  SessionInv' /\ Kept
  <1> DEFINE s == [pass[r].s EXCEPT !.rev = pass[r].s.rev + 1]
             p == [pass[r] EXCEPT !.pc = "create", !.s = s]
  <1>0. pass[r].pc = "bump" /\ pass[r].pc \in HasCopies /\ UNCHANGED api
    BY DEF PassBump, HasCopies, HasNew, Claiming
  <1>1. CASE Abort(r)
    BY <1>0, <1>1, AbortInv
  <1>2. CASE /\ SavesS(pass[r].s) /\ ses' = s /\ UNCHANGED bnd
             /\ pass' = [pass EXCEPT ![r].pc = "create", ![r].s = s]
    <2>1. /\ pass[r].s = ses /\ ses \in Session /\ ses.st # "none" /\ pass[r] \in PassState
          /\ PassOK(pass[r], ses, bnd) /\ pass \in [Pass -> PassState] /\ ~SEnded(ses)
      BY <1>0, <1>2, CopyFacts DEF SessionInv
    <2>2. ses.rev \in Nat /\ ses.rev + 1 \in Nat
      BY <2>1 DEF Session
    <2>3. s \in Session
      BY <2>1, <2>2, Zenon DEF Session
    <2>4. s.rev = ses.rev + 1 /\ s.st = ses.st
      BY <2>1 DEF Session
    <2>5. pass' = [pass EXCEPT ![r] = p]
      BY <1>2, <2>1
    <2> HIDE DEF s
    <2>6. p \in PassState
      BY <2>1, <2>3, Zenon DEF PassState, PassPc
    <2>7. /\ p.pc = "create" /\ p.s = s /\ p.b = pass[r].b /\ p.br = pass[r].br
          /\ p.nb = pass[r].nb /\ p.node = pass[r].node
      BY <2>1 DEF PassState
    <2> HIDE DEF p
    <2>8. SMove(ses, ses')
      BY <1>2, <2>1, <2>2, <2>3, <2>4 DEF SMove, SessionOK
    <2>9. PassOK(p, ses', bnd')
      <3>1. s.rev <= s.rev
        BY <2>2, <2>4
      <3>2. ~SEnded(s) /\ s.st # "none"
        BY <2>1, <2>4 DEF SEnded
      <3> QED
        BY <1>0, <1>2, <2>1, <2>6, <2>7, <3>1, <3>2 DEF PassOK, HasCopies, HasNew, Claiming
    <2>10. \A q \in Pass \ {r} : p.pc \in Claiming /\ pass[q].pc \in Claiming
             => p.nb # pass[q].nb
      BY <1>0, <2>7 DEF SessionInv, OwnBindings, Claiming
    <2>11. Moves(NoBinding)
      BY <1>2, <2>8, SaveSession
    <2>12. UNCHANGED api
      BY <1>0
    <2> QED
      BY <2>12, <2>5, <2>9, <2>10, <2>11, PassMoves
  <1> QED
    BY <1>1, <1>2 DEF PassBump

\* dispatch_reconnect_command: the old binding fails when the new one appears.
LEMMA PassCreateInv ==
  ASSUME SessionInv, NEW r \in Pass, PassCreate(r)
  PROVE  SessionInv' /\ Kept
  <1> DEFINE p == pass[r]
             new == [st |-> "Reserved", rev |-> 0, node |-> p.node, ep |-> p.ep]
             q == [pass[r] EXCEPT !.pc = "begin", !.op = "Pending"]
  <1>0. p.pc = "create" /\ p.pc \in HasCopies /\ p.pc \in HasNew /\ UNCHANGED api
    BY DEF PassCreate, HasCopies, HasNew, Claiming
  <1>00. /\ p \in PassState /\ PassOK(p, ses, bnd) /\ pass \in [Pass -> PassState]
         /\ p.b \in Binding /\ p.nb \in Binding /\ p.node \in Node /\ bnd[p.nb].st = "none"
         /\ bnd[p.b].st # "none" /\ RowOK(bnd[p.b]) /\ bnd \in [Binding -> BindingRow]
    BY <1>0, CopyFacts DEF SessionInv, PassOK, RowsOK, Claiming, HasNew
  <1>1. CASE Step(r, "dropold") /\ UNCHANGED dbVars
    BY <1>0, <1>00, <1>1, NoWrite, StepDropOld DEF dbVars
  <1>2. CASE /\ SavesB(p.b, p.br)
             /\ bnd' = [bnd EXCEPT ![p.b] = BFailedOf(p.br), ![p.nb] = new]
             /\ pass' = [pass EXCEPT ![r].pc = "begin", ![r].op = "Pending"]
             /\ UNCHANGED ses
    <2> DEFINE old == BFailedOf(bnd[p.b])
    <2>1. p.br = bnd[p.b] /\ BLive(bnd[p.b]) /\ p.b # p.nb
      BY <1>0, <1>00, <1>2, CopyFacts
    <2>2. new \in BindingRow /\ RowOK(new) /\ new.st = "Reserved"
      BY <1>00 DEF BindingRow, RowOK, BindingState, PassState
    <2>3. BMove(bnd[p.b], old) /\ ~BLive(old) /\ old.st # "none" /\ old = BTo(bnd[p.b], "Failed")
      BY <1>00, <2>1, WalksB DEF BFailedOf
    <2>4. old \in BindingRow /\ RowOK(old) /\ bnd[p.b].rev \in Nat /\ old.rev = bnd[p.b].rev + 1
      <3>1. bnd[p.b] \in BindingRow /\ "Failed" \in BindingState \ {"none"}
        BY <1>00 DEF RowOK, BindingState, BindingEnd
      <3>2. BTo(bnd[p.b], "Failed") \in BindingRow /\ BTo(bnd[p.b], "Failed").rev = bnd[p.b].rev + 1
        BY <3>1, BToFacts
      <3>3. bnd[p.b].rev \in Nat
        BY <3>1 DEF BindingRow
      <3>4. RowOK(old)
        BY <1>00, <2>3 DEF BMove
      <3> QED
        BY <2>3, <3>2, <3>3, <3>4
    <2>5. bnd' = [bnd EXCEPT ![p.b] = old, ![p.nb] = new]
      BY <1>2, <2>1
    <2>6. pass' = [pass EXCEPT ![r] = q]
      BY <1>2, <1>00
    <2>7. q \in PassState
      BY <1>00, Zenon DEF PassState, PassPc, OpStatus
    <2>8. /\ q.pc = "begin" /\ q.s = p.s /\ q.b = p.b /\ q.br = p.br
          /\ q.nb = p.nb /\ q.node = p.node
      BY <1>00 DEF PassState
    <2> HIDE DEF p, new, q, old
    <2>9. /\ bnd' \in [Binding -> BindingRow] /\ bnd'[p.nb] = new /\ bnd'[p.b] = old
          /\ \A b \in Binding \ {p.b, p.nb} : bnd'[b] = bnd[b]
      BY <1>00, <2>1, <2>2, <2>4, <2>5
    <2>10. Moves(p.nb)
      BY <1>2, <1>00, <2>2, <2>3, <2>9 DEF Moves, SMove, BMove
    <2>11. \A b \in Binding : BLive(bnd'[b]) => b = p.nb
      <3> SUFFICES ASSUME NEW b \in Binding, BLive(bnd'[b]), b # p.nb PROVE FALSE
        OBVIOUS
      <3>1. CASE b = p.b
        BY <2>3, <2>9, <3>1
      <3>2. CASE b # p.b
        <4>1. BLive(bnd[b])
          BY <2>9, <3>2
        <4> QED
          BY <1>00, <2>1, <3>2, <4>1 DEF SessionInv, RowsOK
      <3> QED
        BY <3>1, <3>2
    <2>12. RowsOK(ses', bnd')
      <3>1. \A b \in Binding : RowOK(bnd'[b])
        BY <2>2, <2>4, <2>9 DEF SessionInv, RowsOK
      <3>2. ses'.st # "none" /\ SessionOK(ses')
        BY <1>0, <1>2, CopyFacts DEF p
      <3> QED
        BY <2>9, <2>11, <3>1, <3>2 DEF RowsOK
    <2>13. \A k \in Kind : CallOK(api[k], ses', bnd')
      BY <2>10, CallKeeps
    <2>14. \A x \in Pass \ {r} : PassOK(pass[x], ses', bnd')
      <3>1. \A x \in Pass \ {r} : pass[x].pc \in Claiming => pass[x].nb # p.nb
        BY <1>0 DEF SessionInv, OwnBindings, Claiming, p
      <3> QED
        BY <2>10, <3>1, PassKeeps
    <2>15. PassOK(q, ses', bnd')
      <3>1. q.br.rev <= bnd'[q.b].rev /\ q.br.rev # bnd'[q.b].rev
        BY <2>1, <2>4, <2>8, <2>9
      <3> QED
        BY <1>0, <1>2, <1>00, <2>2, <2>3, <2>7, <2>8, <2>9, <3>1 DEF PassOK, HasCopies, HasNew, Claiming
    <2>16. pass' \in [Pass -> PassState] /\ pass'[r] = q /\ \A x \in Pass \ {r} : pass'[x] = pass[x]
      BY <1>00, <2>6, <2>7
    <2>17. OwnBindings(pass')
      BY <2>8, <2>16 DEF SessionInv, OwnBindings, Claiming
    <2>18. SessionInv'
      BY <1>0, <2>12, <2>13, <2>14, <2>15, <2>16, <2>17 DEF SessionInv
    <2> QED
      BY <2>10, <2>18, MovesKeep
  <1> QED
    BY <1>1, <1>2 DEF PassCreate

\* A pass that has created its binding goes on with the copies it has.
LEMMA NewStep ==
  ASSUME SessionInv, UNCHANGED <<ses, bnd, api>>, NEW r \in Pass,
         NEW p \in PassState, pass' = [pass EXCEPT ![r] = p],
         p.pc = pass[r].pc \/ (p.pc \in {"exec", "settle"} /\ pass[r].pc \in {"begin", "exec"}),
         p.s = pass[r].s, p.b = pass[r].b, p.br = pass[r].br, p.nb = pass[r].nb, p.node = pass[r].node
  PROVE  SessionInv' /\ Kept
  <1>1. PassOK(pass[r], ses, bnd)
    BY DEF SessionInv
  <1>2. PassOK(p, ses, bnd)
    BY <1>1 DEF PassOK, HasCopies, HasNew, Claiming
  <1>3. \A q \in Pass \ {r} : p.pc \in Claiming /\ pass[q].pc \in Claiming
          => p.nb # pass[q].nb
    BY DEF SessionInv, OwnBindings, Claiming
  <1> QED
    BY <1>2, <1>3, NoWrite, PassMoves

LEMMA PassBeginInv ==
  ASSUME SessionInv, NEW r \in Pass, PassBegin(r)
  PROVE  SessionInv' /\ Kept
  <1>0. /\ pass[r].pc = "begin" /\ pass[r].pc \in HasCopies /\ pass[r].pc \in HasNew
        /\ UNCHANGED <<ses, bnd, api>> /\ pass[r] \in PassState /\ pass \in [Pass -> PassState]
    BY DEF PassBegin, HasCopies, HasNew, Claiming, dbVars, SessionInv
  <1>1. pass[r].b \in Binding /\ pass[r].nb \in Binding
    BY <1>0 DEF SessionInv, PassOK
  <1>2. CASE Step(r, "dropnew")
    BY <1>0, <1>1, <1>2, NoWrite, StepDropNew
  <1>3. CASE pass' = [pass EXCEPT ![r].pc = "exec", ![r].op = "Running"]
    <2> DEFINE p == [pass[r] EXCEPT !.pc = "exec", !.op = "Running"]
    <2>1. pass' = [pass EXCEPT ![r] = p]
      BY <1>0, <1>3
    <2>2. p \in PassState
      BY <1>0, Zenon DEF PassState, PassPc, OpStatus
    <2>3. /\ p.pc = "exec" /\ p.s = pass[r].s /\ p.b = pass[r].b /\ p.br = pass[r].br
          /\ p.nb = pass[r].nb /\ p.node = pass[r].node
      BY <1>0 DEF PassState
    <2> HIDE DEF p
    <2> QED
      BY <1>0, <2>1, <2>2, <2>3, NewStep
  <1> QED
    BY <1>2, <1>3 DEF PassBegin

LEMMA PassExecInv ==
  ASSUME SessionInv, NEW r \in Pass, PassExec(r)
  PROVE  SessionInv' /\ Kept
  <1>0. /\ pass[r].pc = "exec" /\ UNCHANGED <<ses, bnd, api>>
        /\ pass[r] \in PassState /\ pass \in [Pass -> PassState]
    BY DEF PassExec, dbVars, SessionInv
  <1>1. PICK res \in Result : pass' = [pass EXCEPT ![r].pc = "settle", ![r].res = res]
    BY DEF PassExec
  <1> DEFINE p == [pass[r] EXCEPT !.pc = "settle", !.res = res]
  <1>2. pass' = [pass EXCEPT ![r] = p]
    BY <1>0, <1>1
  <1>3. p \in PassState
    BY <1>0, Zenon DEF PassState, PassPc
  <1>4. /\ p.pc = "settle" /\ p.s = pass[r].s /\ p.b = pass[r].b /\ p.br = pass[r].br
        /\ p.nb = pass[r].nb /\ p.node = pass[r].node
    BY <1>0 DEF PassState
  <1> HIDE DEF p
  <1> QED
    BY <1>0, <1>2, <1>3, <1>4, NewStep

LEMMA PassTimeOutInv ==
  ASSUME SessionInv, NEW r \in Pass, PassTimeOut(r)
  PROVE  SessionInv' /\ Kept
  <1> DEFINE p == [pass[r] EXCEPT !.op = "TimedOut"]
  <1>0. /\ UNCHANGED <<ses, bnd, api>> /\ pass[r] \in PassState /\ pass \in [Pass -> PassState]
        /\ pass' = [pass EXCEPT ![r] = p]
    BY DEF PassTimeOut, dbVars, SessionInv
  <1>1. p \in PassState
    BY <1>0, Zenon DEF PassState, OpStatus, OpEnd
  <1>2. /\ p.pc = pass[r].pc /\ p.s = pass[r].s /\ p.b = pass[r].b /\ p.br = pass[r].br
        /\ p.nb = pass[r].nb /\ p.node = pass[r].node
    BY <1>0 DEF PassState
  <1> HIDE DEF p
  <1> QED
    BY <1>0, <1>1, <1>2, NewStep

\* The end of dispatch_reconnect_command. Whoever touched the new binding first
\* has raised its revision, and this save is refused.
LEMMA PassSettleInv ==
  ASSUME SessionInv, NEW r \in Pass, PassSettle(r)
  PROVE  SessionInv' /\ Kept
  <1> DEFINE p == pass[r]
             new == [st |-> "Reserved", rev |-> 0, node |-> p.node, ep |-> p.ep]
             moves == Through(p.s) # p.s
             sOk == p.s.st \in {"Allocating", "Inviting", "Active"} /\ (moves => SavesS(p.s))
             bOk == SavesB(p.nb, new)
             pc1 == IF sOk /\ bOk THEN "dropold" ELSE "dropnew"
             pc2 == IF bOk /\ SavesS(p.s) /\ p.op \notin OpEnd THEN "dropnew" ELSE "dropold"
  <1>0. p.pc = "settle" /\ p.pc \in HasCopies /\ p.pc \in HasNew /\ UNCHANGED api
    BY DEF PassSettle, HasCopies, HasNew, Claiming
  <1>1. /\ p.b \in Binding /\ p.nb \in Binding /\ p.node \in Node /\ bnd[p.nb].st # "none"
        /\ RowOK(bnd[p.nb]) /\ SessionOK(ses) /\ ses.st # "none" /\ p \in PassState
        /\ SavesS(p.s) => p.s = ses
    BY <1>0, CopyFacts DEF SessionInv, PassOK, RowsOK
  <1>2. new \in BindingRow /\ new.rev = 0
    BY <1>1 DEF BindingRow, BindingState, PassState
  <1>3. ASSUME bOk, NEW st \in {"Active", "Failed"} PROVE BMove(bnd[p.nb], BTo(new, st))
    <2>1. bnd[p.nb].rev = 0 /\ bnd[p.nb].st = "Reserved"
      BY <1>1, <1>2, <1>3 DEF SavesB, RowOK
    <2>2. st \in BindingState \ {"none"}
      BY <1>3 DEF BindingState, BindingEnd
    <2>3. BTo(new, st) \in BindingRow /\ BTo(new, st).st = st /\ BTo(new, st).rev = new.rev + 1
          /\ BTo(new, st).node = new.node
      BY <1>2, <2>2, BToFacts
    <2>4. BTo(new, st).rev = 1 /\ BTo(new, st).node \in Node
      BY <1>1, <1>2, <2>3
    <2>5. RowOK(BTo(new, st))
      BY <1>3, <2>3, <2>4 DEF RowOK
    <2> HIDE DEF new
    <2> QED
      BY <1>3, <2>1, <2>3, <2>4, <2>5 DEF BMove, BLive, BindingEnd
  <1>4. SMove(ses, ses)
    BY DEF SMove
  <1>5. pc1 \in {"dropold", "dropnew"} /\ pc2 \in {"dropold", "dropnew"}
    OBVIOUS
  <1>6. \E pc \in {"dropold", "dropnew"} : Step(r, pc)
    BY <1>5 DEF PassSettle
  <1>7. Moves(NoBinding)
    <2>1. CASE p.res # "Failed"
      <3>1. /\ ses' = IF sOk /\ moves THEN Through(p.s) ELSE ses
            /\ bnd' = IF sOk /\ bOk THEN [bnd EXCEPT ![p.nb] = BTo(new, "Active")] ELSE bnd
        BY <2>1 DEF PassSettle
      <3> HIDE DEF new, bOk
      <3>2. SMove(ses, ses')
        <4>1. CASE sOk /\ moves
          <5>1. p.s = ses
            BY <1>1, <4>1
          <5> QED
            BY <1>1, <3>1, <4>1, <5>1, WalksS
        <4>2. CASE ~(sOk /\ moves)
          BY <1>4, <3>1, <4>2
        <4> QED
          BY <4>1, <4>2
      <3> HIDE DEF sOk, moves
      <3>3. CASE sOk /\ bOk
        BY <1>1, <1>3, <3>1, <3>2, <3>3, SaveOne
      <3>4. CASE ~(sOk /\ bOk)
        BY <3>1, <3>2, <3>4, SaveSession
      <3> QED
        BY <3>3, <3>4
    <2>2. CASE p.res = "Failed"
      <3>1. /\ bnd' = IF bOk THEN [bnd EXCEPT ![p.nb] = BTo(new, "Failed")] ELSE bnd
            /\ ses' = IF bOk /\ SavesS(p.s) THEN FailedOf(p.s) ELSE ses
        BY <2>2 DEF PassSettle
      <3> HIDE DEF new, bOk
      <3>2. SMove(ses, ses')
        <4>1. CASE bOk /\ SavesS(p.s)
          <5>1. p.s = ses
            BY <1>1, <4>1
          <5> QED
            BY <1>1, <3>1, <4>1, <5>1, WalksS
        <4>2. CASE ~(bOk /\ SavesS(p.s))
          BY <1>4, <3>1, <4>2
        <4> QED
          BY <4>1, <4>2
      <3>3. CASE bOk
        BY <1>1, <1>3, <3>1, <3>2, <3>3, SaveOne
      <3>4. CASE ~bOk
        BY <3>1, <3>2, <3>4, SaveSession
      <3> QED
        BY <3>3, <3>4
    <2> QED
      BY <2>1, <2>2
  <1> QED
    BY <1>0, <1>1, <1>6, <1>7, StepDropOld, StepDropNew

LEMMA PassDropsInv ==
  ASSUME SessionInv, NEW r \in Pass, PassDropNew(r) \/ PassDropOld(r)
  PROVE  SessionInv' /\ Kept
  <1>1. UNCHANGED <<ses, bnd, api>>
    BY DEF PassDropNew, PassDropOld, dbVars
  <1>2. CASE PassDropNew(r)
    <2>1. pass[r].b \in Binding /\ Step(r, "dropold")
      BY <1>2 DEF PassDropNew, SessionInv, PassOK
    <2> QED
      BY <1>1, <2>1, NoWrite, StepDropOld
  <1>3. CASE PassDropOld(r)
    BY <1>1, <1>3, NoWrite, EndPass DEF PassDropOld
  <1> QED
    BY <1>2, <1>3

\* force_cleanup_node.
LEMMA CleanupNodeInv ==
  ASSUME SessionInv, NEW r \in Pass, NEW n \in Node, CleanupNode(r, n)
  PROVE  SessionInv' /\ Kept
  <1> DEFINE b == Newest
             p == [pass[r] EXCEPT !.pc = "dropold", !.b = b]
  <1>0. /\ Live # {} /\ UNCHANGED api /\ ses' = FailedOf(ses)
        /\ bnd' = [bnd EXCEPT ![b] = BFailedOf(bnd[b])]
        /\ pass' = [pass EXCEPT ![r].pc = "dropold", ![r].b = b]
    BY DEF CleanupNode
  <1>1. /\ b \in Binding /\ RowOK(bnd[b]) /\ SessionOK(ses) /\ ses.st # "none"
        /\ pass[r] \in PassState /\ pass \in [Pass -> PassState]
    BY <1>0, NewestFacts DEF SessionInv
  <1> HIDE DEF b
  <1>2. pass' = [pass EXCEPT ![r] = p]
    BY <1>0, <1>1
  <1>3. p \in PassState
    BY <1>1, Zenon DEF PassState, PassPc
  <1>4. p.pc = "dropold" /\ p.b = b
    BY <1>1 DEF PassState
  <1> HIDE DEF p
  <1>5. PassOK(p, ses', bnd')
    BY <1>1, <1>3, <1>4 DEF PassOK, HasCopies, HasNew, Claiming
  <1>6. SMove(ses, ses') /\ BMove(bnd[b], BFailedOf(bnd[b]))
    BY <1>0, <1>1, WalksS, WalksB
  <1>7. Moves(NoBinding)
    BY <1>0, <1>1, <1>6, SaveOne
  <1> QED
    BY <1>0, <1>2, <1>4, <1>5, <1>7, PassMoves DEF Claiming

-----------------------------------------------------------------------------
\* Events and the crash.

LEMMA AppliedFacts ==
  ASSUME NEW s, NEW r, SessionOK(s), s.st # "none", RowOK(r), NEW k \in EventKind
  PROVE  SMove(s, Applied(k, s, r).s) /\ BMove(r, Applied(k, s, r).b)
  <1>1. SMove(s, s) /\ BMove(r, r)
    BY DEF SMove, BMove
  <1>2. CASE k = "Started"
    <2>1. Applied(k, s, r).s = Through(s) /\ Applied(k, s, r).b = Converged(r)
      BY <1>2 DEF Applied, AppliedStarted
    <2> QED
      BY <2>1, WalksS, WalksB
  <1>3. CASE k = "Stopped"
    <2>1. /\ Applied(k, s, r).s = IF SEnded(s) THEN s ELSE StoppedOf(s)
          /\ Applied(k, s, r).b = IF r.st = "Reserved" THEN r ELSE ReleasedOf(r)
      BY <1>3 DEF Applied, AppliedStopped
    <2> QED
      BY <1>1, <2>1, WalksS, WalksB
  <1>4. CASE k = "Failed"
    <2>1. Applied(k, s, r).s = FailedOf(s) /\ Applied(k, s, r).b = BFailedOf(r)
      BY <1>4 DEF Applied, AppliedFailed
    <2> QED
      BY <2>1, WalksS, WalksB
  <1> QED
    BY <1>2, <1>3, <1>4 DEF EventKind

LEMMA EventFacts ==
  ASSUME EventsInv, NEW n \in Node, NEW i \in 1 .. Len(evs[n])
  PROVE  evs[n] \in Seq(Event) /\ evs[n][i] \in Event /\ (~evs[n][i].seen => evs[n][i].b \in Binding)
  <1>1. evs[n] \in Seq(Event)
    BY DEF EventsInv
  <1>2. evs[n][i] \in Event
    BY <1>1
  <1> QED
    BY <1>1, <1>2 DEF EventsInv

\* process_event: a callback that passes validate_callback is about rows that exist.
LEMMA ConsumeInv ==
  ASSUME SessionInv, EventsInv, NEW n \in Node, NEW i, Consume(n, i)
  PROVE  SessionInv' /\ Kept
  <1> DEFINE e == evs[n][i]
             a == Applied(e.kind, ses, bnd[e.b])
  <1>0. i \in 1 .. Len(evs[n]) /\ ~e.seen /\ UNCHANGED <<api, pass>>
    BY DEF Consume
  <1>1. CASE UNCHANGED dbVars
    BY <1>0, <1>1, NothingWritten DEF dbVars
  <1>2. CASE Valid(n, e) /\ ses' = a.s /\ bnd' = [bnd EXCEPT ![e.b] = a.b]
    <2>1. e.b \in Binding /\ e.kind \in EventKind
      BY <1>0, EventFacts DEF Event
    <2>2. RowOK(bnd[e.b]) /\ SessionOK(ses) /\ bnd[e.b].node = n
      BY <1>2, <2>1 DEF SessionInv, RowsOK, Valid
    <2>3. bnd[e.b].st # "none"
      BY <2>2, MediaNodesAssumption DEF RowOK, NoBindingRow
    <2>4. ses.st # "none"
      BY <2>1, <2>3 DEF SessionInv, RowsOK
    <2>5. SMove(ses, ses') /\ BMove(bnd[e.b], a.b)
      BY <1>2, <2>1, <2>2, <2>4, AppliedFacts
    <2>6. Moves(NoBinding)
      BY <1>2, <2>1, <2>5, SaveOne
    <2> QED
      BY <1>0, <2>6, OnlyRows
  <1> QED
    BY <1>1, <1>2 DEF Consume

LEMMA CrashInv ==
  ASSUME SessionInv, Crash
  PROVE  SessionInv' /\ Kept
  <1> DEFINE done == [NoCall EXCEPT !.pc = "done"]
  <1>1. /\ api' = [k \in Kind |-> IF api[k].pc = "idle" THEN NoCall ELSE done]
        /\ pass' = [r \in Pass |-> NoPass] /\ UNCHANGED <<ses, bnd>>
    BY DEF Crash, dbVars
  <1>2. /\ NoCall \in Call /\ done \in Call /\ NoCall.pc = "idle" /\ done.pc = "done"
    BY DEF NoCall, Call, Result
  <1> HIDE DEF done
  <1>3. api' \in [Kind -> Call] /\ \A k \in Kind : api'[k] \in Call /\ api'[k].pc \in {"idle", "done"}
    BY <1>1, <1>2
  <1>4. pass' \in [Pass -> PassState] /\ \A r \in Pass : pass'[r] = NoPass
    BY <1>1, NoPassOK
  <1>5. \A r \in Pass : PassOK(pass'[r], ses', bnd')
    BY <1>4, NoPassOK
  <1>6. \A k \in Kind : CallOK(api'[k], ses', bnd')
    BY <1>3 DEF CallOK
  <1>7. OwnBindings(pass')
    BY <1>4, NoPassOK DEF OwnBindings, Claiming
  <1>8. SessionInv'
    BY <1>1, <1>3, <1>4, <1>5, <1>6, <1>7 DEF SessionInv
  <1>9. Kept
    BY <1>1, NoWrite, MovesKeep
  <1> QED
    BY <1>8, <1>9

\* Every step, for the rows, the calls and the passes.
LEMMA SessionNext ==
  ASSUME SessionInv, NodesInv, EventsInv, MediaNext
  PROVE  SessionInv' /\ Kept
  <1>1. CASE StartLive \/ StartPlayback \/ StartTalk \/ StartBroadcast \/ StartSchedule \/ StartReserve
             \/ StartPersist
             \/ StopRequest \/ ControlRequest \/ StartSettle \/ StopSettle \/ ControlSettle \/ Crash
    BY <1>1, StartRequestInv, StartScheduleInv, StartReserveInv, StartPersistInv, StopRequestInv, ControlRequestInv,
       StartSettleInv, StopSettleInv, ControlSettleInv, CrashInv
       DEF StartLive, StartPlayback, StartTalk, StartBroadcast
  <1>2. ASSUME NEW k \in Kind, Begin(k) \/ Exec(k) \/ Drop(k) PROVE SessionInv' /\ Kept
    BY <1>2, BeginInv, ExecInv, DropInv
  <1>3. ASSUME NEW k \in Kind, TimeOut(k) PROVE SessionInv' /\ Kept
    BY <1>3, NothingWritten DEF TimeOut
  <1>4. ASSUME NEW r \in Pass, PassStep(r) PROVE SessionInv' /\ Kept
    BY <1>4, PassScanInv, PassOrphansDoneInv, PassListInv, PassLookupInv, PassMigrateInv,
       PassScheduleInv, PassReserveInv, PassBumpInv, PassCreateInv, PassBeginInv, PassExecInv, PassSettleInv, PassDropsInv
       DEF PassStep
  <1>5. ASSUME NEW r \in Pass, NEW n \in Node, PassTimeOut(r) \/ PassOrphan(r, n) \/ CleanupNode(r, n)
        PROVE  SessionInv' /\ Kept
    BY <1>5, PassTimeOutInv, CleanupNodeInv, NothingWritten DEF PassOrphan, dbVars
  <1>6. ASSUME NEW r \in Pass, PassTimeOut(r) PROVE SessionInv' /\ Kept
    BY <1>6, PassTimeOutInv
  <1>7. ASSUME NEW n \in Node, NodeStep(n) /\ UNCHANGED <<dbVars, api, pass, evVars>>
        PROVE  SessionInv' /\ Kept
    BY <1>7, NothingWritten DEF dbVars
  <1>8. ASSUME NEW n \in Node, Emit(n) \/ Subscribe(n) PROVE SessionInv' /\ Kept
    BY <1>8, NothingWritten DEF dbVars, Emit, Subscribe
  <1>9. ASSUME NEW n \in Node, NEW i, Consume(n, i) PROVE SessionInv' /\ Kept
    BY <1>9, ConsumeInv
  <1> QED
    BY <1>1, <1>2, <1>3, <1>4, <1>5, <1>6, <1>7, <1>8, <1>9 DEF MediaNext

-----------------------------------------------------------------------------
\* The nodes keep their types.

LEMMA FaultFacts ==
  ASSUME NodesInv, Fault
  PROVE  faults' = faults + 1 /\ faults' \in 0 .. MaxFaults /\ \A n \in Node : boot[n] \in 1 .. faults' + 1
  <1>1. faults \in Nat /\ faults < MaxFaults /\ faults' = faults + 1 /\ MaxFaults \in Nat
    BY MediaNodesAssumption DEF NodesInv, Fault
  <1>2. \A n \in Node : boot[n] \in 1 .. faults + 1
    BY DEF NodesInv
  <1>3. \A n \in Node : boot[n] \in 1 .. faults' + 1
    BY <1>1, <1>2
  <1> QED
    BY <1>1, <1>3

LEMMA NodesFault ==
  ASSUME NodesInv, Fault, UNCHANGED <<boot, running, row, reg, late>>
  PROVE  NodesInv'
  BY FaultFacts DEF NodesInv

LEMMA NodesStay ==
  ASSUME NodesInv, UNCHANGED <<boot, running, row, reg, late, faults>>
  PROVE  NodesInv'
  BY DEF NodesInv

LEMMA NodesRunning ==
  ASSUME NodesInv, UNCHANGED <<boot, row, reg, late, faults>>, running' \in [Node -> Nat]
  PROVE  NodesInv'
  BY DEF NodesInv

LEMMA EntryFacts ==
  ASSUME NodesInv, NEW n \in Node
  PROVE  /\ reg[n] \in NodeEntry /\ row[n] \in NodeRow /\ reg[n].node \in NodeRow
         /\ reg[n].inst \in 0 .. MaxFaults + 1 /\ reg[n].reported \in 0 .. 1
         /\ reg[n].reserved \in SUBSET Binding
         /\ row[n].inst \in 0 .. MaxFaults + 1 /\ row[n].ep \in Nat /\ reg[n].node.ep \in Nat
         /\ boot[n] \in 0 .. MaxFaults + 1
  <1>1. reg[n] \in NodeEntry /\ row[n] \in NodeRow
    BY DEF NodesInv
  <1>2. /\ reg[n].node \in NodeRow /\ reg[n].inst \in 0 .. MaxFaults + 1
        /\ reg[n].reported \in 0 .. 1 /\ reg[n].reserved \in SUBSET Binding
    BY <1>1 DEF NodeEntry
  <1>3. row[n].inst \in 0 .. MaxFaults + 1 /\ row[n].ep \in Nat /\ reg[n].node.ep \in Nat
    BY <1>1, <1>2 DEF NodeRow
  <1>4. boot[n] \in 1 .. faults + 1 /\ faults \in 0 .. MaxFaults
    BY DEF NodesInv
  <1>5. boot[n] \in 0 .. MaxFaults + 1
    BY <1>4, MediaNodesAssumption
  <1> QED
    BY <1>1, <1>2, <1>3, <1>5

LEMMA NodesEntry ==
  ASSUME NodesInv, UNCHANGED <<boot, running, row, late, faults>>, NEW n \in Node,
         NEW s \in SUBSET Binding, reg' = [reg EXCEPT ![n].reserved = s]
  PROVE  NodesInv'
  <1> DEFINE e == [reg[n] EXCEPT !.reserved = s]
  <1>1. reg \in [Node -> NodeEntry] /\ reg[n] \in NodeEntry
    BY DEF NodesInv
  <1>2. e \in NodeEntry
    BY <1>1, Zenon DEF NodeEntry
  <1>3. reg' = [reg EXCEPT ![n] = e]
    BY <1>1
  <1> HIDE DEF e
  <1>4. reg' \in [Node -> NodeEntry]
    BY <1>1, <1>2, <1>3
  <1> QED
    BY <1>4 DEF NodesInv

LEMMA NodesReserve ==
  ASSUME NodesInv, NEW b \in Binding, NEW n \in Node, NEW ok, ReserveRemote(b, n, ok),
         UNCHANGED <<boot, running, row, late, faults>>
  PROVE  NodesInv'
  <1>1. reg[n].reserved \cup {b} \in SUBSET Binding
    BY EntryFacts
  <1>2. reg' = [reg EXCEPT ![n].reserved = reg[n].reserved \cup {b}] \/ reg' = reg
    BY DEF ReserveRemote, NodesInv
  <1> QED
    BY <1>1, <1>2, NodesEntry, NodesStay

LEMMA NodesRelease ==
  ASSUME NodesInv, sched \in Sched, NEW b \in Binding, Release(b),
         UNCHANGED <<boot, running, row, late, faults>>
  PROVE  NodesInv'
  <1>1. CASE sched.at[b] = NoNode
    BY <1>1, NodesStay DEF Release
  <1>2. CASE sched.at[b] # NoNode
    <2> DEFINE n == sched.at[b]
    <2>1. n \in Node
      BY <1>2 DEF Sched
    <2>2. reg' = [reg EXCEPT ![n].reserved = @ \ {b}]
      BY <1>2 DEF Release
    <2> HIDE DEF n
    <2>3. reg[n].reserved \ {b} \in SUBSET Binding
      BY <2>1, EntryFacts
    <2>4. reg' = [reg EXCEPT ![n].reserved = reg[n].reserved \ {b}]
      BY <2>1, <2>2 DEF NodesInv
    <2> QED
      BY <2>1, <2>3, <2>4, NodesEntry
  <1> QED
    BY <1>1, <1>2

LEMMA RunningType ==
  ASSUME NodesInv, NEW n, NEW ep \in Nat, NEW res, StartOn(n, ep, res) \/ StopOn(n, ep, res)
  PROVE  running' \in [Node -> Nat]
  BY DEF NodesInv, StartOn, StopOn

\* A handler writes the row and has an entry to write to memory.
LEMMA NodesPersist ==
  ASSUME NodesInv, NEW n \in Node, NEW k \in {"register", "heartbeat", "drain", "deregister"},
         NEW r \in NodeRow, NEW rep \in 0 .. 1, NEW res \in SUBSET Binding, Persist(n, k, r, rep, res)
  PROVE  NodesInv'
  <1> DEFINE l == [node |-> n, kind |-> k, row |-> r, reported |-> rep, reserved |-> res]
  <1>1. l \in Late
    BY DEF Late
  <1>2. Fault /\ row' = [row EXCEPT ![n] = r] /\ late' = late \cup {l} /\ UNCHANGED <<boot, running, reg>>
    BY DEF Persist
  <1> HIDE DEF l
  <1>3. row' \in [Node -> NodeRow] /\ late' \subseteq Late
    BY <1>1, <1>2 DEF NodesInv
  <1> QED
    BY <1>2, <1>3, FaultFacts DEF NodesInv

LEMMA NodesCalls ==
  ASSUME NodesInv, NEW n \in Node, Register(n) \/ Heartbeat(n) \/ Drain(n) \/ Deregister(n)
  PROVE  NodesInv'
  <1>0. row[n] \in NodeRow /\ {} \in SUBSET Binding
    BY EntryFacts
  <1>1. CASE Register(n)
    <2> DEFINE e == reg[n]
               same == Known(n) /\ e.inst = boot[n]
               ep == IF same THEN e.node.ep ELSE IF Known(n) THEN e.node.ep + 1 ELSE row[n].ep + 1
               r == [inst |-> boot[n], ep |-> ep, status |-> "Active", alive |-> TRUE]
               rep == IF same THEN e.reported ELSE 0
               res == IF same THEN e.reserved ELSE {}
    <2>1. ep \in Nat /\ rep \in 0 .. 1 /\ res \in SUBSET Binding /\ boot[n] \in 0 .. MaxFaults + 1
      BY EntryFacts
    <2>2. Persist(n, "register", r, rep, res)
      BY <1>1 DEF Register
    <2> HIDE DEF ep, rep, res
    <2>3. r \in NodeRow
      BY <2>1 DEF NodeRow, NodeStatus
    <2> HIDE DEF r
    <2> QED
      BY <2>1, <2>2, <2>3, NodesPersist
  <1>2. CASE Heartbeat(n)
    <2> DEFINE r == [row[n] EXCEPT !.alive = TRUE]
               rep == IF running[n] = 0 THEN 0 ELSE 1
    <2>1. r \in NodeRow
      BY <1>0, Zenon DEF NodeRow
    <2>2. Persist(n, "heartbeat", r, rep, {}) /\ rep \in 0 .. 1
      BY <1>2 DEF Heartbeat
    <2> HIDE DEF r, rep
    <2> QED
      BY <1>0, <2>1, <2>2, NodesPersist
  <1>3. CASE Drain(n)
    <2> DEFINE r == [row[n] EXCEPT !.status = "Draining"]
    <2>1. r \in NodeRow
      BY <1>0, Zenon DEF NodeRow, NodeStatus
    <2>2. Persist(n, "drain", r, reg[n].reported, {})
      BY <1>3 DEF Drain
    <2> HIDE DEF r
    <2> QED
      BY <1>0, <2>1, <2>2, EntryFacts, NodesPersist
  <1>4. CASE Deregister(n)
    <2> DEFINE r == [row[n] EXCEPT !.status = "Left", !.alive = TRUE]
    <2>1. r \in NodeRow
      BY <1>0, Zenon DEF NodeRow, NodeStatus
    <2>2. Persist(n, "deregister", r, reg[n].reported, {})
      BY <1>4 DEF Deregister
    <2> HIDE DEF r
    <2> QED
      BY <1>0, <2>1, <2>2, EntryFacts, NodesPersist
  <1> QED
    BY <1>1, <1>2, <1>3, <1>4

LEMMA NodesApply ==
  ASSUME NodesInv, NEW l, Apply(l)
  PROVE  NodesInv'
  <1>0. l \in Late /\ late' \subseteq Late /\ UNCHANGED <<boot, running, row, faults>>
    BY DEF Apply, NodesInv
  <1>1. /\ l.node \in Node /\ l.row \in NodeRow /\ l.reported \in 0 .. 1 /\ l.reserved \in SUBSET Binding
        /\ l.row.inst \in 0 .. MaxFaults + 1
    BY <1>0 DEF Late, NodeRow
  <1> DEFINE n == l.node
             new == [node |-> l.row, inst |-> l.row.inst, reported |-> l.reported, reserved |-> l.reserved]
             rep == IF l.kind = "heartbeat" THEN l.reported ELSE reg[n].reported
             e == [reg[n] EXCEPT !.node = l.row, !.reported = rep]
  <1>2. reg \in [Node -> NodeEntry] /\ reg[n] \in NodeEntry /\ rep \in 0 .. 1
    BY <1>1, EntryFacts DEF NodesInv
  <1>3. new \in NodeEntry
    BY <1>1 DEF NodeEntry
  <1>4. \/ reg' = [reg EXCEPT ![n] = new]
        \/ reg' = reg
        \/ reg' = [reg EXCEPT ![n] = e]
    BY <1>1, <1>2 DEF Apply
  <1> HIDE DEF rep, new
  <1>5. e \in NodeEntry
    BY <1>1, <1>2, Zenon DEF NodeEntry
  <1> HIDE DEF e
  <1>6. reg' \in [Node -> NodeEntry]
    BY <1>1, <1>2, <1>3, <1>4, <1>5
  <1> QED
    BY <1>0, <1>6 DEF NodesInv

LEMMA NodesLapse ==
  ASSUME NodesInv, NEW n \in Node, Lapse(n)
  PROVE  NodesInv'
  <1> DEFINE m == [reg[n].node EXCEPT !.alive = FALSE]
             e == [reg[n] EXCEPT !.node = m, !.reserved = {}]
             r == [row[n] EXCEPT !.alive = FALSE]
  <1>1. /\ reg \in [Node -> NodeEntry] /\ row \in [Node -> NodeRow]
        /\ reg[n] \in NodeEntry /\ row[n] \in NodeRow /\ reg[n].node \in NodeRow
    BY EntryFacts DEF NodesInv
  <1>2. r \in NodeRow
    BY <1>1, Zenon DEF NodeRow
  <1>3. m \in NodeRow
    BY <1>1, Zenon DEF NodeRow
  <1>4. reg' = [reg EXCEPT ![n] = e] /\ row' = [row EXCEPT ![n] = r] /\ Fault /\ UNCHANGED <<boot, running, late>>
    BY <1>1 DEF Lapse
  <1> HIDE DEF m, r
  <1>5. e \in NodeEntry
    BY <1>1, <1>3, Zenon DEF NodeEntry
  <1> HIDE DEF e
  <1>6. reg' \in [Node -> NodeEntry] /\ row' \in [Node -> NodeRow]
    BY <1>1, <1>2, <1>4, <1>5
  <1> QED
    BY <1>4, <1>6, FaultFacts DEF NodesInv

LEMMA NodesReboot ==
  ASSUME NodesInv, NEW n \in Node, Reboot(n)
  PROVE  NodesInv'
  <1>1. boot \in [Node -> Nat] /\ faults \in Nat /\ \A m \in Node : boot[m] \in 1 .. faults + 1
    BY DEF NodesInv
  <1>2. /\ Fault /\ boot' = [boot EXCEPT ![n] = boot[n] + 1] /\ running' = [running EXCEPT ![n] = 0]
        /\ UNCHANGED <<row, reg, late>>
    BY <1>1 DEF Reboot
  <1>3. faults' = faults + 1 /\ faults' \in 0 .. MaxFaults
    BY <1>2, FaultFacts
  <1>4. boot' \in [Node -> Nat] /\ \A m \in Node : boot'[m] \in 1 .. faults' + 1
    BY <1>1, <1>2, <1>3
  <1>5. running' \in [Node -> Nat]
    BY <1>2 DEF NodesInv
  <1> QED
    BY <1>2, <1>3, <1>4, <1>5 DEF NodesInv

LEMMA FreshEntries ==
  ASSUME NodesInv
  PROVE  Evicted \in [Node -> NodeEntry] /\ Loaded \in [Node -> NodeEntry]
  <1>1. NoRow \in NodeRow /\ NoEntry \in NodeEntry
    <2>1. NoRow \in NodeRow
      BY MediaNodesAssumption DEF NoRow, NodeRow, NodeStatus
    <2> QED
      BY <2>1, MediaNodesAssumption DEF NoEntry, NodeEntry
  <1>2. Evicted \in [Node -> NodeEntry]
    BY <1>1 DEF Evicted, NodesInv
  <1>3. ASSUME NEW n \in Node
        PROVE  [node |-> row[n], inst |-> row[n].inst, reported |-> 0, reserved |-> {}] \in NodeEntry
    BY EntryFacts DEF NodeEntry
  <1> QED
    BY <1>1, <1>2, <1>3 DEF Loaded

\* schedule forgets nodes that left.
LEMMA NodesSchedule ==
  ASSUME NodesInv, reg' = Evicted, UNCHANGED <<boot, running, row, late>>, UNCHANGED faults \/ Fault
  PROVE  NodesInv'
  BY FreshEntries, FaultFacts DEF NodesInv

LEMMA NodesNext ==
  ASSUME SessionInv, NodesInv, sched \in Sched, MediaNext
  PROVE  NodesInv'
  <1>1. CASE StartLive \/ StartPlayback \/ StartTalk \/ StartBroadcast \/ StartSchedule \/ StartReserve
    <2>1. CASE StartLive \/ StartPlayback \/ StartTalk \/ StartBroadcast
      BY <2>1, NodesStay DEF StartLive, StartPlayback, StartTalk, StartBroadcast, StartRequest, nodeVars
    <2>2. CASE StartSchedule
      <3>1. reg' = Evicted /\ UNCHANGED <<boot, running, row, late>> /\ (UNCHANGED faults \/ Fault)
        BY <2>2 DEF StartSchedule, LimitReached
      <3> QED
        BY <3>1, NodesSchedule
    <2>3. CASE StartReserve
      <3>1. api["start"].b \in Binding /\ api["start"].node \in Node
        BY <2>3, StartFacts DEF StartReserve
      <3> QED
        BY <2>3, <3>1, NodesReserve DEF StartReserve
    <2> QED
      BY <1>1, <2>1, <2>2, <2>3
  <1>2. CASE StartPersist \/ StopRequest \/ ControlRequest \/ StartSettle \/ StopSettle \/ ControlSettle
    BY <1>2, NodesStay
       DEF StartPersist, StopRequest, ControlRequest, StartSettle, StopSettle, ControlSettle, nodeVars
  <1>3. ASSUME NEW k \in Kind, Begin(k) \/ TimeOut(k) PROVE NodesInv'
    BY <1>3, NodesStay, NodesFault DEF Begin, TimeOut, nodeVars
  <1>4. ASSUME NEW k \in Kind, Exec(k) PROVE NodesInv'
    <2>1. api[k].ep \in Nat
      BY DEF SessionInv, Call
    <2>2. UNCHANGED <<boot, row, reg, late, faults>>
      BY <1>4 DEF Exec
    <2>3. \/ \E res \in Result : \/ StartOn(api[k].node, api[k].ep, res)
                                 \/ StopOn(api[k].node, api[k].ep, res)
          \/ UNCHANGED running
      BY <1>4 DEF Exec, Kind
    <2>4. running' \in [Node -> Nat]
      BY <2>1, <2>3, RunningType DEF NodesInv
    <2> QED
      BY <2>2, <2>4, NodesRunning
  <1>5. ASSUME NEW k \in Kind, Drop(k) PROVE NodesInv'
    <2>1. api[k].b \in Binding
      BY <1>5 DEF Drop, SessionInv, CallOK
    <2> QED
      BY <1>5, <2>1, NodesRelease DEF Drop
  <1>6. ASSUME NEW r \in Pass, PassStep(r) PROVE NodesInv'
    <2>1. CASE PassScan(r) \/ PassOrphansDone(r) \/ PassLookup(r) \/ PassBump(r) \/ PassCreate(r)
               \/ PassBegin(r) \/ PassSettle(r)
      BY <2>1, NodesStay DEF PassScan, PassOrphansDone, PassLookup, PassBump, PassCreate, PassBegin,
                             PassSettle, nodeVars
    <2>2. CASE PassList(r)
      BY <2>2, FreshEntries DEF PassList, NodesInv
    <2>3. CASE PassMigrate(r) \/ PassSchedule(r) \/ PassReserve(r)
      <3>1. CASE PassMigrate(r)
        BY <3>1, NodesStay DEF PassMigrate, nodeVars
      <3>2. CASE PassSchedule(r)
        <4>1. reg' = Evicted /\ UNCHANGED <<boot, running, row, late>> /\ (UNCHANGED faults \/ Fault)
          BY <3>2 DEF PassSchedule, LimitReached
        <4> QED
          BY <4>1, NodesSchedule
      <3>3. CASE PassReserve(r)
        <4>1. pass[r].nb \in Binding /\ pass[r].node \in Node
          BY <3>3 DEF PassReserve, SessionInv, PassOK, HasNew, Claiming
        <4> QED
          BY <3>3, <4>1, NodesReserve DEF PassReserve
      <3> QED
        BY <2>3, <3>1, <3>2, <3>3
    <2>4. CASE PassExec(r)
      <3>1. pass[r].ep \in Nat
        BY DEF SessionInv, PassState
      <3>2. running' \in [Node -> Nat]
        BY <2>4, <3>1, RunningType DEF PassExec
      <3> QED
        BY <2>4, <3>2, NodesRunning DEF PassExec
    <2>5. CASE PassDropNew(r)
      <3>1. pass[r].nb \in Binding
        BY <2>5 DEF PassDropNew, SessionInv, PassOK
      <3> QED
        BY <2>5, <3>1, NodesRelease DEF PassDropNew
    <2>6. CASE PassDropOld(r)
      <3>1. pass[r].b \in Binding
        BY <2>6 DEF PassDropOld, SessionInv, PassOK
      <3> QED
        BY <2>6, <3>1, NodesRelease DEF PassDropOld
    <2> QED
      BY <1>6, <2>1, <2>2, <2>3, <2>4, <2>5, <2>6 DEF PassStep
  <1>7. ASSUME NEW r \in Pass, PassTimeOut(r) PROVE NodesInv'
    BY <1>7, NodesFault DEF PassTimeOut
  <1>8. ASSUME NEW r \in Pass, NEW n \in Node, PassOrphan(r, n) PROVE NodesInv'
    <2>1. running[n] \in Nat
      BY DEF NodesInv
    <2>2. running' \in [Node -> Nat]
      BY <1>8, <2>1, RunningType DEF PassOrphan
    <2> QED
      BY <1>8, <2>2, NodesRunning DEF PassOrphan
  <1>9. ASSUME NEW r \in Pass, NEW n \in Node, CleanupNode(r, n) PROVE NodesInv'
    BY <1>9, NodesFault DEF CleanupNode
  <1>10. ASSUME NEW n \in Node, NodeStep(n) PROVE NodesInv'
    BY <1>10, NodesCalls, NodesApply, NodesLapse, NodesReboot DEF NodeStep
  <1>11. ASSUME NEW n \in Node, Emit(n) PROVE NodesInv'
    <2>1. running' \in [Node -> Nat]
      BY <1>11 DEF Emit, NodesInv
    <2>2. Fault /\ UNCHANGED <<boot, row, reg, late>>
      BY <1>11 DEF Emit
    <2> QED
      BY <2>1, <2>2, FaultFacts DEF NodesInv
  <1>12. ASSUME NEW n \in Node, Subscribe(n) PROVE NodesInv'
    BY <1>12, NodesStay DEF Subscribe, nodeVars
  <1>13. ASSUME NEW n \in Node, NEW i, Consume(n, i) PROVE NodesInv'
    BY <1>13, NodesStay DEF Consume, nodeVars
  <1>14. CASE Crash
    <2>1. Fault /\ reg' = Loaded /\ late' = {} /\ UNCHANGED <<boot, running, row>>
      BY <1>14 DEF Crash
    <2> QED
      BY <2>1, FreshEntries, FaultFacts DEF NodesInv
  <1> QED
    BY <1>1, <1>2, <1>3, <1>4, <1>5, <1>6, <1>7, <1>8, <1>9, <1>10, <1>11, <1>12, <1>13, <1>14
       DEF MediaNext

-----------------------------------------------------------------------------
\* The scheduler.

LEMMA ReservedFacts ==
  ASSUME SchedInv
  PROVE  /\ sched.at \in [Binding -> Node \cup {NoNode}] /\ sched.count \in Nat
         /\ Reserved \subseteq Binding /\ IsFiniteSet(Reserved) /\ Cardinality(Reserved) \in Nat
  <1>1. Reserved \subseteq Binding
    BY DEF Reserved
  <1>2. IsFiniteSet(Reserved)
    BY <1>1, MediaNodesAssumption, FS_Subset
  <1> QED
    BY <1>1, <1>2, FS_CardinalityType DEF SchedInv, Sched

\* LeastLoadedScheduler::reserve for an identity that has no reservation.
LEMMA SchedReserve ==
  ASSUME SchedInv, NEW b \in Binding, NEW n \in Node, sched.at[b] = NoNode, ~Full, ReserveLocal(b, n)
  PROVE  /\ SchedInv' /\ \A c \in Binding \ {b} : sched'.at[c] = sched.at[c]
  <1> DEFINE at == [sched.at EXCEPT ![b] = n]
  <1>1. sched' = [at |-> at, aff |-> n, count |-> sched.count + 1]
    BY DEF ReserveLocal
  <1>2. Cardinality(Reserved) < MaxReservations
    BY <1>1, ReservedFacts, MediaNodesAssumption DEF Full
  <1>3. at \in [Binding -> Node \cup {NoNode}] /\ at[b] = n /\ \A c \in Binding \ {b} : at[c] = sched.at[c]
    BY ReservedFacts
  <1> HIDE DEF at
  <1>4. sched' \in Sched /\ sched'.at = at /\ sched'.aff = n /\ sched'.count = sched.count + 1
    BY <1>1, <1>3, ReservedFacts DEF Sched
  <1>5. Reserved' = Reserved \cup {b} /\ b \notin Reserved
    BY <1>1, <1>3, <1>4, MediaNodesAssumption DEF Reserved
  <1>6. Cardinality(Reserved') = Cardinality(Reserved) + 1
    BY <1>5, ReservedFacts, FS_AddElement
  <1>7. sched.count = Cardinality(Reserved)
    BY DEF SchedInv, AffinityCounted
  <1>8. n # NoNode /\ Reserved' # {}
    BY <1>5, MediaNodesAssumption
  <1>9. Cardinality(Reserved') <= MaxReservations
    BY <1>2, <1>6, ReservedFacts, MediaNodesAssumption
  <1>10. SchedInv'
    BY <1>4, <1>6, <1>7, <1>8, <1>9 DEF SchedInv, AffinityCounted
  <1> QED
    BY <1>3, <1>4, <1>10

\* release and remove_local_reservation, of a reservation or of nothing.
LEMMA SchedForget ==
  ASSUME SchedInv, NEW b \in Binding, sched' = Forget(sched, b)
  PROVE  /\ SchedInv' /\ sched'.at[b] = NoNode
         /\ \A c \in Binding : sched.at[c] = NoNode => sched'.at[c] = NoNode
  <1>1. CASE sched.at[b] = NoNode
    <2>1. sched' = sched
      BY <1>1 DEF Forget
    <2> QED
      BY <1>1, <2>1 DEF SchedInv, AffinityCounted, Reserved
  <1>2. CASE sched.at[b] # NoNode
    <2> DEFINE at == [sched.at EXCEPT ![b] = NoNode]
               aff == IF sched.count = 1 THEN NoNode ELSE sched.aff
               count == IF sched.count = 0 THEN 0 ELSE sched.count - 1
    <2>1. sched' = [at |-> at, aff |-> aff, count |-> count]
      BY <1>2 DEF Forget
    <2>2. at \in [Binding -> Node \cup {NoNode}] /\ at[b] = NoNode /\ \A c \in Binding \ {b} : at[c] = sched.at[c]
      BY ReservedFacts
    <2>3. /\ sched.count = Cardinality(Reserved) /\ Cardinality(Reserved) <= MaxReservations
          /\ sched.aff = NoNode <=> Reserved = {}
          /\ sched.aff \in Node \cup {NoNode}
      BY DEF SchedInv, AffinityCounted, Sched
    <2>4. b \in Reserved
      BY <1>2 DEF Reserved
    <2>5. Cardinality(Reserved \ {b}) = Cardinality(Reserved) - 1 /\ IsFiniteSet(Reserved \ {b})
      BY <2>4, ReservedFacts, FS_RemoveElement
    <2>6. Cardinality(Reserved \ {b}) \in Nat /\ (Cardinality(Reserved \ {b}) = 0 <=> Reserved \ {b} = {})
      BY <2>5, FS_CardinalityType, FS_EmptySet
    <2>7. sched.count >= 1 /\ sched.count \in Nat
      BY <2>3, <2>5, <2>6, ReservedFacts
    <2>8. count = sched.count - 1 /\ count \in Nat
      BY <2>7
    <2>9. aff = NoNode <=> Reserved \ {b} = {}
      <3>1. sched.count = 1 <=> Reserved \ {b} = {}
        BY <2>3, <2>5, <2>6, <2>7
      <3>2. sched.aff # NoNode
        BY <2>3, <2>4
      <3> QED
        BY <3>1, <3>2
    <2>10. aff \in Node \cup {NoNode}
      BY <2>3
    <2> HIDE DEF at, aff, count
    <2>11. sched' \in Sched /\ sched'.at = at /\ sched'.aff = aff /\ sched'.count = count
      BY <2>1, <2>2, <2>8, <2>10 DEF Sched
    <2>12. Reserved' = Reserved \ {b}
      BY <2>2, <2>11 DEF Reserved
    <2>13. Cardinality(Reserved \ {b}) <= MaxReservations
      BY <2>3, <2>5, <2>6, ReservedFacts, MediaNodesAssumption
    <2>14. count = Cardinality(Reserved \ {b})
      BY <2>3, <2>5, <2>8
    <2> QED
      BY <2>2, <2>9, <2>11, <2>12, <2>13, <2>14 DEF SchedInv, AffinityCounted
  <1> QED
    BY <1>1, <1>2

LEMMA SchedStays ==
  ASSUME SchedInv, UNCHANGED sched
  PROVE  SchedInv'
  BY DEF SchedInv, AffinityCounted, Reserved

LEMMA NoSchedOK ==
  ASSUME sched = NoSched
  PROVE  SchedInv
  <1>1. sched \in Sched /\ sched.count = 0 /\ sched.aff = NoNode /\ \A b \in Binding : sched.at[b] = NoNode
    BY DEF NoSched, Sched
  <1>2. Reserved = {}
    BY <1>1 DEF Reserved
  <1>3. Cardinality(Reserved) = 0
    BY <1>2, FS_EmptySet
  <1> QED
    BY <1>1, <1>2, <1>3, MediaNodesAssumption DEF SchedInv, AffinityCounted

\* An attempt that begins, for a binding that waits.
LEMMA StartScheduleSched ==
  ASSUME SessionInv, SchedInv, WaitInv, StartSchedule
  PROVE  /\ SchedInv'
         /\ \A c \in Binding \ {api["start"].b} : sched'.at[c] = sched.at[c]
  <1>1. api["start"].pc = "schedule" /\ api["start"].b \in Binding
    BY StartFacts DEF StartSchedule
  <1>2. sched.at[api["start"].b] = NoNode
    BY <1>1 DEF WaitInv, Waiting
  <1>3. CASE UNCHANGED sched
    BY <1>3, SchedStays
  <1>4. ASSUME NEW n \in Candidates(api["start"].tried), ~Full, ReserveLocal(api["start"].b, n)
        PROVE  /\ SchedInv'
               /\ \A c \in Binding \ {api["start"].b} : sched'.at[c] = sched.at[c]
    <2>1. n \in Node
      BY CandidatesAreNodes
    <2>2. PICK b \in Binding : b = api["start"].b
      BY <1>1
    <2> QED
      BY <1>2, <1>4, <2>1, <2>2, SchedReserve
  <1> QED
    BY <1>3, <1>4 DEF StartSchedule

LEMMA PassScheduleSched ==
  ASSUME SessionInv, SchedInv, WaitInv, NEW r \in Pass, PassSchedule(r)
  PROVE  /\ SchedInv'
         /\ \A c \in Binding \ {pass[r].nb} : sched'.at[c] = sched.at[c]
  <1>1. pass[r].pc = "schedule" /\ pass[r].nb \in Binding
    BY DEF PassSchedule, SessionInv, PassOK, HasNew, Claiming
  <1>2. sched.at[pass[r].nb] = NoNode
    BY <1>1 DEF WaitInv, Waiting
  <1>3. CASE UNCHANGED sched
    BY <1>3, SchedStays
  <1>4. ASSUME NEW n \in Candidates(pass[r].tried), ~Full, ReserveLocal(pass[r].nb, n)
        PROVE  /\ SchedInv'
               /\ \A c \in Binding \ {pass[r].nb} : sched'.at[c] = sched.at[c]
    <2>1. n \in Node
      BY CandidatesAreNodes
    <2>2. PICK b \in Binding : b = pass[r].nb
      BY <1>1
    <2> QED
      BY <1>2, <1>4, <2>1, <2>2, SchedReserve
  <1> QED
    BY <1>3, <1>4 DEF PassSchedule

LEMMA SchedNext ==
  ASSUME SessionInv, SchedInv, WaitInv, MediaNext
  PROVE  SchedInv'
  <1>1. CASE StartLive \/ StartPlayback \/ StartTalk \/ StartBroadcast
    BY <1>1, SchedStays DEF StartLive, StartPlayback, StartTalk, StartBroadcast, StartRequest, nodeVars
  <1>12. CASE StartSchedule
    BY <1>12, StartScheduleSched
  <1>13. CASE StartReserve
    <2>1. api["start"].b \in Binding
      BY <1>13, StartFacts DEF StartReserve
    <2>2. sched' = sched \/ sched' = Forget(sched, api["start"].b)
      BY <1>13 DEF StartReserve, ReserveRemote
    <2> QED
      BY <2>1, <2>2, SchedStays, SchedForget
  <1>2. CASE StartPersist \/ StopRequest \/ ControlRequest \/ StartSettle \/ StopSettle \/ ControlSettle
    BY <1>2, SchedStays
       DEF StartPersist, StopRequest, ControlRequest, StartSettle, StopSettle, ControlSettle, nodeVars
  <1>3. ASSUME NEW k \in Kind, Begin(k) \/ TimeOut(k) \/ Exec(k) PROVE SchedInv'
    BY <1>3, SchedStays DEF Begin, TimeOut, Exec, nodeVars
  <1>4. ASSUME NEW k \in Kind, Drop(k) PROVE SchedInv'
    <2>1. api[k].b \in Binding
      BY <1>4 DEF Drop, SessionInv, CallOK
    <2> QED
      BY <1>4, <2>1, SchedForget DEF Drop, Release
  <1>5. ASSUME NEW r \in Pass, PassStep(r) PROVE SchedInv'
    <2>1. CASE PassScan(r) \/ PassOrphansDone(r) \/ PassLookup(r) \/ PassBump(r) \/ PassCreate(r)
               \/ PassBegin(r) \/ PassSettle(r) \/ PassList(r) \/ PassExec(r)
      BY <2>1, SchedStays DEF PassScan, PassOrphansDone, PassLookup, PassBump, PassCreate, PassBegin,
                              PassSettle, PassList, PassExec, nodeVars
    <2>2. CASE PassMigrate(r)
      BY <2>2, SchedStays DEF PassMigrate, nodeVars
    <2>5. CASE PassSchedule(r)
      BY <2>5, PassScheduleSched
    <2>6. CASE PassReserve(r)
      <3>1. pass[r].nb \in Binding
        BY <2>6 DEF PassReserve, SessionInv, PassOK, HasNew, Claiming
      <3>2. sched' = sched \/ sched' = Forget(sched, pass[r].nb)
        BY <2>6 DEF PassReserve, ReserveRemote
      <3> QED
        BY <3>1, <3>2, SchedStays, SchedForget
    <2>3. CASE PassDropNew(r)
      <3>1. pass[r].nb \in Binding
        BY <2>3 DEF PassDropNew, SessionInv, PassOK
      <3> QED
        BY <2>3, <3>1, SchedForget DEF PassDropNew, Release
    <2>4. CASE PassDropOld(r)
      <3>1. pass[r].b \in Binding
        BY <2>4 DEF PassDropOld, SessionInv, PassOK
      <3> QED
        BY <2>4, <3>1, SchedForget DEF PassDropOld, Release
    <2> QED
      BY <1>5, <2>1, <2>2, <2>3, <2>4, <2>5, <2>6 DEF PassStep
  <1>6. ASSUME NEW r \in Pass, PassTimeOut(r) PROVE SchedInv'
    BY <1>6, SchedStays DEF PassTimeOut
  <1>7. ASSUME NEW r \in Pass, NEW n \in Node, PassOrphan(r, n) \/ CleanupNode(r, n) PROVE SchedInv'
    BY <1>7, SchedStays DEF PassOrphan, CleanupNode
  <1>8. ASSUME NEW n \in Node, NodeStep(n) PROVE SchedInv'
    BY <1>8, SchedStays
       DEF NodeStep, Register, Heartbeat, Drain, Deregister, Persist, Lapse, Reboot, Apply
  <1>9. ASSUME NEW n \in Node, Emit(n) \/ Subscribe(n) PROVE SchedInv'
    BY <1>9, SchedStays DEF Emit, Subscribe, nodeVars
  <1>10. ASSUME NEW n \in Node, NEW i, Consume(n, i) PROVE SchedInv'
    BY <1>10, SchedStays DEF Consume, nodeVars
  <1>11. CASE Crash
    <2>1. sched' = NoSched
      BY <1>11 DEF Crash
    <2>2. sched' \in Sched /\ sched'.count = 0 /\ sched'.aff = NoNode /\ \A b \in Binding : sched'.at[b] = NoNode
      BY <2>1 DEF NoSched, Sched
    <2>3. Reserved' = {}
      BY <2>2 DEF Reserved
    <2>4. Cardinality(Reserved') = 0
      BY <2>3, FS_EmptySet
    <2> QED
      BY <2>2, <2>3, <2>4, MediaNodesAssumption DEF SchedInv, AffinityCounted
  <1> QED
    BY <1>1, <1>2, <1>3, <1>4, <1>5, <1>6, <1>7, <1>8, <1>9, <1>10, <1>11, <1>12, <1>13
       DEF MediaNext

-----------------------------------------------------------------------------
\* Bindings that wait have no reservation.

LEMMA WaitStays ==
  ASSUME WaitInv, Waiting' \subseteq Waiting,
         \A b \in Binding : sched.at[b] = NoNode => sched'.at[b] = NoNode
  PROVE  WaitInv'
  BY DEF WaitInv, Waiting

LEMMA WaitUnchanged ==
  ASSUME WaitInv, UNCHANGED <<api, pass, sched>>
  PROVE  WaitInv'
  BY DEF WaitInv, Waiting

\* A call goes anywhere but back to another attempt.
LEMMA WaitCall ==
  ASSUME SessionInv, UNCHANGED pass, NEW k \in Kind, NEW c, api' = [api EXCEPT ![k] = c],
         c.pc # "schedule" \/ k # "start"
  PROVE  Waiting' \subseteq Waiting
  <1>1. "start" \in Kind /\ api \in [Kind -> Call]
    BY DEF Kind, SessionInv
  <1>2. api'["start"] = api["start"] \/ api'["start"].pc # "schedule"
    BY <1>1
  <1> QED
    BY <1>2 DEF Waiting

LEMMA WaitGoto ==
  ASSUME SessionInv, UNCHANGED pass, NEW k \in Kind, NEW pc, pc # "schedule", Goto(k, pc)
  PROVE  Waiting' \subseteq Waiting
  <1> DEFINE c == IF pc = "done" THEN [NoCall EXCEPT !.pc = pc] ELSE [api[k] EXCEPT !.pc = pc]
  <1>1. api' = [api EXCEPT ![k] = c]
    BY DEF Goto
  <1>2. c.pc # "schedule"
    BY NoCallType DEF SessionInv, Call
  <1> HIDE DEF c
  <1> QED
    BY <1>1, <1>2, WaitCall

\* A pass likewise.
OnePass(r) ==
  /\ UNCHANGED api
  /\ \A q \in Pass \ {r} : pass'[q] = pass[q]
  /\ \/ pass'[r].pc # "schedule"
     \/ pass'[r].pc = pass[r].pc /\ pass'[r].nb = pass[r].nb

LEMMA WaitPass ==
  ASSUME NEW r \in Pass, OnePass(r)
  PROVE  Waiting' \subseteq Waiting
  BY DEF OnePass, Waiting

LEMMA OneStep ==
  ASSUME SessionInv, NEW r \in Pass, NEW pc, pc # "schedule", Step(r, pc), UNCHANGED api
  PROVE  OnePass(r)
  <1>1. pass \in [Pass -> PassState] /\ pass[r] \in PassState /\ NoPass \in PassState
    BY NoPassOK DEF SessionInv
  <1>2. PICK p : pass' = [pass EXCEPT ![r] = p] /\ p.pc = pc
    <2>1. CASE pc = "dropold"
      <3>1. pass' = [pass EXCEPT ![r] = [NoPass EXCEPT !.pc = pc, !.b = pass[r].b]]
        BY <2>1 DEF Step
      <3>2. [NoPass EXCEPT !.pc = pc, !.b = pass[r].b].pc = pc
        BY <1>1 DEF PassState
      <3> QED
        BY <3>1, <3>2
    <2>2. CASE pc = "dropnew"
      <3>1. pass' = [pass EXCEPT ![r] = [NoPass EXCEPT !.pc = pc, !.b = pass[r].b, !.nb = pass[r].nb]]
        BY <2>2 DEF Step
      <3>2. [NoPass EXCEPT !.pc = pc, !.b = pass[r].b, !.nb = pass[r].nb].pc = pc
        BY <1>1 DEF PassState
      <3> QED
        BY <3>1, <3>2
    <2>3. CASE pc \notin {"dropold", "dropnew"}
      <3>1. pass' = [pass EXCEPT ![r] = [pass[r] EXCEPT !.pc = pc]]
        BY <2>3 DEF Step
      <3>2. [pass[r] EXCEPT !.pc = pc].pc = pc
        BY <1>1 DEF PassState
      <3> QED
        BY <3>1, <3>2
    <2> QED
      BY <2>1, <2>2, <2>3
  <1> QED
    BY <1>1, <1>2 DEF OnePass

LEMMA OneEnds ==
  ASSUME SessionInv, NEW r \in Pass, pass' = [pass EXCEPT ![r] = NoPass], UNCHANGED api
  PROVE  OnePass(r)
  <1>1. pass \in [Pass -> PassState]
    BY DEF SessionInv
  <1> QED
    BY <1>1, NoPassOK DEF OnePass

LEMMA OneAborts ==
  ASSUME SessionInv, NEW r \in Pass, Abort(r) \/ FailSession(r), UNCHANGED api
  PROVE  OnePass(r)
  BY OneEnds, OneStep DEF Abort, FailSession

\* The steps of a pass other than the attempts.
LEMMA OneSteps ==
  ASSUME SessionInv, NEW r \in Pass,
         \/ PassScan(r) \/ PassOrphansDone(r) \/ PassList(r) \/ PassLookup(r) \/ PassBump(r)
         \/ PassCreate(r) \/ PassBegin(r) \/ PassExec(r) \/ PassSettle(r) \/ PassDropNew(r)
         \/ PassDropOld(r) \/ PassTimeOut(r)
  PROVE  OnePass(r)
  <1>0. pass \in [Pass -> PassState] /\ pass[r] \in PassState /\ NoPass \in PassState
    BY NoPassOK DEF SessionInv
  <1>1. CASE PassScan(r)
    <2>1. \/ Step(r, "orphan")
          \/ \E b : pass' = [pass EXCEPT ![r] = [NoPass EXCEPT !.pc = "orphan", !.b = b]]
          \/ \E b : pass' = [pass EXCEPT ![r] = [[NoPass EXCEPT !.s = ses, !.b = b, !.br = bnd[b]]
                                                    EXCEPT !.pc = "list"]]
      BY <1>1 DEF PassScan
    <2>2. UNCHANGED api
      BY <1>1 DEF PassScan
    <2>3. CASE Step(r, "orphan")
      BY <2>2, <2>3, OneStep
    <2>4. CASE \E b : pass' = [pass EXCEPT ![r] = [NoPass EXCEPT !.pc = "orphan", !.b = b]]
      BY <1>0, <2>2, <2>4 DEF OnePass, PassState
    <2>5. CASE \E b : pass' = [pass EXCEPT ![r] = [[NoPass EXCEPT !.s = ses, !.b = b, !.br = bnd[b]]
                                                    EXCEPT !.pc = "list"]]
      BY <1>0, <2>2, <2>5 DEF OnePass, PassState
    <2> QED
      BY <2>1, <2>3, <2>4, <2>5
  <1>2. CASE PassOrphansDone(r)
    BY <1>2, OneStep, OneAborts DEF PassOrphansDone
  <1>3. CASE PassList(r)
    <2>1. /\ UNCHANGED api
          /\ \/ Step(r, "lookup") \/ Step(r, "migrate") \/ Abort(r) \/ FailSession(r)
             \/ pass' = [pass EXCEPT ![r] = NoPass]
      BY <1>3 DEF PassList
    <2> QED
      BY <2>1, OneStep, OneAborts, OneEnds
  <1>4. CASE PassLookup(r)
    BY <1>4, OneStep, OneAborts, OneEnds DEF PassLookup
  <1>5. CASE PassBump(r)
    <2>1. CASE Abort(r)
      BY <1>5, <2>1, OneAborts DEF PassBump
    <2>2. CASE ~Abort(r)
      BY <1>0, <1>5, <2>2 DEF PassBump, OnePass, PassState
    <2> QED
      BY <2>1, <2>2
  <1>6. CASE PassCreate(r)
    <2>1. CASE Step(r, "dropold")
      BY <1>6, <2>1, OneStep DEF PassCreate
    <2>2. CASE ~Step(r, "dropold")
      BY <1>0, <1>6, <2>2 DEF PassCreate, OnePass, PassState
    <2> QED
      BY <2>1, <2>2
  <1>7. CASE PassBegin(r)
    <2>1. CASE Step(r, "dropnew")
      BY <1>7, <2>1, OneStep DEF PassBegin
    <2>2. CASE ~Step(r, "dropnew")
      BY <1>0, <1>7, <2>2 DEF PassBegin, OnePass, PassState
    <2> QED
      BY <2>1, <2>2
  <1>8. CASE PassExec(r)
    BY <1>0, <1>8 DEF PassExec, OnePass, PassState
  <1>9. CASE PassSettle(r)
    <2>1. UNCHANGED api /\ (Step(r, "dropold") \/ Step(r, "dropnew"))
      BY <1>9 DEF PassSettle
    <2> QED
      BY <2>1, OneStep
  <1>10. CASE PassDropNew(r)
    BY <1>10, OneStep DEF PassDropNew
  <1>11. CASE PassDropOld(r)
    BY <1>11, OneEnds DEF PassDropOld
  <1>12. CASE PassTimeOut(r)
    BY <1>0, <1>12 DEF PassTimeOut, OnePass, PassState
  <1> QED
    BY <1>1, <1>2, <1>3, <1>4, <1>5, <1>6, <1>7, <1>8, <1>9, <1>10, <1>11, <1>12

\* The attempts of a pass. While a pass lives no start is without rows, and no
\* two passes have named the same binding.
LEMMA PassScheduleWait ==
  ASSUME SessionInv, SchedInv, WaitInv, NEW r \in Pass, PassSchedule(r)
  PROVE  WaitInv'
  <1> DEFINE p == pass[r]
  <1>0. p.pc = "schedule" /\ UNCHANGED api
    BY DEF PassSchedule
  <1>1. p \in PassState /\ p.nb \in Binding /\ ses.st # "none" /\ pass \in [Pass -> PassState]
    BY <1>0 DEF SessionInv, PassOK, HasCopies, HasNew
  <1>2. api["start"].pc # "schedule"
    BY <1>1 DEF SessionInv, CallOK, Kind
  <1>3. \A q \in Pass \ {r} : pass[q].pc = "schedule" => pass[q].nb # p.nb
    BY <1>0 DEF SessionInv, OwnBindings, Claiming
  <1>4. \A b \in Binding \ {p.nb} : sched'.at[b] = sched.at[b]
    BY PassScheduleSched
  <1>5. CASE UNCHANGED sched
    <2>1. OnePass(r)
      <3>1. CASE FailSession(r)
        BY <1>0, <3>1, OneAborts
      <3>2. CASE ~FailSession(r)
        <4>1. \/ \E n : pass' = [pass EXCEPT ![r].tried = @ \cup {n}]
              \/ \E n : pass' = [pass EXCEPT ![r] = [p EXCEPT !.pc = "reserve", !.node = n,
                                                           !.ep = reg[n].node.ep]]
          BY <3>2 DEF PassSchedule
        <4>2. CASE \E n : pass' = [pass EXCEPT ![r].tried = @ \cup {n}]
          BY <1>0, <1>1, <4>2 DEF OnePass, PassState
        <4>3. CASE \E n : pass' = [pass EXCEPT ![r] = [p EXCEPT !.pc = "reserve", !.node = n,
                                                           !.ep = reg[n].node.ep]]
          BY <1>0, <1>1, <4>3 DEF OnePass, PassState
        <4> QED
          BY <4>1, <4>2, <4>3
      <3> QED
        BY <3>1, <3>2
    <2> QED
      BY <1>5, <2>1, WaitPass, WaitStays
  <1>6. CASE ~UNCHANGED sched
    <2>1. PICK n : pass' = [pass EXCEPT ![r] = [p EXCEPT !.pc = "reserve", !.node = n,
                                                      !.ep = reg[n].node.ep]]
      BY <1>6 DEF PassSchedule
    <2>2. pass'[r].pc = "reserve" /\ \A q \in Pass \ {r} : pass'[q] = pass[q]
      BY <1>1, <2>1 DEF PassState
    <2>3. Waiting' \subseteq Waiting \ {p.nb}
      BY <1>0, <1>2, <1>3, <2>2 DEF Waiting
    <2> QED
      BY <1>4, <2>3 DEF WaitInv, Waiting
  <1> QED
    BY <1>5, <1>6

LEMMA PassReserveWait ==
  ASSUME SessionInv, SchedInv, WaitInv, NEW r \in Pass, PassReserve(r)
  PROVE  WaitInv'
  <1> DEFINE p == pass[r]
  <1>0. p.pc = "reserve" /\ UNCHANGED api
    BY DEF PassReserve
  <1>1. p \in PassState /\ p.nb \in Binding /\ pass \in [Pass -> PassState]
    BY <1>0 DEF SessionInv, PassOK, HasNew
  <1>2. CASE /\ pass' = [pass EXCEPT ![r] = [p EXCEPT !.pc = "bump", !.tried = {}]]
             /\ UNCHANGED sched
    <2>1. OnePass(r)
      BY <1>0, <1>1, <1>2 DEF OnePass, PassState
    <2> QED
      BY <1>2, <2>1, WaitPass, WaitStays
  <1>3. CASE /\ pass' = [pass EXCEPT ![r] = [p EXCEPT !.pc = "schedule", !.tried = @ \cup {p.node}]]
             /\ sched' = Forget(sched, p.nb)
    <2>1. pass'[r].nb = p.nb /\ \A q \in Pass \ {r} : pass'[q] = pass[q]
      BY <1>1, <1>3 DEF PassState
    <2>2. Waiting' \subseteq Waiting \cup {p.nb}
      BY <1>0, <2>1 DEF Waiting
    <2>3. /\ sched'.at[p.nb] = NoNode
          /\ \A c \in Binding : sched.at[c] = NoNode => sched'.at[c] = NoNode
      BY <1>1, <1>3, SchedForget
    <2>4. Waiting \subseteq Binding
      BY DEF Waiting
    <2> QED
      BY <2>2, <2>3, <2>4 DEF WaitInv
  <1> QED
    BY <1>2, <1>3 DEF PassReserve, ReserveRemote

LEMMA WaitNext ==
  ASSUME SessionInv, SchedInv, WaitInv, MediaNext
  PROVE  WaitInv'
  <1>1. ASSUME UNCHANGED sched, Waiting' \subseteq Waiting PROVE WaitInv'
    BY <1>1, WaitStays
  <1>2. CASE StartLive \/ StartPlayback \/ StartTalk \/ StartBroadcast
    <2>1. PICK b \in Binding :
            Fresh(b) /\ api' = [api EXCEPT !["start"] = [NoCall EXCEPT !.pc = "schedule", !.b = b]]
      BY <1>2 DEF StartLive, StartPlayback, StartTalk, StartBroadcast, StartRequest
    <2>2. UNCHANGED <<sched, pass>>
      BY <1>2 DEF StartLive, StartPlayback, StartTalk, StartBroadcast, StartRequest, nodeVars
    <2>3. api'["start"].b = b
      <3>1. "start" \in Kind /\ api \in [Kind -> Call]
        BY DEF Kind, SessionInv
      <3> QED
        BY <2>1, <3>1 DEF NoCall
    <2>4. sched.at[b] = NoNode
      BY <2>1 DEF Fresh, Unused
    <2> QED
      BY <2>2, <2>3, <2>4 DEF WaitInv, Waiting
  <1>3. CASE StartSchedule
    <2> DEFINE c == api["start"]
    <2>0. c.pc = "schedule" /\ UNCHANGED pass
      BY <1>3 DEF StartSchedule
    <2>1. c \in Call /\ c.b \in Binding /\ ses.st = "none" /\ "start" \in Kind /\ api \in [Kind -> Call]
      BY <2>0, StartFacts
    <2>2. \A r \in Pass : pass[r].pc # "schedule"
      BY <2>1 DEF SessionInv, PassOK, HasCopies, HasNew, Claiming
    <2>3. \A b \in Binding \ {c.b} : sched'.at[b] = sched.at[b]
      BY <1>3, StartScheduleSched
    <2>4. CASE UNCHANGED sched
      <3>1. \/ Goto("start", "done")
            \/ \E n : api' = [api EXCEPT !["start"].tried = @ \cup {n}]
            \/ \E n : api' = [api EXCEPT !["start"] = [c EXCEPT !.pc = "reserve", !.node = n,
                                                            !.ep = reg[n].node.ep]]
        BY <1>3 DEF StartSchedule
      <3>2. CASE Goto("start", "done")
        BY <1>1, <2>0, <2>1, <2>4, <3>2, WaitGoto
      <3>3. CASE \E n : api' = [api EXCEPT !["start"].tried = @ \cup {n}]
        <4>1. api'["start"].b = c.b /\ api'["start"].pc = c.pc
          BY <2>1, <3>3 DEF Call
        <4> QED
          BY <1>1, <2>0, <2>4, <4>1 DEF Waiting
      <3>4. CASE \E n : api' = [api EXCEPT !["start"] = [c EXCEPT !.pc = "reserve", !.node = n,
                                                            !.ep = reg[n].node.ep]]
        <4>1. api'["start"].pc = "reserve"
          BY <2>1, <3>4 DEF Call
        <4> QED
          BY <1>1, <2>0, <2>4, <4>1 DEF Waiting
      <3> QED
        BY <3>1, <3>2, <3>3, <3>4
    <2>5. CASE ~UNCHANGED sched
      <3>1. PICK n : api' = [api EXCEPT !["start"] = [c EXCEPT !.pc = "reserve", !.node = n,
                                                            !.ep = reg[n].node.ep]]
        BY <1>3, <2>5 DEF StartSchedule
      <3>2. api'["start"].pc = "reserve"
        BY <2>1, <3>1 DEF Call
      <3>3. Waiting' = {}
        BY <2>0, <2>2, <3>2 DEF Waiting
      <3> QED
        BY <3>3 DEF WaitInv
    <2> QED
      BY <2>4, <2>5
  <1>4. CASE StartReserve
    <2> DEFINE c == api["start"]
    <2>0. c.pc = "reserve" /\ UNCHANGED pass
      BY <1>4 DEF StartReserve
    <2>1. c \in Call /\ c.b \in Binding /\ ses.st = "none" /\ "start" \in Kind /\ api \in [Kind -> Call]
      BY <2>0, StartFacts
    <2>2. \A r \in Pass : pass[r].pc # "schedule"
      BY <2>1 DEF SessionInv, PassOK, HasCopies, HasNew, Claiming
    <2>3. \/ api' = [api EXCEPT !["start"] = [c EXCEPT !.pc = "persist", !.tried = {}]]
          \/ /\ api' = [api EXCEPT !["start"] = [c EXCEPT !.pc = "schedule", !.tried = @ \cup {c.node}]]
             /\ sched' = Forget(sched, c.b)
      BY <1>4 DEF StartReserve, ReserveRemote
    <2>4. CASE api' = [api EXCEPT !["start"] = [c EXCEPT !.pc = "persist", !.tried = {}]]
      <3>1. api'["start"].pc = "persist"
        BY <2>1, <2>4 DEF Call
      <3>2. Waiting' = {}
        BY <2>0, <2>2, <3>1 DEF Waiting
      <3> QED
        BY <3>2 DEF WaitInv
    <2>5. CASE /\ api' = [api EXCEPT !["start"] = [c EXCEPT !.pc = "schedule", !.tried = @ \cup {c.node}]]
               /\ sched' = Forget(sched, c.b)
      <3>1. api'["start"].b = c.b
        BY <2>1, <2>5 DEF Call
      <3>2. sched'.at[c.b] = NoNode
        BY <2>1, <2>5, SchedForget
      <3>3. Waiting' \subseteq {c.b}
        BY <2>0, <2>2, <3>1 DEF Waiting
      <3> QED
        BY <3>2, <3>3 DEF WaitInv
    <2> QED
      BY <2>3, <2>4, <2>5
  <1>5. CASE StartPersist \/ StartSettle \/ StopSettle \/ ControlSettle
    <2>1. UNCHANGED <<sched, pass>>
      BY <1>5 DEF StartPersist, StartSettle, StopSettle, ControlSettle, nodeVars
    <2>2. \E k \in Kind : \E pc \in {"begin", "drop", "done"} : Goto(k, pc)
      <3>1. CASE StartPersist
        BY <3>1 DEF StartPersist, Kind
      <3>2. CASE StartSettle
        BY <3>2 DEF StartSettle, RolledBack, Kind
      <3>3. CASE StopSettle
        BY <3>3 DEF StopSettle, RolledBack, Kind
      <3>4. CASE ControlSettle
        BY <3>4 DEF ControlSettle, Kind
      <3> QED
        BY <1>5, <3>1, <3>2, <3>3, <3>4
    <2> QED
      BY <1>1, <2>1, <2>2, WaitGoto
  <1>6. CASE StopRequest \/ ControlRequest
    <2>1. UNCHANGED <<sched, pass>>
      BY <1>6 DEF StopRequest, ControlRequest, nodeVars
    <2>2. PICK k \in Kind \ {"start"} : \E c : api' = [api EXCEPT ![k] = c]
      BY <1>6 DEF StopRequest, ControlRequest, Goto, Kind
    <2> QED
      BY <1>1, <2>1, <2>2, WaitCall
  <1>7. ASSUME NEW k \in Kind, Begin(k) \/ Exec(k) \/ Drop(k) \/ TimeOut(k) PROVE WaitInv'
    <2>1. CASE Begin(k)
      BY <1>1, <2>1, WaitGoto DEF Begin, nodeVars
    <2>2. CASE Exec(k)
      <3>1. UNCHANGED <<sched, pass>> /\ \E res : api' = [api EXCEPT ![k].pc = "settle", ![k].res = res]
        BY <2>2 DEF Exec
      <3>2. api \in [Kind -> Call] /\ api[k] \in Call
        BY DEF SessionInv
      <3>3. PICK res : api' = [api EXCEPT ![k].pc = "settle", ![k].res = res]
        BY <3>1
      <3>4. /\ api' = [api EXCEPT ![k] = [api[k] EXCEPT !.pc = "settle", !.res = res]]
            /\ [api[k] EXCEPT !.pc = "settle", !.res = res].pc = "settle"
        BY <3>2, <3>3 DEF Call
      <3> QED
        BY <1>1, <3>1, <3>4, WaitCall
    <2>3. CASE Drop(k)
      <3>1. api[k].b \in Binding /\ UNCHANGED pass /\ Goto(k, "done") /\ sched' = Forget(sched, api[k].b)
        BY <2>3 DEF Drop, Release, SessionInv, CallOK
      <3> QED
        BY <3>1, SchedForget, WaitGoto, WaitStays
    <2>4. CASE TimeOut(k)
      BY <2>4, WaitUnchanged DEF TimeOut
    <2> QED
      BY <1>7, <2>1, <2>2, <2>3, <2>4
  <1>8. ASSUME NEW r \in Pass, PassStep(r) \/ PassTimeOut(r) PROVE WaitInv'
    <2>1. CASE PassMigrate(r)
      <3>1. CASE FailSession(r)
        BY <1>1, <2>1, <3>1, OneAborts, WaitPass DEF PassMigrate, nodeVars
      <3>2. CASE ~FailSession(r)
        <4>1. PICK b \in Binding : Fresh(b) /\ pass' = [pass EXCEPT ![r].pc = "schedule", ![r].nb = b]
          BY <2>1, <3>2 DEF PassMigrate
        <4>2. UNCHANGED <<sched, api>>
          BY <2>1 DEF PassMigrate, nodeVars
        <4>3. pass'[r].nb = b /\ \A q \in Pass \ {r} : pass'[q] = pass[q]
          <5>1. pass \in [Pass -> PassState] /\ pass[r] \in PassState
            BY DEF SessionInv
          <5> QED
            BY <4>1, <5>1 DEF PassState
        <4>4. sched.at[b] = NoNode
          BY <4>1 DEF Fresh, Unused
        <4>5. Waiting' \subseteq Waiting \cup {b}
          BY <4>2, <4>3 DEF Waiting
        <4> QED
          BY <4>2, <4>4, <4>5 DEF WaitInv
      <3> QED
        BY <3>1, <3>2
    <2>2. CASE PassSchedule(r)
      BY <2>2, PassScheduleWait
    <2>3. CASE PassReserve(r)
      BY <2>3, PassReserveWait
    <2>4. CASE PassDropNew(r)
      <3>1. pass[r].nb \in Binding /\ sched' = Forget(sched, pass[r].nb)
        BY <2>4 DEF PassDropNew, Release, SessionInv, PassOK
      <3> QED
        BY <2>4, <3>1, SchedForget, OneSteps, WaitPass, WaitStays
    <2>5. CASE PassDropOld(r)
      <3>1. pass[r].b \in Binding /\ sched' = Forget(sched, pass[r].b)
        BY <2>5 DEF PassDropOld, Release, SessionInv, PassOK
      <3> QED
        BY <2>5, <3>1, SchedForget, OneSteps, WaitPass, WaitStays
    <2>6. CASE \/ PassScan(r) \/ PassOrphansDone(r) \/ PassList(r) \/ PassLookup(r) \/ PassBump(r)
               \/ PassCreate(r) \/ PassBegin(r) \/ PassExec(r) \/ PassSettle(r) \/ PassTimeOut(r)
      <3>1. UNCHANGED sched
        BY <2>6 DEF PassScan, PassOrphansDone, PassLookup, PassBump, PassCreate, PassBegin,
                    PassSettle, PassList, PassExec, PassTimeOut, nodeVars
      <3> QED
        BY <1>1, <2>6, <3>1, OneSteps, WaitPass
    <2> QED
      BY <1>8, <2>1, <2>2, <2>3, <2>4, <2>5, <2>6 DEF PassStep
  <1>9. ASSUME NEW r \in Pass, NEW n \in Node, PassOrphan(r, n) \/ CleanupNode(r, n) PROVE WaitInv'
    <2>1. CASE PassOrphan(r, n)
      BY <2>1, WaitUnchanged DEF PassOrphan
    <2>2. CASE CleanupNode(r, n)
      <3>1. UNCHANGED <<sched, api>> /\ \E b : pass' = [pass EXCEPT ![r].pc = "dropold", ![r].b = b]
        BY <2>2 DEF CleanupNode
      <3>2. pass \in [Pass -> PassState] /\ pass[r] \in PassState
        BY DEF SessionInv
      <3>3. OnePass(r)
        BY <3>1, <3>2 DEF OnePass, PassState
      <3> QED
        BY <1>1, <3>1, <3>3, WaitPass
    <2> QED
      BY <1>9, <2>1, <2>2
  <1>10. ASSUME NEW n \in Node, NodeStep(n), UNCHANGED <<dbVars, api, pass, evVars>> PROVE WaitInv'
    <2>1. UNCHANGED sched
      BY <1>10 DEF NodeStep, Register, Heartbeat, Drain, Deregister, Persist, Lapse, Reboot, Apply
    <2> QED
      BY <1>10, <2>1, WaitUnchanged
  <1>11. ASSUME NEW n \in Node, Emit(n) \/ Subscribe(n) PROVE WaitInv'
    BY <1>11, WaitUnchanged DEF Emit, Subscribe, nodeVars
  <1>12. ASSUME NEW n \in Node, NEW i, Consume(n, i) PROVE WaitInv'
    BY <1>12, WaitUnchanged DEF Consume, nodeVars
  <1>13. CASE Crash
    <2>1. \A r \in Pass : pass'[r].pc = "idle"
      BY <1>13, NoPassOK DEF Crash
    <2>2. api'["start"].pc # "schedule"
      <3>1. "start" \in Kind
        BY DEF Kind
      <3> QED
        BY <1>13, <3>1 DEF Crash, NoCall
    <2> QED
      BY <2>1, <2>2 DEF WaitInv, Waiting
  <1> QED
    BY <1>2, <1>3, <1>4, <1>5, <1>6, <1>7, <1>8, <1>9, <1>10, <1>11, <1>12, <1>13 DEF MediaNext

-----------------------------------------------------------------------------
\* The events of the media nodes.

LEMMA EventsStay ==
  ASSUME EventsInv, UNCHANGED evs
  PROVE  EventsInv'
  BY DEF EventsInv

LEMMA EmitEvents ==
  ASSUME SessionInv, NodesInv, EventsInv, NEW n \in Node, Emit(n)
  PROVE  EventsInv'
  <1>1. PICK k \in EventKind, o \in {"none", "start"}, b \in Binding :
          evs' = [evs EXCEPT ![n] = Append(@, [kind |-> k, b |-> b, ep |-> running[n],
                                             srev |-> ses.rev, brev |-> bnd[b].rev, op |-> o,
                                             seen |-> FALSE])]
    BY DEF Emit
  <1> DEFINE e == [kind |-> k, b |-> b, ep |-> running[n], srev |-> ses.rev,
                   brev |-> bnd[b].rev, op |-> o, seen |-> FALSE]
  <1>2. running[n] \in Nat /\ ses.rev \in Nat /\ bnd[b].rev \in Nat
    BY DEF NodesInv, SessionInv, RowsOK, SessionOK, Session, BindingRow
  <1>3. e \in Event /\ e.b \in Binding
    BY <1>2 DEF Event
  <1>4. evs' = [evs EXCEPT ![n] = Append(evs[n], e)]
    BY <1>1
  <1> HIDE DEF e
  <1>5. evs \in [Node -> Seq(Event)] /\ evs[n] \in Seq(Event)
    BY DEF EventsInv
  <1>6. /\ Append(evs[n], e) \in Seq(Event) /\ Len(Append(evs[n], e)) = Len(evs[n]) + 1
        /\ \A i \in 1 .. Len(evs[n]) : Append(evs[n], e)[i] = evs[n][i]
        /\ Append(evs[n], e)[Len(evs[n]) + 1] = e
    BY <1>3, <1>5, AppendProperties
  <1>7. evs' \in [Node -> Seq(Event)]
    BY <1>4, <1>5, <1>6
  <1>8. ASSUME NEW m \in Node, NEW i \in 1 .. Len(evs'[m]), ~evs'[m][i].seen
        PROVE  evs'[m][i].b \in Binding
    <2>1. CASE m # n
      BY <1>4, <1>5, <1>8, <2>1 DEF EventsInv
    <2>2. CASE m = n
      <3>1. evs'[n] = Append(evs[n], e)
        BY <1>4, <1>5
      <3>2. i \in 1 .. Len(evs[n]) \/ i = Len(evs[n]) + 1
        BY <1>5, <1>6, <2>2, <3>1
      <3> QED
        BY <1>3, <1>6, <1>8, <2>2, <3>1, <3>2 DEF EventsInv
    <2> QED
      BY <2>1, <2>2
  <1> QED
    BY <1>7, <1>8 DEF EventsInv

LEMMA ConsumeEvents ==
  ASSUME EventsInv, NEW n \in Node, NEW i, Consume(n, i)
  PROVE  EventsInv'
  <1>0. i \in 1 .. Len(evs[n]) /\ (evs' = evs \/ evs' = [evs EXCEPT ![n][i] = Seen])
    BY DEF Consume
  <1>1. CASE evs' = evs
    BY <1>1, EventsStay
  <1>2. CASE evs' = [evs EXCEPT ![n][i] = Seen]
    <2> DEFINE q == [evs[n] EXCEPT ![i] = Seen]
    <2>1. Seen \in Event /\ Seen.seen
      BY DEF Seen, Event, EventKind
    <2>2. evs \in [Node -> Seq(Event)] /\ evs[n] \in Seq(Event)
      BY DEF EventsInv
    <2>3. /\ q \in Seq(Event) /\ Len(q) = Len(evs[n])
          /\ \A j \in 1 .. Len(evs[n]) : q[j] = IF j = i THEN Seen ELSE evs[n][j]
      BY <1>0, <2>1, <2>2
    <2>4. evs' = [evs EXCEPT ![n] = q]
      BY <1>2, <2>2
    <2> HIDE DEF q
    <2>5. evs' \in [Node -> Seq(Event)] /\ evs'[n] = q /\ \A m \in Node \ {n} : evs'[m] = evs[m]
      BY <2>2, <2>3, <2>4
    <2> QED
      BY <2>1, <2>3, <2>5 DEF EventsInv
  <1> QED
    BY <1>0, <1>1, <1>2

LEMMA EventsNext ==
  ASSUME SessionInv, NodesInv, EventsInv, MediaNext
  PROVE  EventsInv'
  <1>1. CASE StartLive \/ StartPlayback \/ StartTalk \/ StartBroadcast \/ StartSchedule \/ StartReserve
             \/ StartPersist
             \/ StopRequest \/ ControlRequest \/ StartSettle \/ StopSettle \/ ControlSettle \/ Crash
    BY <1>1, EventsStay
       DEF StartLive, StartPlayback, StartTalk, StartBroadcast, StartRequest, StartSchedule, StartReserve,
           StartPersist, StopRequest,
           ControlRequest, StartSettle, StopSettle, ControlSettle, Crash, evVars
  <1>2. ASSUME NEW k \in Kind, Begin(k) \/ Exec(k) \/ Drop(k) \/ TimeOut(k) PROVE EventsInv'
    BY <1>2, EventsStay DEF Begin, Exec, Drop, TimeOut, evVars
  <1>3. ASSUME NEW r \in Pass, PassStep(r) PROVE EventsInv'
    <2>1. CASE PassScan(r) \/ PassOrphansDone(r)
      BY <2>1, EventsStay DEF PassScan, PassOrphansDone, evVars
    <2>2. CASE PassList(r)
      BY <2>2, EventsStay DEF PassList, evVars
    <2>3. CASE PassLookup(r)
      BY <2>3, EventsStay DEF PassLookup, evVars
    <2>4. CASE PassMigrate(r) \/ PassSchedule(r) \/ PassReserve(r)
      <3>1. UNCHANGED evs
        BY <2>4, Zenon DEF PassMigrate, PassSchedule, PassReserve, evVars
      <3> QED
        BY <3>1, EventsStay
    <2>5. CASE PassBump(r) \/ PassCreate(r) \/ PassBegin(r) \/ PassExec(r)
      BY <2>5, EventsStay DEF PassBump, PassCreate, PassBegin, PassExec, evVars
    <2>6. CASE PassSettle(r) \/ PassDropNew(r) \/ PassDropOld(r)
      BY <2>6, EventsStay DEF PassSettle, PassDropNew, PassDropOld, evVars
    <2> QED
      BY <1>3, <2>1, <2>2, <2>3, <2>4, <2>5, <2>6 DEF PassStep
  <1>4. ASSUME NEW r \in Pass, PassTimeOut(r) PROVE EventsInv'
    BY <1>4, EventsStay DEF PassTimeOut, evVars
  <1>5. ASSUME NEW r \in Pass, NEW n \in Node, PassOrphan(r, n) \/ CleanupNode(r, n) PROVE EventsInv'
    BY <1>5, EventsStay DEF PassOrphan, CleanupNode, evVars
  <1>6. ASSUME NEW n \in Node, NodeStep(n) /\ UNCHANGED <<dbVars, api, pass, evVars>> PROVE EventsInv'
    BY <1>6, EventsStay DEF evVars
  <1>7. ASSUME NEW n \in Node, Emit(n) \/ Subscribe(n) PROVE EventsInv'
    BY <1>7, EmitEvents, EventsStay DEF Subscribe
  <1>8. ASSUME NEW n \in Node, NEW i, Consume(n, i) PROVE EventsInv'
    BY <1>8, ConsumeEvents
  <1> QED
    BY <1>1, <1>2, <1>3, <1>4, <1>5, <1>6, <1>7, <1>8 DEF MediaNext

-----------------------------------------------------------------------------
\* The invariant and the theorems.

LEMMA InitInv ==
  ASSUME MediaInit
  PROVE  MediaInv
  <1>1. EventsInv
    <2>1. \A n \in Node : evs[n] = <<>>
      BY DEF MediaInit
    <2>2. evs \in [Node -> Seq(Event)]
      BY DEF MediaInit
    <2> QED
      BY <2>1, <2>2 DEF EventsInv
  <1>2. SchedInv
    BY NoSchedOK DEF MediaInit, NodesInit
  <1>3. NodesInv
    <2> DEFINE r == [inst |-> 1, ep |-> 1, status |-> "Active", alive |-> TRUE]
               e == [node |-> r, inst |-> 1, reported |-> 0, reserved |-> {}]
    <2>1. /\ boot = [n \in Node |-> 1] /\ running = [n \in Node |-> 0] /\ row = [n \in Node |-> r]
          /\ reg = [n \in Node |-> e] /\ late = {} /\ faults = 0
      BY DEF MediaInit, NodesInit
    <2>2. 1 \in 0 .. MaxFaults + 1 /\ 0 \in 0 .. MaxFaults
      BY MediaNodesAssumption
    <2>3. r \in NodeRow
      BY <2>2 DEF NodeRow, NodeStatus
    <2> HIDE DEF r
    <2>4. e \in NodeEntry
      BY <2>2, <2>3 DEF NodeEntry
    <2> HIDE DEF e
    <2> QED
      BY <2>1, <2>2, <2>3, <2>4 DEF NodesInv
  <1>4. SessionInv
    <2>1. /\ ses = NoSession /\ bnd = [b \in Binding |-> NoBindingRow]
          /\ api = [k \in Kind |-> NoCall] /\ pass = [r \in Pass |-> NoPass]
      BY DEF MediaInit
    <2>2. NoSession \in Session /\ NoSession.st = "none"
      BY DEF NoSession, Session, SessionState
    <2>3. NoBindingRow \in BindingRow /\ NoBindingRow.st = "none"
      BY DEF NoBindingRow, BindingRow, BindingState
    <2>4. RowOK(NoBindingRow)
      BY <2>3 DEF RowOK
    <2>5. RowsOK(ses, bnd)
      BY <2>1, <2>2, <2>3, <2>4 DEF RowsOK, SessionOK, BLive
    <2>6. NoCall \in Call /\ NoCall.pc = "idle"
      BY DEF NoCall, Call, Result
    <2>7. api \in [Kind -> Call] /\ \A k \in Kind : api[k].pc = "idle" /\ CallOK(api[k], ses, bnd)
      BY <2>1, <2>6 DEF CallOK
    <2>8. pass \in [Pass -> PassState] /\ \A r \in Pass : pass[r] = NoPass /\ PassOK(pass[r], ses, bnd)
      BY <2>1, NoPassOK
    <2>9. OwnBindings(pass)
      BY <2>8, NoPassOK DEF OwnBindings, Claiming
    <2> QED
      BY <2>5, <2>7, <2>8, <2>9 DEF SessionInv
  <1>5. WaitInv
    <2>1. \A b \in Binding : sched.at[b] = NoNode
      BY DEF MediaInit, NodesInit, NoSched
    <2> QED
      BY <2>1 DEF WaitInv, Waiting
  <1> QED
    BY <1>1, <1>2, <1>3, <1>4, <1>5 DEF MediaInv

LEMMA StutterInv ==
  ASSUME MediaInv, UNCHANGED mediaVars
  PROVE  MediaInv'
  <1>1. UNCHANGED <<boot, running, row, reg, late, faults, sched, ses, bnd, api, pass, evs>>
    BY DEF mediaVars, nodeVars, dbVars, evVars
  <1>2. SessionInv'
    BY <1>1, NothingWritten DEF MediaInv
  <1>3. NodesInv'
    BY <1>1, NodesStay DEF MediaInv
  <1>4. SchedInv'
    BY <1>1, SchedStays DEF MediaInv
  <1>5. EventsInv'
    BY <1>1, EventsStay DEF MediaInv
  <1>6. WaitInv'
    BY <1>1, WaitUnchanged DEF MediaInv
  <1> QED
    BY <1>2, <1>3, <1>4, <1>5, <1>6 DEF MediaInv

LEMMA StepInv ==
  ASSUME MediaInv, [MediaNext]_mediaVars
  PROVE  MediaInv'
  <1>1. CASE MediaNext
    <2>1. SessionInv /\ NodesInv /\ SchedInv /\ WaitInv /\ EventsInv /\ sched \in Sched
      BY DEF MediaInv, SchedInv
    <2> QED
      BY <1>1, <2>1, SessionNext, NodesNext, SchedNext, WaitNext, EventsNext DEF MediaInv
  <1> QED
    BY <1>1, StutterInv

\* MediaInv holds in every state the module reaches.
THEOREM MediaInvariance == MediaSpec => []MediaInv
  BY InitInv, StepInv, PTL DEF MediaSpec

\* However many passes migrate the session at once, and whatever stops, callbacks
\* and restarts come between their transactions, one binding lives at most:
\* migrate_or_fail saves the old one as failed before it creates the new one, and
\* a copy that is stale is refused by the revision.
THEOREM OneBindingLives == MediaSpec => []OneLiveBinding
  <1>1. ASSUME MediaInv PROVE OneLiveBinding
    <2>1. \A b, c \in Live : b = c
      BY <1>1 DEF MediaInv, SessionInv, RowsOK, Live
    <2>2. CASE Live = {}
      BY <2>2, FS_EmptySet DEF OneLiveBinding
    <2>3. CASE Live # {}
      <3>1. PICK b \in Live : TRUE
        BY <2>3
      <3>2. Live = {b}
        BY <2>1, <3>1
      <3>3. Cardinality(Live) = 1
        BY <3>2, FS_Singleton
      <3> QED
        BY <3>3 DEF OneLiveBinding
    <2> QED
      BY <2>2, <2>3
  <1> QED
    BY <1>1, MediaInvariance, PTL

\* allowed_transition and the compare-and-swap keep what ended as it ended: no
\* late callback, settled command or pass on old copies revives a row.
THEOREM EndStays == MediaSpec => EndIsKept
  <1>1. ASSUME MediaInv, [MediaNext]_mediaVars
        PROVE  [/\ SEnded(ses) => ses'.st = ses.st
                /\ \A b \in Binding : bnd[b].st \in BindingEnd => bnd'[b].st = bnd[b].st]_mediaVars
    <2>1. SessionInv /\ NodesInv /\ EventsInv
      BY <1>1 DEF MediaInv
    <2> QED
      BY <1>1, <2>1, SessionNext DEF Kept
  <1> QED
    BY <1>1, MediaInvariance, PTL DEF MediaSpec, EndIsKept

\* The affinity count of LeastLoadedScheduler is the number of reservations the
\* session holds, through attempts that the registry refuses and that are undone
\* and made again on another node, failed persists, released and migrated bindings
\* and a restart, and the limit on reservations is kept.
THEOREM AffinityIsCounted == MediaSpec => []AffinityCounted
  <1>1. MediaInv => AffinityCounted
    BY DEF MediaInv, SchedInv
  <1> QED
    BY <1>1, MediaInvariance, PTL
=============================================================================
