-------------------------- MODULE OperationsProofs --------------------------
(***************************************************************************)
(* Operations, for any number of workers, clients and copies of the event: *)
(* attempts follow one another, an acknowledged event is a settled         *)
(* operation, commands are sent under a recorded attempt, and readers see  *)
(* the one life cycle of OperationLifecycle.                               *)
(***************************************************************************)
EXTENDS Operations, TLAPS

-----------------------------------------------------------------------------
\* The inductive invariant.

\* All attempts but the last are refused, and a row that is not running has none.
AttemptsOK(r) ==
  /\ \A i \in 1 .. (Len(r.att) - 1) : r.att[i] = "Nacked"
  /\ r.status \in {"none", "Pending"} => r.att = <<>>

AttemptOpen(r) == Len(r.att) > 0 /\ r.att[Len(r.att)] = "Pending"

\* Copy r of the row o is as old as its revision says: of the present revision
\* it is the row.
CopyOf(r, o) == AttemptsOK(r) /\ r.rev <= o.rev /\ (r.rev = o.rev => r = o)

\* The statements of dispatch between the record of an attempt and its result.
Attempting(w) == task[w].pc \in {"send", "sent", "nack"}

\* What a worker with task t knows of its copy at each statement.
Knows(t, o) ==
  t.pc # "idle" =>
    /\ t.msg \in Msg
    /\ CopyOf(t.row, o)
    /\ t.row.status = IF t.pc = "start" THEN "Pending" ELSE "Running"
    /\ t.pc = "record" => ~HasSentAttempt(t.row)

TasksKnow == \A w \in Worker : Knows(task[w], op)

\* One worker at most is in an attempt, and nobody but that worker changes the
\* attempts of the row, although a client may change its status.
OneAttempts ==
  \A w \in Worker : Attempting(w) =>
    /\ AttemptOpen(task[w].row)
    /\ op.att = task[w].row.att
    /\ \A v \in Worker : Attempting(v) => v = w

\* An attempt that is about to be sent is not counted yet.
SendIsNew == \A w \in Worker : task[w].pc = "send" => sent < Len(op.att)

CallsKnow ==
  \A c \in Client : call[c] # NoRow =>
    CopyOf(call[c], op) /\ call[c].status \in {"Pending", "Running"}

\* Before the submission there is nothing.
NothingBefore ==
  op.status = "none" =>
    /\ op = NoRow /\ events = <<>>
    /\ \A m \in Msg : ~bus[m].live /\ bus[m].count = 0
    /\ \A w \in Worker : task[w].pc = "idle"
    /\ \A c \in Client : call[c] = NoRow

OpInv ==
  /\ OpTypeOK
  /\ events \in Seq([rev : Nat, status : Status])
  /\ AttemptsOK(op)
  /\ TasksKnow
  /\ OneAttempts
  /\ SendIsNew
  /\ CallsKnow
  /\ NothingBefore
  /\ AckMeansSettled
  /\ SendsAreRecorded

-----------------------------------------------------------------------------
\* What the changes of the row return.
LEMMA BumpedFacts ==
  ASSUME NEW r \in Row
  PROVE  /\ Bumped(r) \in Row
         /\ Bumped(r).status = r.status
         /\ Bumped(r).rev = r.rev + 1
         /\ Bumped(r).att = r.att
  BY DEF Bumped, Row

LEMMA WithStatusFacts ==
  ASSUME NEW r \in Row, NEW s \in Status
  PROVE  /\ WithStatus(r, s) \in Row
         /\ WithStatus(r, s).status = s
         /\ WithStatus(r, s).rev = r.rev + 1
         /\ WithStatus(r, s).att = r.att
  <1> DEFINE q == [r EXCEPT !.status = s]
  <1>1. q \in Row /\ q.status = s /\ q.rev = r.rev /\ q.att = r.att
    BY DEF Row
  <1> HIDE DEF q
  <1>2. /\ Bumped(q) \in Row
        /\ Bumped(q).status = s /\ Bumped(q).rev = r.rev + 1 /\ Bumped(q).att = r.att
    BY <1>1, BumpedFacts
  <1> QED
    BY <1>2 DEF WithStatus, q

LEMMA WithAttemptFacts ==
  ASSUME NEW r \in Row
  PROVE  /\ WithAttempt(r) \in Row
         /\ WithAttempt(r).status = r.status
         /\ WithAttempt(r).rev = r.rev + 1
         /\ Len(WithAttempt(r).att) = Len(r.att) + 1
         /\ WithAttempt(r).att[Len(r.att) + 1] = "Pending"
         /\ \A i \in 1 .. Len(r.att) : WithAttempt(r).att[i] = r.att[i]
  <1> DEFINE a == Append(r.att, "Pending")
             q == [r EXCEPT !.att = a]
  <1>1. r.att \in Seq(AttemptStatus) /\ "Pending" \in AttemptStatus
    BY DEF Row, AttemptStatus
  <1>2. /\ a \in Seq(AttemptStatus) /\ Len(a) = Len(r.att) + 1 /\ a[Len(r.att) + 1] = "Pending"
        /\ \A i \in 1 .. Len(r.att) : a[i] = r.att[i]
    BY <1>1
  <1> HIDE DEF a
  <1>3. q \in Row /\ q.status = r.status /\ q.rev = r.rev /\ q.att = a
    BY <1>2 DEF Row
  <1> HIDE DEF q
  <1>4. /\ Bumped(q) \in Row
        /\ Bumped(q).status = r.status /\ Bumped(q).rev = r.rev + 1 /\ Bumped(q).att = a
    BY <1>3, BumpedFacts
  <1>5. WithAttempt(r) = Bumped(q)
    BY DEF WithAttempt, q, a
  <1> QED
    BY <1>2, <1>4, <1>5

\* The latest pending attempt of a row whose last attempt is open is the last one.
LEMMA MarkedFacts ==
  ASSUME NEW r \in Row, NEW s \in AttemptStatus, AttemptsOK(r), AttemptOpen(r)
  PROVE  /\ Marked(r, s) \in Row
         /\ Marked(r, s).status = r.status
         /\ Marked(r, s).rev = r.rev + 1
         /\ Len(Marked(r, s).att) = Len(r.att)
         /\ Marked(r, s).att[Len(r.att)] = s
         /\ \A i \in 1 .. Len(r.att) : i # Len(r.att) => Marked(r, s).att[i] = r.att[i]
  <1> DEFINE n == Len(r.att)
             a == [r.att EXCEPT ![n] = s]
             q == [r EXCEPT !.att[n] = s]
  <1>1. r.att \in Seq(AttemptStatus) /\ n \in Nat /\ n > 0 /\ DOMAIN r.att = 1 .. n
    BY DEF Row, AttemptOpen
  <1>2. n \in DOMAIN r.att /\ r.att[n] = "Pending" /\ \A j \in DOMAIN r.att : j <= n
    BY <1>1 DEF AttemptOpen
  <1>3. /\ PendingAttempt(r) \in DOMAIN r.att
        /\ \A j \in DOMAIN r.att : r.att[j] = "Pending" => j <= PendingAttempt(r)
    BY <1>2 DEF PendingAttempt
  <1>4. PendingAttempt(r) = n
    BY <1>1, <1>2, <1>3
  <1>5. /\ a \in Seq(AttemptStatus) /\ Len(a) = n /\ a[n] = s
        /\ \A i \in 1 .. n : i # n => a[i] = r.att[i]
    BY <1>1
  <1>6. q \in Row /\ q.status = r.status /\ q.rev = r.rev /\ q.att = a
    BY <1>5 DEF Row
  <1>7. Marked(r, s) = Bumped(q)
    BY <1>4 DEF Marked, q
  <1> HIDE DEF q, a
  <1>8. /\ Bumped(q) \in Row
        /\ Bumped(q).status = r.status /\ Bumped(q).rev = r.rev + 1 /\ Bumped(q).att = a
    BY <1>6, BumpedFacts
  <1> QED
    BY <1>5, <1>7, <1>8

\* A copy stays a copy when the row gets its next revision.
LEMMA CopyAges ==
  ASSUME NEW r \in Row, NEW o \in Row, NEW n \in Row, CopyOf(r, o), n.rev = o.rev + 1
  PROVE  CopyOf(r, n)
  BY DEF CopyOf, Row

LEMMA CopyFresh ==
  ASSUME NEW r \in Row, AttemptsOK(r)
  PROVE  CopyOf(r, r)
  BY DEF CopyOf, Row

\* Only a copy of the present revision is saved.
LEMMA SavedIsRow ==
  ASSUME NEW r \in Row, CopyOf(r, op), op \in Row, NEW s \in Row, s.rev = r.rev + 1, Save(s)
  PROVE  r = op /\ op' = s
  BY DEF CopyOf, Save, Saves, Row

\* What the helpers of the actions change.
LEMMA TaskTypes ==
  ASSUME OpTypeOK
  PROVE  /\ op \in Row
         /\ \A w \in Worker : task[w] \in Task /\ task[w].row \in Row /\ task[w].pc \in Pc
         /\ \A c \in Client : call[c] \in Row
         /\ NoRow \in Row /\ IdleTask \in Task
  BY DEF OpTypeOK, Task, NoRow, Row, IdleTask, Status, Pc

LEMMA GotoFacts ==
  ASSUME OpTypeOK, NEW w \in Worker, NEW pc \in Pc, NEW r \in Row, Goto(w, pc, r)
  PROVE  /\ task' \in [Worker -> Task]
         /\ task'[w].pc = pc /\ task'[w].row = r /\ task'[w].msg = task[w].msg
         /\ \A v \in Worker \ {w} : task'[v] = task[v]
  <1>1. task \in [Worker -> Task] /\ task[w] \in Task
    BY DEF OpTypeOK
  <1>2. [task[w] EXCEPT !.pc = pc, !.row = r] \in Task
    BY <1>1 DEF Task
  <1>3. task' = [task EXCEPT ![w] = [task[w] EXCEPT !.pc = pc, !.row = r]]
    BY <1>1 DEF Goto, Task
  <1> QED
    BY <1>1, <1>2, <1>3 DEF Task

LEMMA FinishFacts ==
  ASSUME OpTypeOK, NEW w \in Worker, Finish(w)
  PROVE  /\ task' \in [Worker -> Task]
         /\ task'[w] = IdleTask /\ task'[w].pc = "idle"
         /\ \A v \in Worker \ {w} : task'[v] = task[v]
  BY TaskTypes DEF OpTypeOK, Finish, IdleTask

LEMMA AckFacts ==
  ASSUME OpTypeOK, NEW m \in Msg, Ack(m)
  PROVE  /\ bus' \in [Msg -> [live : BOOLEAN, count : 0 .. MaxDeliver]]
         /\ ~bus'[m].live
         /\ \A k \in Msg : bus'[k].count = bus[k].count /\ (bus'[k].live => bus[k].live)
         /\ \A k \in Msg \ {m} : bus'[k] = bus[k]
  BY DEF OpTypeOK, Ack

-----------------------------------------------------------------------------
\* The elements of a sequence.
LEMMA SeqElements ==
  ASSUME NEW S, NEW q \in Seq(S)
  PROVE  \A i \in DOMAIN q : q[i] \in S
  OBVIOUS

\* A save keeps what the workers outside of W know, which do not move, as long as
\* it changes no attempt that one of them is in.
LEMMA SaveKeeps ==
  ASSUME OpInv, NEW W \in SUBSET Worker, NEW r \in Row, Save(r),
         AttemptsOK(r), r.status # "none", Len(r.att) >= Len(op.att),
         r.att = op.att \/ \A v \in Worker \ W : ~Attempting(v),
         \A v \in Worker \ W : task'[v] = task[v],
         \A c \in Client : call'[c] \in {call[c], NoRow},
         sent' = sent
  PROVE  /\ op' = r /\ AttemptsOK(op)'
         /\ \A v \in Worker \ W : Knows(task'[v], op')
         /\ \A v \in Worker \ W : Attempting(v)' =>
              Attempting(v) /\ AttemptOpen(task'[v].row) /\ op'.att = task'[v].row.att
         /\ \A v \in Worker \ W : task'[v].pc = "send" => sent' < Len(op'.att)
         /\ CallsKnow' /\ NothingBefore' /\ SendsAreRecorded'
  <1>1. op \in Row /\ op' = r /\ r.rev = op.rev + 1
    BY DEF OpInv, OpTypeOK, Save, Saves
  <1>2. Len(op.att) \in Nat /\ Len(r.att) \in Nat /\ sent \in Nat
    BY <1>1 DEF OpInv, OpTypeOK, Row
  <1>3. \A v \in Worker \ W : Knows(task'[v], op')
    <2> SUFFICES ASSUME NEW v \in Worker \ W, task[v].pc # "idle"
                 PROVE  CopyOf(task[v].row, r)
      BY <1>1 DEF OpInv, TasksKnow, Knows
    <2>1. CopyOf(task[v].row, op) /\ task[v].row \in Row
      BY TaskTypes DEF OpInv, TasksKnow, Knows
    <2> QED
      BY <1>1, <2>1, CopyAges
  <1>4. \A v \in Worker \ W : Attempting(v)' =>
          Attempting(v) /\ AttemptOpen(task'[v].row) /\ op'.att = task'[v].row.att
    BY <1>1 DEF OpInv, OneAttempts, Attempting
  <1>5. \A v \in Worker \ W : task'[v].pc = "send" => sent' < Len(op'.att)
    BY <1>1, <1>2 DEF OpInv, SendIsNew
  <1>6. CallsKnow'
    <2> SUFFICES ASSUME NEW c \in Client, call[c] # NoRow, call'[c] = call[c]
                 PROVE  CopyOf(call[c], r) /\ call[c].status \in {"Pending", "Running"}
      BY <1>1 DEF CallsKnow
    <2>1. CopyOf(call[c], op) /\ call[c] \in Row /\ call[c].status \in {"Pending", "Running"}
      BY TaskTypes DEF OpInv, CallsKnow
    <2> QED
      BY <1>1, <2>1, CopyAges
  <1>7. NothingBefore'
    BY <1>1 DEF NothingBefore
  <1>8. AttemptsOK(op')
    BY <1>1
  <1>9. SendsAreRecorded'
    <2>1. sent <= Len(op.att)
      BY DEF OpInv, SendsAreRecorded
    <2>2. sent' <= Len(op'.att)
      BY <1>1, <1>2, <2>1
    <2> QED
      BY <2>2 DEF SendsAreRecorded
  <1> QED
    BY <1>1, <1>3, <1>4, <1>5, <1>6, <1>7, <1>8, <1>9

\* A worker that stops in the middle, whatever the reason, leaves the rest alone.
LEMMA FinishInv ==
  ASSUME OpInv, NEW w \in Worker, Finish(w), crashes' \in 0 .. MaxCrashes,
         UNCHANGED <<op, events, bus, call, sent>>
  PROVE  OpInv'
  <1>1. /\ task' \in [Worker -> Task] /\ task'[w].pc = "idle"
        /\ \A v \in Worker \ {w} : task'[v] = task[v]
    BY FinishFacts DEF OpInv
  <1>2. OpTypeOK'
    BY <1>1 DEF OpInv, OpTypeOK
  <1>3. TasksKnow'
    BY <1>1 DEF OpInv, TasksKnow, Knows
  <1>4. OneAttempts'
    BY <1>1 DEF OpInv, OneAttempts, Attempting
  <1>5. SendIsNew' /\ NothingBefore'
    BY <1>1 DEF OpInv, SendIsNew, NothingBefore
  <1>6. CallsKnow' /\ AckMeansSettled' /\ SendsAreRecorded' /\ AttemptsOK(op)'
    BY DEF OpInv, CallsKnow, AckMeansSettled, SendsAreRecorded, AttemptsOK, HasSentAttempt, IsTerminal
  <1> QED
    BY <1>2, <1>3, <1>4, <1>5, <1>6 DEF OpInv

LEMMA AbandonInv ==
  ASSUME OpInv, NEW w \in Worker, NEW r, Abandon(w, r)
  PROVE  OpInv'
  BY FinishInv DEF Abandon, OpInv, OpTypeOK

\* The initial state.
LEMMA OpInitInv == OpInit => OpInv
  <1> SUFFICES ASSUME OpInit PROVE OpInv
    OBVIOUS
  <1> USE OperationsAssumption DEF OpInit
  <1>1. NoRow \in Row /\ NoRow.att = <<>> /\ NoRow.status = "none"
    BY DEF NoRow, Row, Status
  <1>2. IdleTask \in Task /\ IdleTask.pc = "idle"
    BY <1>1 DEF IdleTask, Task, Pc
  <1>3. OpTypeOK /\ events \in Seq([rev : Nat, status : Status])
    BY <1>1, <1>2 DEF OpTypeOK
  <1>4. TasksKnow /\ OneAttempts /\ SendIsNew /\ CallsKnow
    BY <1>2 DEF TasksKnow, Knows, OneAttempts, Attempting, SendIsNew, CallsKnow
  <1>5. NothingBefore /\ AckMeansSettled
    BY <1>1, <1>2 DEF NothingBefore, AckMeansSettled
  <1>6. AttemptsOK(op) /\ SendsAreRecorded
    BY <1>1 DEF AttemptsOK, SendsAreRecorded
  <1> QED
    BY <1>3, <1>4, <1>5, <1>6 DEF OpInv

-----------------------------------------------------------------------------
\* A step in which worker w saves the row.
LEMMA WorkerSaveInv ==
  ASSUME OpInv, NEW w \in Worker, NEW r \in Row, Save(r), task[w].msg \in Msg,
         AttemptsOK(r), r.status # "none", Len(r.att) >= Len(op.att),
         r.att = op.att \/ \A v \in Worker \ {w} : ~Attempting(v),
         IsTerminal(op) \/ HasSentAttempt(op) => IsTerminal(r) \/ HasSentAttempt(r),
         task' \in [Worker -> Task], \A v \in Worker \ {w} : task'[v] = task[v],
         Knows(task'[w], r),
         Attempting(w)' => /\ AttemptOpen(task'[w].row) /\ r.att = task'[w].row.att
                           /\ \A v \in Worker \ {w} : ~Attempting(v),
         task'[w].pc = "send" => sent < Len(r.att),
         \/ bus' = bus
         \/ Ack(task[w].msg) /\ (IsTerminal(r) \/ HasSentAttempt(r)),
         events' \in Seq([rev : Nat, status : Status]),
         UNCHANGED <<call, sent, crashes>>
  PROVE  OpInv'
  <1>1. /\ op' = r /\ AttemptsOK(op)'
        /\ \A v \in Worker \ {w} : Knows(task'[v], op')
        /\ \A v \in Worker \ {w} : Attempting(v)' =>
             Attempting(v) /\ AttemptOpen(task'[v].row) /\ op'.att = task'[v].row.att
        /\ \A v \in Worker \ {w} : task'[v].pc = "send" => sent' < Len(op'.att)
        /\ CallsKnow' /\ NothingBefore' /\ SendsAreRecorded'
    BY SaveKeeps, {w} \in SUBSET Worker
  <1>2. TasksKnow'
    BY <1>1 DEF TasksKnow
  <1>3. OneAttempts'
    BY <1>1 DEF OpInv, OneAttempts
  <1>4. SendIsNew'
    BY <1>1 DEF SendIsNew
  <1>5. /\ bus' \in [Msg -> [live : BOOLEAN, count : 0 .. MaxDeliver]]
        /\ \A k \in Msg : bus'[k].count = bus[k].count
        /\ \A k \in Msg : bus'[k].live = bus[k].live \/ IsTerminal(r) \/ HasSentAttempt(r)
    BY AckFacts DEF OpInv, OpTypeOK
  <1>6. AckMeansSettled'
    BY <1>1, <1>5 DEF OpInv, AckMeansSettled
  <1>7. OpTypeOK'
    <2>1. \A i \in DOMAIN events' : events'[i] \in [rev : Nat, status : Status]
      BY SeqElements
    <2> QED
      BY <1>1, <1>5, <2>1 DEF OpInv, OpTypeOK
  <1> QED
    BY <1>1, <1>2, <1>3, <1>4, <1>6, <1>7 DEF OpInv

\* The events after a save that tells.
LEMMA TellFacts ==
  ASSUME OpInv, NEW r \in Row, SaveAndTell(r)
  PROVE  Save(r) /\ events' \in Seq([rev : Nat, status : Status])
  <1>1. [rev |-> r.rev, status |-> r.status] \in [rev : Nat, status : Status]
    BY DEF Row
  <1> QED
    BY <1>1 DEF OpInv, SaveAndTell

\* What OpInv says of the copy of a worker.
LEMMA CopyFacts ==
  ASSUME OpInv, NEW w \in Worker, task[w].pc # "idle"
  PROVE  /\ task[w].row \in Row /\ op \in Row /\ task[w].msg \in Msg
         /\ CopyOf(task[w].row, op) /\ AttemptsOK(task[w].row)
         /\ task[w].row.status = IF task[w].pc = "start" THEN "Pending" ELSE "Running"
         /\ Len(op.att) \in Nat /\ sent \in Nat /\ sent <= Len(op.att)
  BY TaskTypes DEF OpInv, TasksKnow, Knows, CopyOf, OpTypeOK, Row, SendsAreRecorded

LEMMA StartInv ==
  ASSUME OpInv, NEW w \in Worker, Start(w)
  PROVE  OpInv'
  <1> DEFINE old == task[w].row
             r == WithStatus(old, "Running")
  <1>1. /\ old \in Row /\ op \in Row /\ CopyOf(old, op) /\ old.status = "Pending"
        /\ task[w].msg \in Msg /\ old.att = <<>> /\ task[w].pc = "start"
    BY CopyFacts DEF Start, AttemptsOK
  <1>2. r \in Row /\ r.status = "Running" /\ r.rev = old.rev + 1 /\ r.att = old.att
    BY <1>1, WithStatusFacts DEF Status
  <1> HIDE DEF r
  <1>3. CASE SaveAndTell(r) /\ Goto(w, "record", r) /\ UNCHANGED <<bus, call, sent, crashes>>
    <2>1. Save(r) /\ events' \in Seq([rev : Nat, status : Status])
      BY <1>2, <1>3, TellFacts
    <2>2. old = op
      BY <1>1, <1>2, <2>1, SavedIsRow
    <2>3. AttemptsOK(r) /\ ~HasSentAttempt(r) /\ ~HasSentAttempt(op) /\ ~IsTerminal(op)
      BY <1>1, <1>2, <2>2 DEF AttemptsOK, HasSentAttempt, IsTerminal, Terminal
    <2>4. /\ task' \in [Worker -> Task] /\ task'[w].pc = "record" /\ task'[w].row = r
          /\ task'[w].msg = task[w].msg /\ \A v \in Worker \ {w} : task'[v] = task[v]
      BY <1>2, <1>3, GotoFacts DEF OpInv, Pc
    <2>5. Knows(task'[w], r) /\ ~Attempting(w)' /\ task'[w].pc # "send"
      BY <1>1, <1>2, <2>3, <2>4, CopyFresh DEF Knows, Attempting
    <2>6. r.att = op.att /\ Len(r.att) >= Len(op.att)
      BY <1>1, <1>2, <2>2
    <2> QED
      BY <1>1, <1>2, <1>3, <2>1, <2>3, <2>4, <2>5, <2>6, WorkerSaveInv
  <1> QED
    BY <1>3, AbandonInv DEF Start, r

\* Only an attempt that the worker has just recorded is sent: the save with a
\* pending attempt of an earlier dispatch has no new revision.
LEMMA RecordInv ==
  ASSUME OpInv, NEW w \in Worker, Record(w)
  PROVE  OpInv'
  <1> DEFINE old == task[w].row
             r == WithAttempt(old)
  <1>1. /\ old \in Row /\ op \in Row /\ CopyOf(old, op) /\ AttemptsOK(old)
        /\ old.status = "Running" /\ task[w].msg \in Msg /\ task[w].pc = "record"
        /\ ~HasSentAttempt(old) /\ sent \in Nat /\ sent <= Len(op.att)
    BY CopyFacts DEF Record, OpInv, TasksKnow, Knows
  <1>2. /\ r \in Row /\ r.status = "Running" /\ r.rev = old.rev + 1
        /\ Len(r.att) = Len(old.att) + 1 /\ r.att[Len(old.att) + 1] = "Pending"
        /\ \A i \in 1 .. Len(old.att) : r.att[i] = old.att[i]
    BY <1>1, WithAttemptFacts
  <1> HIDE DEF r
  <1>3. ~Save(old)
    BY <1>1 DEF Save, Saves, CopyOf, Row
  <1>4. CASE /\ ~HasPendingAttempt(old) /\ Save(r) /\ Goto(w, "send", r)
             /\ UNCHANGED <<events, bus, call, sent, crashes>>
    <2>1. old = op
      BY <1>1, <1>2, <1>4, SavedIsRow
    <2>2. Len(old.att) \in Nat /\ DOMAIN old.att = 1 .. Len(old.att)
          /\ \A i \in 1 .. Len(old.att) : old.att[i] \in AttemptStatus
      BY <1>1 DEF Row
    <2>3. \A i \in 1 .. Len(old.att) : old.att[i] = "Nacked"
      BY <1>1, <1>4, <2>2 DEF HasPendingAttempt, HasSentAttempt, AttemptStatus
    <2>4. AttemptsOK(r) /\ AttemptOpen(r)
      <3>1. \A i \in 1 .. (Len(r.att) - 1) : r.att[i] = "Nacked"
        BY <1>2, <2>2, <2>3
      <3>2. Len(r.att) > 0 /\ r.att[Len(r.att)] = "Pending"
        BY <1>2, <2>2
      <3> QED
        BY <1>2, <3>1, <3>2 DEF AttemptsOK, AttemptOpen
    <2>5. \A v \in Worker : ~Attempting(v)
      BY <2>1, <2>2, <2>3 DEF OpInv, OneAttempts, AttemptOpen
    <2>6. ~HasSentAttempt(op) /\ ~IsTerminal(op)
      BY <1>1, <2>1 DEF IsTerminal, Terminal
    <2>7. /\ task' \in [Worker -> Task] /\ task'[w].pc = "send" /\ task'[w].row = r
          /\ task'[w].msg = task[w].msg /\ \A v \in Worker \ {w} : task'[v] = task[v]
      BY <1>2, <1>4, GotoFacts DEF OpInv, Pc
    <2>8. Knows(task'[w], r)
      BY <1>1, <1>2, <2>4, <2>7, CopyFresh DEF Knows
    <2>9. sent < Len(r.att) /\ Len(r.att) >= Len(op.att)
      BY <1>1, <1>2, <2>1, <2>2
    <2>10. events' \in Seq([rev : Nat, status : Status])
      BY <1>4 DEF OpInv
    <2> QED
      BY <1>1, <1>2, <1>4, <2>4, <2>5, <2>6, <2>7, <2>8, <2>9, <2>10, WorkerSaveInv
  <1> QED
    BY <1>3, <1>4, AbandonInv DEF Record, r

LEMMA SendInv ==
  ASSUME OpInv, NEW w \in Worker, Send(w)
  PROVE  OpInv'
  <1>1. PICK pc \in {"sent", "nack"} :
          Goto(w, pc, task[w].row) /\ sent' \in {sent, sent + 1}
    BY DEF Send
  <1>2. /\ UNCHANGED <<op, events, bus, call, crashes>>
        /\ task[w].pc = "send" /\ task[w].row \in Row /\ sent \in Nat /\ Len(op.att) \in Nat
    BY CopyFacts DEF Send
  <1>3. /\ task' \in [Worker -> Task] /\ task'[w].pc = pc /\ task'[w].row = task[w].row
        /\ task'[w].msg = task[w].msg /\ \A v \in Worker \ {w} : task'[v] = task[v]
    BY <1>1, <1>2, GotoFacts DEF OpInv, Pc
  <1>4. Attempting(w) /\ sent < Len(op.att) /\ \A v \in Worker \ {w} : ~Attempting(v)
    BY <1>2 DEF OpInv, OneAttempts, SendIsNew, Attempting
  <1>5. OpTypeOK'
    BY <1>1, <1>2, <1>3 DEF OpInv, OpTypeOK
  <1>6. TasksKnow'
    BY <1>2, <1>3 DEF OpInv, TasksKnow, Knows
  <1>7. OneAttempts'
    BY <1>2, <1>3, <1>4 DEF OpInv, OneAttempts, Attempting
  <1>8. SendIsNew' /\ SendsAreRecorded'
    BY <1>1, <1>2, <1>3, <1>4 DEF SendIsNew, SendsAreRecorded, Attempting
  <1>9. NothingBefore'
    BY <1>2 DEF OpInv, NothingBefore
  <1>10. CallsKnow' /\ AckMeansSettled' /\ AttemptsOK(op)'
    BY <1>2 DEF OpInv, CallsKnow, AckMeansSettled, AttemptsOK, HasSentAttempt, IsTerminal
  <1> QED
    BY <1>2, <1>5, <1>6, <1>7, <1>8, <1>9, <1>10 DEF OpInv

\* The row after the result of an attempt, saved by the only worker in one.
LEMMA ResultFacts ==
  ASSUME OpInv, NEW w \in Worker, task[w].pc \in {"sent", "nack"},
         NEW s \in {"Sent", "Nacked"}, Save(Marked(task[w].row, s))
  PROVE  /\ Marked(task[w].row, s) \in Row
         /\ Marked(task[w].row, s).status = "Running"
         /\ AttemptsOK(Marked(task[w].row, s))
         /\ Len(Marked(task[w].row, s).att) >= Len(op.att)
         /\ s = "Sent" => HasSentAttempt(Marked(task[w].row, s))
         /\ ~IsTerminal(op) /\ ~HasSentAttempt(op)
         /\ \A v \in Worker \ {w} : ~Attempting(v)
  <1> DEFINE old == task[w].row
             r == Marked(old, s)
  <1>1. /\ old \in Row /\ op \in Row /\ CopyOf(old, op) /\ AttemptsOK(old) /\ old.status = "Running"
    BY CopyFacts
  <1>2. AttemptOpen(old) /\ \A v \in Worker \ {w} : ~Attempting(v)
    BY DEF OpInv, OneAttempts, Attempting
  <1>3. /\ r \in Row /\ r.status = "Running" /\ r.rev = old.rev + 1 /\ Len(r.att) = Len(old.att)
        /\ r.att[Len(old.att)] = s
        /\ \A i \in 1 .. Len(old.att) : i # Len(old.att) => r.att[i] = old.att[i]
    BY <1>1, <1>2, MarkedFacts DEF AttemptStatus
  <1> HIDE DEF r
  <1>4. old = op
    BY <1>1, <1>3, SavedIsRow DEF r
  <1>5. /\ Len(old.att) \in Nat /\ DOMAIN old.att = 1 .. Len(old.att) /\ Len(old.att) > 0
        /\ DOMAIN r.att = 1 .. Len(old.att)
    BY <1>1, <1>2, <1>3 DEF Row, AttemptOpen
  <1>6. AttemptsOK(r)
    BY <1>1, <1>3, <1>5 DEF AttemptsOK
  <1>7. s = "Sent" => HasSentAttempt(r)
    BY <1>3, <1>5 DEF HasSentAttempt
  <1>8. ~IsTerminal(op) /\ ~HasSentAttempt(op)
    <2>1. \A i \in 1 .. Len(old.att) : old.att[i] \in {"Nacked", "Pending"}
      BY <1>1, <1>2, <1>5 DEF AttemptsOK, AttemptOpen
    <2> QED
      BY <1>1, <1>4, <1>5, <2>1 DEF IsTerminal, Terminal, HasSentAttempt
  <1> QED
    BY <1>2, <1>3, <1>4, <1>5, <1>6, <1>7, <1>8 DEF r

LEMMA SaveSentInv ==
  ASSUME OpInv, NEW w \in Worker, SaveSent(w)
  PROVE  OpInv'
  <1> DEFINE r == Marked(task[w].row, "Sent")
  <1>1. task[w].pc = "sent" /\ task[w].msg \in Msg
    BY CopyFacts DEF SaveSent
  <1>2. CASE Save(r) /\ Ack(task[w].msg) /\ Finish(w) /\ UNCHANGED <<events, call, sent, crashes>>
    <2>1. /\ r \in Row /\ r.status = "Running" /\ AttemptsOK(r) /\ Len(r.att) >= Len(op.att)
          /\ HasSentAttempt(r) /\ \A v \in Worker \ {w} : ~Attempting(v)
      BY <1>1, <1>2, ResultFacts
    <2> HIDE DEF r
    <2>2. /\ task' \in [Worker -> Task] /\ task'[w].pc = "idle"
          /\ \A v \in Worker \ {w} : task'[v] = task[v]
      BY <1>2, FinishFacts DEF OpInv
    <2>3. Knows(task'[w], r) /\ ~Attempting(w)' /\ task'[w].pc # "send"
      BY <2>2 DEF Knows, Attempting
    <2>4. events' \in Seq([rev : Nat, status : Status])
      BY <1>2 DEF OpInv
    <2> QED
      BY <1>1, <1>2, <2>1, <2>2, <2>3, <2>4, WorkerSaveInv
  <1> QED
    BY <1>2, AbandonInv DEF SaveSent

LEMMA SaveNackedInv ==
  ASSUME OpInv, NEW w \in Worker, SaveNacked(w)
  PROVE  OpInv'
  <1> DEFINE r == Marked(task[w].row, "Nacked")
  <1>1. task[w].pc = "nack" /\ task[w].msg \in Msg
    BY CopyFacts DEF SaveNacked
  <1>2. CASE Save(r) /\ Goto(w, "fail", r) /\ UNCHANGED <<events, bus, call, sent, crashes>>
    <2>1. /\ r \in Row /\ r.status = "Running" /\ AttemptsOK(r) /\ Len(r.att) >= Len(op.att)
          /\ ~IsTerminal(op) /\ ~HasSentAttempt(op) /\ \A v \in Worker \ {w} : ~Attempting(v)
      BY <1>1, <1>2, ResultFacts
    <2> HIDE DEF r
    <2>2. /\ task' \in [Worker -> Task] /\ task'[w].pc = "fail" /\ task'[w].row = r
          /\ task'[w].msg = task[w].msg /\ \A v \in Worker \ {w} : task'[v] = task[v]
      BY <1>2, <2>1, GotoFacts DEF OpInv, Pc
    <2>3. Knows(task'[w], r) /\ ~Attempting(w)' /\ task'[w].pc # "send"
      BY <1>1, <2>1, <2>2, CopyFresh DEF Knows, Attempting
    <2>4. events' \in Seq([rev : Nat, status : Status])
      BY <1>2 DEF OpInv
    <2> QED
      BY <1>1, <1>2, <2>1, <2>2, <2>3, <2>4, WorkerSaveInv
  <1> QED
    BY <1>2, AbandonInv DEF SaveNacked

LEMMA SaveFailedInv ==
  ASSUME OpInv, NEW w \in Worker, SaveFailed(w)
  PROVE  OpInv'
  <1> DEFINE old == task[w].row
             r == WithStatus(old, "Failed")
  <1>1. /\ task[w].pc = "fail" /\ task[w].msg \in Msg /\ old \in Row /\ op \in Row
        /\ CopyOf(old, op) /\ AttemptsOK(old)
    BY CopyFacts DEF SaveFailed
  <1>2. r \in Row /\ r.status = "Failed" /\ r.rev = old.rev + 1 /\ r.att = old.att
    BY <1>1, WithStatusFacts DEF Status, Terminal
  <1>3. AttemptsOK(r) /\ IsTerminal(r)
    BY <1>1, <1>2 DEF AttemptsOK, IsTerminal, Terminal
  <1> HIDE DEF r
  <1>4. CASE SaveAndTell(r) /\ Ack(task[w].msg) /\ Finish(w) /\ UNCHANGED <<call, sent, crashes>>
    <2>1. Save(r) /\ events' \in Seq([rev : Nat, status : Status])
      BY <1>2, <1>4, TellFacts
    <2>2. r.att = op.att /\ Len(r.att) >= Len(op.att)
      <3>1. old = op
        BY <1>1, <1>2, <2>1, SavedIsRow
      <3>2. Len(op.att) \in Nat
        BY <1>1 DEF Row
      <3> QED
        BY <1>2, <3>1, <3>2
    <2>3. /\ task' \in [Worker -> Task] /\ task'[w].pc = "idle"
          /\ \A v \in Worker \ {w} : task'[v] = task[v]
      BY <1>4, FinishFacts DEF OpInv
    <2>4. Knows(task'[w], r) /\ ~Attempting(w)' /\ task'[w].pc # "send"
      BY <2>3 DEF Knows, Attempting
    <2> QED
      BY <1>1, <1>2, <1>3, <1>4, <2>1, <2>2, <2>3, <2>4, WorkerSaveInv
  <1> QED
    BY <1>4, AbandonInv DEF SaveFailed, r

-----------------------------------------------------------------------------
\* Submission, the bus and the clients.
LEMMA SubmitInv ==
  ASSUME OpInv, Submit
  PROVE  OpInv'
  <1>1. /\ op.status = "none" /\ sent \in Nat /\ sent <= 0
        /\ UNCHANGED <<bus, task, call, sent, crashes>>
    BY DEF Submit, NoRow, OpInv, SendsAreRecorded, OpTypeOK
  <1>2. /\ op' \in Row /\ op'.status = "Pending" /\ op'.att = <<>>
        /\ events' \in Seq([rev : Nat, status : Status])
    BY DEF Submit, Row, Status
  <1>3. /\ \A m \in Msg : ~bus[m].live /\ bus[m].count = 0
        /\ \A w \in Worker : task[w].pc = "idle"
        /\ \A c \in Client : call[c] = NoRow
    BY <1>1 DEF OpInv, NothingBefore
  <1>4. OpTypeOK'
    <2>1. \A i \in DOMAIN events' : events'[i] \in [rev : Nat, status : Status]
      BY <1>2, SeqElements
    <2> QED
      BY <1>1, <1>2, <2>1 DEF OpInv, OpTypeOK
  <1>5. TasksKnow' /\ OneAttempts' /\ SendIsNew' /\ CallsKnow'
    BY <1>1, <1>3 DEF TasksKnow, Knows, OneAttempts, Attempting, SendIsNew, CallsKnow
  <1>6. NothingBefore' /\ AckMeansSettled' /\ SendsAreRecorded'
    BY <1>1, <1>2, <1>3 DEF NothingBefore, AckMeansSettled, SendsAreRecorded
  <1>7. AttemptsOK(op)'
    BY <1>2 DEF AttemptsOK
  <1> QED
    BY <1>2, <1>4, <1>5, <1>6, <1>7 DEF OpInv

\* Steps that leave the row, its events, the clients and what was sent alone.
LEMMA RowStays ==
  ASSUME OpInv, UNCHANGED <<op, events, call, sent, crashes>>,
         op.status # "none",
         bus' \in [Msg -> [live : BOOLEAN, count : 0 .. MaxDeliver]],
         \A m \in Msg : bus'[m].count > 0 /\ ~bus'[m].live => IsTerminal(op) \/ HasSentAttempt(op),
         task' \in [Worker -> Task],
         \A w \in Worker : \/ task'[w] = task[w]
                           \/ Knows(task'[w], op) /\ task'[w].pc \in {"start", "record"}
  PROVE  OpInv'
  <1>1. OpTypeOK'
    BY DEF OpInv, OpTypeOK
  <1>2. TasksKnow'
    BY DEF OpInv, TasksKnow
  <1>3. \A w \in Worker : Attempting(w)' => task'[w] = task[w] /\ Attempting(w)
    BY DEF Attempting
  <1>4. OneAttempts' /\ SendIsNew'
    BY <1>3 DEF OpInv, OneAttempts, SendIsNew, Attempting
  <1>5. AckMeansSettled'
    BY DEF AckMeansSettled, IsTerminal, HasSentAttempt
  <1>6. CallsKnow' /\ NothingBefore' /\ SendsAreRecorded' /\ AttemptsOK(op)'
    BY DEF OpInv, CallsKnow, NothingBefore, SendsAreRecorded, AttemptsOK
  <1> QED
    BY <1>1, <1>2, <1>4, <1>5, <1>6 DEF OpInv

LEMMA PublishInv ==
  ASSUME OpInv, NEW m \in Msg, Publish(m)
  PROVE  OpInv'
  <1>1. op.status # "none"
    BY DEF Publish, OpInv, NothingBefore
  <1>2. /\ bus' \in [Msg -> [live : BOOLEAN, count : 0 .. MaxDeliver]]
        /\ bus'[m].live /\ \A k \in Msg \ {m} : bus'[k] = bus[k]
    BY DEF Publish, OpInv, OpTypeOK
  <1>3. \A k \in Msg : bus'[k].count > 0 /\ ~bus'[k].live => IsTerminal(op) \/ HasSentAttempt(op)
    BY <1>2 DEF OpInv, AckMeansSettled
  <1>4. task' \in [Worker -> Task]
    BY DEF Publish, OpInv, OpTypeOK
  <1> QED
    BY <1>1, <1>2, <1>3, <1>4, RowStays DEF Publish

LEMMA DeliverInv ==
  ASSUME OpInv, NEW w \in Worker, NEW m \in Msg, Deliver(w, m)
  PROVE  OpInv'
  <1> DEFINE done == IsTerminal(op) \/ (op.status = "Running" /\ HasSentAttempt(op))
             t == [pc |-> IF op.status = "Pending" THEN "start" ELSE "record", msg |-> m, row |-> op]
  <1>1. op.status # "none" /\ op \in Row /\ bus[m] \in [live : BOOLEAN, count : 0 .. MaxDeliver]
    BY DEF Deliver, OpInv, NothingBefore, OpTypeOK
  <1>2. /\ bus' = [bus EXCEPT ![m].count = @ + 1, ![m].live = ~done]
        /\ bus[m].count < MaxDeliver
        /\ task' = IF done THEN task ELSE [task EXCEPT ![w] = t]
        /\ UNCHANGED <<op, events, call, sent, crashes>>
    BY DEF Deliver
  <1>3. bus' \in [Msg -> [live : BOOLEAN, count : 0 .. MaxDeliver]]
    <2>1. bus[m].count + 1 \in 0 .. MaxDeliver /\ (~done) \in BOOLEAN
      BY <1>1, <1>2, OperationsAssumption
    <2> HIDE DEF done
    <2>2. [bus[m] EXCEPT !.count = @ + 1, !.live = ~done] \in [live : BOOLEAN, count : 0 .. MaxDeliver]
      BY <1>1, <2>1
    <2> QED
      BY <1>2, <2>2 DEF OpInv, OpTypeOK
  <1>4. /\ bus'[m].live = ~done
        /\ \A k \in Msg \ {m} : bus'[k] = bus[k]
    <2> HIDE DEF done
    <2> QED
      BY <1>1, <1>2 DEF OpInv, OpTypeOK
  <1>5. \A k \in Msg : bus'[k].count > 0 /\ ~bus'[k].live => IsTerminal(op) \/ HasSentAttempt(op)
    BY <1>4 DEF OpInv, AckMeansSettled
  <1>6. CASE done
    <2>1. task' = task /\ task \in [Worker -> Task]
      BY <1>2, <1>6 DEF OpInv, OpTypeOK
    <2> QED
      BY <1>1, <1>2, <1>3, <1>5, <2>1, RowStays
  <1>7. CASE ~done
    <2>1. op.status \in {"Pending", "Running"} /\ AttemptsOK(op)
      BY <1>1, <1>7 DEF IsTerminal, Row, Status, OpInv
    <2>2. op.status # "Pending" => ~HasSentAttempt(op)
      BY <1>7, <2>1
    <2>3. t \in Task /\ t.pc \in {"start", "record"} /\ t.msg = m /\ t.row = op
          /\ t.pc = (IF op.status = "Pending" THEN "start" ELSE "record")
      BY <1>1 DEF Task, Pc
    <2>4. Knows(t, op)
      BY <1>1, <2>1, <2>2, <2>3, CopyFresh DEF Knows
    <2> HIDE DEF t
    <2>5. task' = [task EXCEPT ![w] = t] /\ task \in [Worker -> Task]
      BY <1>2, <1>7 DEF OpInv, OpTypeOK
    <2> HIDE DEF done
    <2>6. /\ task' \in [Worker -> Task] /\ task'[w] = t /\ \A v \in Worker \ {w} : task'[v] = task[v]
      BY <2>3, <2>5
    <2> QED
      BY <1>1, <1>2, <1>3, <1>5, <2>3, <2>4, <2>6, RowStays
  <1> QED
    BY <1>6, <1>7

LEMMA ClientReadInv ==
  ASSUME OpInv, NEW c \in Client, ClientRead(c)
  PROVE  OpInv'
  <1>1. /\ op \in Row /\ op.status \in {"Pending", "Running"} /\ AttemptsOK(op)
        /\ call' = [call EXCEPT ![c] = op] /\ UNCHANGED <<op, events, bus, task, sent, crashes>>
    BY DEF ClientRead, OpInv, OpTypeOK
  <1>2. call' \in [Client -> Row] /\ call'[c] = op /\ \A d \in Client \ {c} : call'[d] = call[d]
    BY <1>1 DEF OpInv, OpTypeOK
  <1>3. OpTypeOK'
    BY <1>1, <1>2 DEF OpInv, OpTypeOK
  <1>4. CallsKnow'
    BY <1>1, <1>2, CopyFresh DEF OpInv, CallsKnow
  <1>5. NothingBefore'
    BY <1>1 DEF NothingBefore
  <1>6. TasksKnow' /\ OneAttempts' /\ SendIsNew'
    BY <1>1 DEF OpInv, TasksKnow, OneAttempts, Attempting, SendIsNew
  <1>7. AckMeansSettled' /\ SendsAreRecorded' /\ AttemptsOK(op)'
    BY <1>1 DEF OpInv, AckMeansSettled, SendsAreRecorded, AttemptsOK, IsTerminal, HasSentAttempt
  <1> QED
    BY <1>1, <1>3, <1>4, <1>5, <1>6, <1>7 DEF OpInv

\* What a client saves is a terminal status of the row it has read.
LEMMA OutcomeFacts ==
  ASSUME OpInv, NEW c \in Client, call[c] # NoRow, NEW s \in Outcomes(call[c])
  PROVE  /\ call[c] \in Row /\ CopyOf(call[c], op) /\ AttemptsOK(call[c]) /\ s \in Terminal
         /\ WithStatus(call[c], s) \in Row
         /\ WithStatus(call[c], s).status = s
         /\ WithStatus(call[c], s).rev = call[c].rev + 1
         /\ WithStatus(call[c], s).att = call[c].att
         /\ \/ call[c].status = "Pending" /\ s \in {"Cancelled", "TimedOut", "Failed"}
            \/ call[c].status = "Running"
  <1>1. call[c] \in Row /\ CopyOf(call[c], op) /\ call[c].status \in {"Pending", "Running"}
    BY TaskTypes DEF OpInv, CallsKnow
  <1>2. s \in Terminal /\ s \in Status
    BY <1>1 DEF Outcomes, Terminal, Status
  <1>3. \/ call[c].status = "Pending" /\ s \in {"Cancelled", "TimedOut", "Failed"}
        \/ call[c].status = "Running"
    BY <1>1 DEF Outcomes
  <1> QED
    BY <1>1, <1>2, <1>3, WithStatusFacts DEF CopyOf

LEMMA ClientSaveInv ==
  ASSUME OpInv, NEW c \in Client, ClientSave(c)
  PROVE  OpInv'
  <1>1. /\ call[c] # NoRow /\ call' = [call EXCEPT ![c] = NoRow] /\ UNCHANGED <<bus, task, sent, crashes>>
    BY DEF ClientSave
  <1>2. /\ call' \in [Client -> Row] /\ \A d \in Client : call'[d] \in {call[d], NoRow}
    BY <1>1, TaskTypes DEF OpInv, OpTypeOK
  <1>3. CASE UNCHANGED <<op, events>>
    <2>1. OpTypeOK'
      BY <1>1, <1>2, <1>3 DEF OpInv, OpTypeOK
    <2>2. CallsKnow' /\ NothingBefore'
      BY <1>1, <1>2, <1>3 DEF OpInv, CallsKnow, NothingBefore
    <2>3. TasksKnow' /\ OneAttempts' /\ SendIsNew'
      BY <1>1, <1>3 DEF OpInv, TasksKnow, OneAttempts, Attempting, SendIsNew
    <2>4. AckMeansSettled' /\ SendsAreRecorded' /\ AttemptsOK(op)'
      BY <1>1, <1>3 DEF OpInv, AckMeansSettled, SendsAreRecorded, AttemptsOK, IsTerminal, HasSentAttempt
    <2> QED
      BY <1>3, <2>1, <2>2, <2>3, <2>4 DEF OpInv
  <1>4. ASSUME NEW s \in Outcomes(call[c]), SaveAndTell(WithStatus(call[c], s))
        PROVE  OpInv'
    <2> DEFINE r == WithStatus(call[c], s)
    <2>1. /\ call[c] \in Row /\ CopyOf(call[c], op) /\ AttemptsOK(call[c]) /\ s \in Terminal
          /\ r \in Row /\ r.status = s /\ r.rev = call[c].rev + 1 /\ r.att = call[c].att
      BY <1>1, OutcomeFacts
    <2> HIDE DEF r
    <2>2. Save(r) /\ events' \in Seq([rev : Nat, status : Status])
      BY <1>4, <2>1, TellFacts DEF r
    <2>3. op \in Row
      BY TaskTypes DEF OpInv
    <2>4. call[c] = op
      BY <2>1, <2>2, <2>3, SavedIsRow
    <2>5. AttemptsOK(r) /\ r.status # "none" /\ IsTerminal(r)
      BY <2>1 DEF AttemptsOK, IsTerminal, Terminal
    <2>6. r.att = op.att /\ Len(r.att) >= Len(op.att)
      BY <2>1, <2>3, <2>4 DEF Row
    <2>7. /\ op' = r /\ AttemptsOK(op)'
          /\ \A v \in Worker : Knows(task'[v], op')
          /\ \A v \in Worker : Attempting(v)' =>
               Attempting(v) /\ AttemptOpen(task'[v].row) /\ op'.att = task'[v].row.att
          /\ \A v \in Worker : task'[v].pc = "send" => sent' < Len(op'.att)
          /\ CallsKnow' /\ NothingBefore' /\ SendsAreRecorded'
      <3>1. {} \in SUBSET Worker /\ Worker \ {} = Worker
        OBVIOUS
      <3> QED
        BY <1>1, <1>2, <2>1, <2>2, <2>5, <2>6, <3>1, SaveKeeps
    <2>8. TasksKnow' /\ OneAttempts' /\ SendIsNew'
      BY <2>7 DEF OpInv, TasksKnow, OneAttempts, SendIsNew
    <2>9. OpTypeOK'
      <3>1. \A i \in DOMAIN events' : events'[i] \in [rev : Nat, status : Status]
        BY <2>2, SeqElements
      <3> QED
        BY <1>1, <1>2, <2>1, <2>7, <3>1 DEF OpInv, OpTypeOK
    <2>10. AckMeansSettled'
      BY <2>5, <2>7 DEF AckMeansSettled
    <2> QED
      BY <2>2, <2>7, <2>8, <2>9, <2>10 DEF OpInv
  <1> QED
    BY <1>3, <1>4 DEF ClientSave

-----------------------------------------------------------------------------
\* Every step preserves the invariant.
LEMMA OpStepInv == OpInv /\ [OpNext]_opVars => OpInv'
  <1> SUFFICES ASSUME OpInv, [OpNext]_opVars PROVE OpInv'
    OBVIOUS
  <1>1. ASSUME NEW w \in Worker, Dispatch(w) PROVE OpInv'
    BY <1>1, StartInv, RecordInv, SendInv, SaveSentInv, SaveNackedInv, SaveFailedInv DEF Dispatch
  <1>2. ASSUME NEW w \in Worker, Crash(w) PROVE OpInv'
    <2>1. crashes' \in 0 .. MaxCrashes
      BY <1>2, OperationsAssumption DEF Crash, OpInv, OpTypeOK
    <2> QED
      BY <1>2, <2>1, FinishInv DEF Crash
  <1>3. CASE UNCHANGED opVars
    <2> USE <1>3 DEF opVars, OpInv
    <2>1. OpTypeOK' /\ (events \in Seq([rev : Nat, status : Status]))'
      BY DEF OpTypeOK
    <2>2. TasksKnow' /\ OneAttempts' /\ SendIsNew'
      BY DEF TasksKnow, OneAttempts, Attempting, SendIsNew
    <2>3. CallsKnow' /\ NothingBefore'
      BY DEF CallsKnow, NothingBefore
    <2>4. AckMeansSettled' /\ SendsAreRecorded' /\ AttemptsOK(op)'
      BY DEF AckMeansSettled, SendsAreRecorded, AttemptsOK, IsTerminal, HasSentAttempt
    <2> QED
      BY <2>1, <2>2, <2>3, <2>4
  <1> QED
    BY <1>1, <1>2, <1>3, SubmitInv, PublishInv, DeliverInv, ClientReadInv, ClientSaveInv DEF OpNext

LEMMA OpInvariance == OpSpec => []OpInv
  BY OpInitInv, OpStepInv, PTL DEF OpSpec

\* Attempts of an operation follow one another: however many copies of the event
\* are handled at the same time, a new attempt is recorded only after the one
\* before it was refused.
THEOREM OneAttemptAtATime == OpSpec => []AttemptsSequential
  <1>1. OpInv => AttemptsSequential
    BY DEF OpInv, AttemptsOK, AttemptsSequential
  <1> QED
    BY <1>1, OpInvariance, PTL

\* A copy of the submission event that the dispatcher acknowledged belongs to an
\* operation that has ended or whose command is recorded as sent.
THEOREM NoAckUnsettled == OpSpec => []AckMeansSettled
  <1>1. OpInv => AckMeansSettled
    BY DEF OpInv
  <1> QED
    BY <1>1, OpInvariance, PTL

\* The dispatcher never sends more commands than the row has attempts.
THEOREM SentUnderAttempt == OpSpec => []SendsAreRecorded
  <1>1. OpInv => SendsAreRecorded
    BY DEF OpInv
  <1> QED
    BY <1>1, OpInvariance, PTL

-----------------------------------------------------------------------------
\* The statuses that the events of the outbox tell.
Told == [i \in DOMAIN events |-> events[i].status]

\* A save that tells appends the new status to what was told.
LEMMA ToldFacts ==
  ASSUME OpInv, NEW r \in Row, SaveAndTell(r)
  PROVE  op'.status = r.status /\ Told' = Append(Told, r.status)
  <1> DEFINE e == [rev |-> r.rev, status |-> r.status]
             n == Len(events)
  <1>1. /\ events \in Seq([rev : Nat, status : Status]) /\ events' = Append(events, e)
        /\ op' = r /\ e \in [rev : Nat, status : Status] /\ e.status = r.status
    BY DEF OpInv, SaveAndTell, Save, Row
  <1> HIDE DEF e
  <1>2. /\ n \in Nat /\ DOMAIN events = 1 .. n /\ DOMAIN events' = 1 .. (n + 1)
        /\ events'[n + 1] = e /\ \A i \in 1 .. n : events'[i] = events[i]
    BY <1>1
  <1>3. /\ Told \in Seq(Status) /\ Len(Told) = n /\ \A i \in 1 .. n : Told[i] = events[i].status
    <2>0. \A i \in 1 .. n : events[i] \in [rev : Nat, status : Status]
      BY <1>1, <1>2, SeqElements
    <2>1. \A i \in 1 .. n : events[i].status \in Status
      BY <2>0
    <2>2. Told \in [1 .. n -> Status]
      BY <1>2, <2>1 DEF Told
    <2> QED
      BY <1>2, <2>2 DEF Told
  <1>4. /\ Told' = [i \in 1 .. (n + 1) |-> events'[i].status]
    BY <1>2 DEF Told
  <1>5. r.status \in Status
    BY DEF Row
  <1>6. Append(Told, r.status) = [i \in 1 .. (n + 1) |-> IF i = n + 1 THEN r.status ELSE Told[i]]
    BY <1>2, <1>3, <1>5
  <1>7. \A i \in 1 .. (n + 1) : events'[i].status = IF i = n + 1 THEN r.status ELSE Told[i]
    BY <1>1, <1>2, <1>3
  <1> QED
    BY <1>1, <1>4, <1>6, <1>7

\* A step of Operations is a step of the life cycle, or changes neither the status
\* nor the events.
LEMMA LifeStep == OpInv /\ [OpNext]_opVars => [Life!LifeNext]_<<op.status, Told>>
  <1> SUFFICES ASSUME OpInv, [OpNext]_opVars
               PROVE  Life!LifeNext \/ UNCHANGED <<op.status, Told>>
    OBVIOUS
  <1>0. ASSUME UNCHANGED <<op, events>> PROVE UNCHANGED <<op.status, Told>>
    BY <1>0 DEF Told
  <1>1. CASE Submit
    <2>1. op.status = "none" /\ events = <<>>
      BY <1>1 DEF Submit, NoRow, OpInv, NothingBefore
    <2>2. op'.status = "Pending" /\ events' = <<[rev |-> 0, status |-> "Pending"]>>
      BY <1>1 DEF Submit
    <2>3. Told = <<>> /\ Told' = <<"Pending">>
      BY <2>1, <2>2 DEF Told
    <2>4. Life!LifeNew
      BY <2>1, <2>2, <2>3 DEF Life!LifeNew, Life!Move, Told
    <2> QED
      BY <2>4 DEF Life!LifeNext
  <1>2. ASSUME NEW w \in Worker, Dispatch(w)
        PROVE  Life!LifeNext \/ UNCHANGED <<op.status, Told>>
    <2>1. CASE UNCHANGED <<op, events>>
      BY <1>0, <2>1
    <2>2. ASSUME NEW r \in Row, SaveAndTell(r), CopyOf(task[w].row, op), task[w].row \in Row,
                 \/ r = WithStatus(task[w].row, "Running") /\ task[w].row.status = "Pending"
                 \/ r = WithStatus(task[w].row, "Failed") /\ task[w].row.status = "Running"
          PROVE  Life!LifeNext
      <3>1. op'.status = r.status /\ Told' = Append(Told, r.status)
        BY <2>2, ToldFacts
      <3>2. task[w].row = op
        <4>1. r.rev = task[w].row.rev + 1
          BY <2>2, WithStatusFacts DEF Status, Terminal
        <4>2. Save(r) /\ op \in Row
          BY <2>2, TaskTypes DEF SaveAndTell, OpInv
        <4> QED
          BY <2>2, <4>1, <4>2, SavedIsRow
      <3>3. \/ op.status = "Pending" /\ r.status = "Running"
            \/ op.status = "Running" /\ r.status = "Failed"
        BY <2>2, <3>2, WithStatusFacts DEF Status, Terminal
      <3> QED
        BY <3>1, <3>3 DEF Life!LifeNext, Life!LifeStart, Life!LifeComplete, Life!Move, Life!Terminal, Told
    <2>3. CASE Start(w) \/ SaveFailed(w)
      <3>1. /\ task[w].pc # "idle" /\ task[w].row \in Row /\ CopyOf(task[w].row, op)
            /\ Start(w) => task[w].row.status = "Pending"
            /\ SaveFailed(w) => task[w].row.status = "Running"
        BY <2>3, CopyFacts DEF Start, SaveFailed
      <3>2. /\ WithStatus(task[w].row, "Running") \in Row
            /\ WithStatus(task[w].row, "Failed") \in Row
        BY <3>1, WithStatusFacts DEF Status, Terminal
      <3> QED
        BY <2>1, <2>2, <2>3, <3>1, <3>2 DEF Start, SaveFailed, Abandon
    <2>4. CASE Send(w)
      BY <1>0, <2>4 DEF Send
    <2>5. CASE Record(w) \/ SaveSent(w) \/ SaveNacked(w)
      <3>1. SUFFICES ASSUME NEW r \in Row, Save(r), UNCHANGED events,
                            r.status = task[w].row.status, r.rev = task[w].row.rev + 1
                     PROVE  UNCHANGED <<op.status, Told>>
        <4>1. /\ task[w].row \in Row /\ CopyOf(task[w].row, op) /\ AttemptsOK(task[w].row) /\ op \in Row
          BY <2>5, CopyFacts DEF Record, SaveSent, SaveNacked
        <4>2. ~Save(task[w].row)
          BY <4>1 DEF Save, Saves, CopyOf, Row
        <4>3. SaveSent(w) \/ SaveNacked(w) => AttemptOpen(task[w].row)
          BY DEF SaveSent, SaveNacked, OpInv, OneAttempts, Attempting
        <4>4. CASE Record(w)
          BY <2>1, <3>1, <4>1, <4>2, <4>4, WithAttemptFacts DEF Record, Abandon
        <4>5. CASE SaveSent(w)
          BY <2>1, <3>1, <4>1, <4>3, <4>5, MarkedFacts DEF SaveSent, Abandon, AttemptStatus
        <4>6. CASE SaveNacked(w)
          BY <2>1, <3>1, <4>1, <4>3, <4>6, MarkedFacts DEF SaveNacked, Abandon, AttemptStatus
        <4> QED
          BY <2>5, <4>4, <4>5, <4>6
      <3>2. task[w].row = op /\ op' = r
        <4>1. task[w].row \in Row /\ CopyOf(task[w].row, op) /\ op \in Row
          BY <2>5, CopyFacts DEF Record, SaveSent, SaveNacked
        <4> QED
          BY <3>1, <4>1, SavedIsRow
      <3> QED
        BY <3>1, <3>2 DEF Told
    <2> QED
      BY <1>2, <2>3, <2>4, <2>5 DEF Dispatch
  <1>3. ASSUME NEW c \in Client, ClientSave(c)
        PROVE  Life!LifeNext \/ UNCHANGED <<op.status, Told>>
    <2>1. ASSUME NEW s \in Outcomes(call[c]), call[c] # NoRow, SaveAndTell(WithStatus(call[c], s))
          PROVE  Life!LifeNext
      <3>1. /\ call[c] \in Row /\ CopyOf(call[c], op) /\ s \in Terminal
            /\ WithStatus(call[c], s) \in Row /\ WithStatus(call[c], s).status = s
            /\ WithStatus(call[c], s).rev = call[c].rev + 1
            /\ \/ call[c].status = "Pending" /\ s \in {"Cancelled", "TimedOut", "Failed"}
               \/ call[c].status = "Running"
        BY <2>1, OutcomeFacts
      <3>2. op'.status = s /\ Told' = Append(Told, s)
        BY <2>1, <3>1, ToldFacts
      <3>3. call[c] = op
        <4>1. Save(WithStatus(call[c], s)) /\ op \in Row
          BY <2>1, TaskTypes DEF SaveAndTell, OpInv
        <4> QED
          BY <3>1, <4>1, SavedIsRow
      <3>4. Life!LifeComplete(s) \/ Life!LifeAbort(s)
        BY <3>1, <3>2, <3>3 DEF Life!LifeComplete, Life!LifeAbort, Life!Move, Terminal, Told
      <3> QED
        BY <3>1, <3>4 DEF Life!LifeNext, Life!Terminal, Terminal
    <2> QED
      BY <1>0, <1>3, <2>1 DEF ClientSave
  <1> QED
    BY <1>0, <1>1, <1>2, <1>3
       DEF OpNext, opVars, Publish, Crash, Deliver, ClientRead

\* The row and its events implement the life cycle that readers are promised: one
\* status after the other in the order of OperationLifecycle, each told once, in
\* spite of concurrent dispatches, clients, conflicts and crashes.
THEOREM ImplementsLifeCycle == OpSpec => LifeCycle
  <1>1. OpInit => Life!LifeInit
    BY DEF OpInit, NoRow, Life!LifeInit
  <1>2. OpInv /\ [OpNext]_opVars => [Life!LifeNext]_<<op.status, [i \in DOMAIN events |-> events[i].status]>>
    BY LifeStep DEF Told
  <1> QED
    BY <1>1, <1>2, OpInvariance, PTL DEF OpSpec, LifeCycle, Life!LifeSpec
=============================================================================
