------------------------------ MODULE GbProofs ------------------------------
(***************************************************************************)
(* Proofs about GbPresence, for any number of connections, any capacities  *)
(* of channel and dead letters, and any bounds.                            *)
(***************************************************************************)
EXTENDS GbPresence, FiniteSetTheorems, SequenceTheorems, TLAPS

-----------------------------------------------------------------------------
\* The inductive invariant of admission.

WorkerOK(w) ==
  /\ w \in Worker
  /\ w.pc # "idle" => w.ev \in Event
  /\ w.pc = "mark" => w.ev.kind \in {"Registered", "Online"}
  /\ w.pc = "boot" => w.ev.kind = "Registered"

HasKeepalive(w) == w.pc # "idle" /\ Low(w.ev)

\* Dead letters are no keepalives, and the key is that of the one keepalive in
\* the channel or in the worker's hands.
KeyOK(s, w) ==
  /\ \A i \in 1 .. Len(s.dlq) : ~Low(s.dlq[i])
  /\ \A i, j \in 1 .. Len(s.queue) : Low(s.queue[i]) /\ Low(s.queue[j]) => i = j
  /\ HasKeepalive(w) => \A i \in 1 .. Len(s.queue) : ~Low(s.queue[i])
  /\ s.key <=> HasKeepalive(w) \/ \E i \in 1 .. Len(s.queue) : Low(s.queue[i])

SinkOK(s, w) ==
  /\ s \in Sink
  /\ Len(s.queue) <= QueueDepth /\ Len(s.dlq) <= DlqCapacity
  /\ s.pending = Len(s.queue) + IF w.pc = "got" THEN 1 ELSE 0
  /\ KeyOK(s, w)

SinkInv ==
  /\ reg \in Registration /\ next \in Nat
  /\ out \in [Task -> Seq(Event)]
  /\ WorkerOK(worker) /\ SinkOK(sink, worker)
  /\ row \in Row /\ mishap \in BOOLEAN /\ turn \in Seq(Task)

-----------------------------------------------------------------------------
\* The inductive invariant of the order: the events under way form one line,
\* from the worker to the task that changed the table last, and lead from what
\* the row says to what the table says.

\* What the table said when it produced event e.
Says(e) == IF e.kind \in {"Unregistered", "Offline"} THEN "off" ELSE "on"

TableSays(r) == IF r.st = "online" THEN "on" ELSE "off"

\* What the row says once the worker is done with its event.
RowSays(w, r) ==
  CASE w.pc \in {"got", "work"} -> Says(w.ev)
    [] w.pc = "mark" -> "on"
    [] OTHER -> IF r = "Online" THEN "on" ELSE "off"

\* Keepalives and alarms are produced while the device is online.
Plain(e) == e.kind \in {"Keepalive", "Alarm"}

\* Events s, produced one after the other from state x on.
Chain(s, x) == \A i \in 1 .. Len(s) : Plain(s[i]) => (IF i = 1 THEN x ELSE Says(s[i - 1])) = "on"

After(s, x) == IF s = <<>> THEN x ELSE Says(s[Len(s)])

Line(s) == s.queue \o s.dlq

\* The state the first k tasks of the order tn lead to, from x on.
StateAt(x, o, tn, k) == IF k = 0 THEN x ELSE Says(o[tn[k]][Len(o[tn[k]])])

TurnOK(x, o, tn, y) ==
  /\ \A i, j \in 1 .. Len(tn) : tn[i] = tn[j] => i = j
  /\ \A t \in Task : o[t] # <<>> <=> \E k \in 1 .. Len(tn) : tn[k] = t
  /\ \A k \in 1 .. Len(tn) : Chain(o[tn[k]], StateAt(x, o, tn, k - 1))
  /\ StateAt(x, o, tn, Len(tn)) = y

RowOK(w, r) ==
  /\ w.pc \in {"got", "work"} /\ Plain(w.ev) => r = "Online"
  /\ w.pc = "mark" => r # "none"
  /\ w.pc = "boot" => r = "Online"

InWork(e, w) == w.pc \in {"got", "work", "mark", "boot"} /\ w.ev = e

\* Event e is under way and not yet carried out.
UnderWay(e, o, s, w) ==
  \/ InWork(e, w)
  \/ \E i \in 1 .. Len(Line(s)) : Line(s)[i] = e
  \/ \E t \in Task : \E i \in 1 .. Len(o[t]) : o[t][i] = e

RegisteredAs(n) == [kind |-> "Registered", seq |-> n]

OrderOK ==
  /\ RowOK(worker, row)
  /\ Chain(Line(sink), RowSays(worker, row))
  /\ TurnOK(After(Line(sink), RowSays(worker, row)), out, turn, TableSays(reg))
  /\ reg.st # "none" => reg.seq \in boots \/ UnderWay(RegisteredAs(reg.seq), out, sink, worker)

PresenceInv == SinkInv /\ (~mishap => OrderOK)

-----------------------------------------------------------------------------
\* Sequences.

LEMMA AppendFacts ==
  ASSUME NEW S, NEW s \in Seq(S), NEW e \in S
  PROVE  /\ Append(s, e) \in Seq(S) /\ Len(Append(s, e)) = Len(s) + 1
         /\ Append(s, e)[Len(s) + 1] = e
         /\ \A i \in 1 .. Len(s) : Append(s, e)[i] = s[i]
         /\ Append(s, e) # <<>>
  OBVIOUS

LEMMA TailFacts ==
  ASSUME NEW S, NEW s \in Seq(S), s # <<>>
  PROVE  /\ Len(s) \in Nat \ {0} /\ Head(s) = s[1] /\ Head(s) \in S
         /\ Tail(s) \in Seq(S) /\ Len(Tail(s)) = Len(s) - 1
         /\ \A i \in 1 .. Len(Tail(s)) : Tail(s)[i] = s[i + 1]
  BY HeadTailProperties

LEMMA ConcatFacts ==
  ASSUME NEW S, NEW s \in Seq(S), NEW t \in Seq(S)
  PROVE  /\ s \o t \in Seq(S) /\ Len(s \o t) = Len(s) + Len(t)
         /\ \A i \in 1 .. Len(s) : (s \o t)[i] = s[i]
         /\ \A i \in 1 .. Len(t) : (s \o t)[Len(s) + i] = t[i]
  BY ConcatProperties

\* What redrive takes from the dead letters and what it leaves.
LEMMA MoveFacts ==
  ASSUME NEW S, NEW d \in Seq(S), NEW n \in 0 .. Len(d)
  PROVE  /\ SubSeq(d, 1, n) \in Seq(S) /\ Len(SubSeq(d, 1, n)) = n
         /\ \A i \in 1 .. n : SubSeq(d, 1, n)[i] = d[i]
         /\ SubSeq(d, n + 1, Len(d)) \in Seq(S) /\ Len(SubSeq(d, n + 1, Len(d))) = Len(d) - n
         /\ \A i \in 1 .. (Len(d) - n) : SubSeq(d, n + 1, Len(d))[i] = d[n + i]
  OBVIOUS

\* redrive takes events from one sequence to the other and changes no order.
LEMMA MoveOrder ==
  ASSUME NEW S, NEW q \in Seq(S), NEW d \in Seq(S), NEW n \in 0 .. Len(d)
  PROVE  (q \o SubSeq(d, 1, n)) \o SubSeq(d, n + 1, Len(d)) = q \o d
  <1> DEFINE a == SubSeq(d, 1, n)
             b == SubSeq(d, n + 1, Len(d))
  <1>1. a \in Seq(S) /\ Len(a) = n /\ \A i \in 1 .. n : a[i] = d[i]
    BY MoveFacts
  <1>2. b \in Seq(S) /\ Len(b) = Len(d) - n /\ \A i \in 1 .. (Len(d) - n) : b[i] = d[n + i]
    BY MoveFacts
  <1> HIDE DEF a, b
  <1>3. Len(d) \in Nat /\ n \in Nat /\ Len(a) = n /\ Len(b) = Len(d) - n
    BY <1>1, <1>2
  <1>4. a \in Seq(S) /\ b \in Seq(S)
    BY <1>1, <1>2
  <1>5. Len(d) = Len(a) + Len(b)
    BY <1>3
  <1>6. \A i \in 1 .. Len(a) : a[i] = d[i]
    BY <1>1, <1>3
  <1>7. \A i \in 1 .. Len(b) : b[i] = d[Len(a) + i]
    BY <1>2, <1>3
  <1>8. a \o b = d
    <2>1. a \o b \in Seq(S) /\ Len(a \o b) = Len(d)
      BY <1>4, <1>5, ConcatProperties
    <2>2. \A i \in 1 .. Len(d) : (a \o b)[i] = IF i <= Len(a) THEN a[i] ELSE b[i - Len(a)]
      BY <1>4, <1>5, ConcatProperties
    <2>3. ASSUME NEW i \in 1 .. Len(d) PROVE (a \o b)[i] = d[i]
      <3>1. CASE i <= Len(a)
        BY <1>3, <1>6, <2>2, <3>1
      <3>2. CASE i > Len(a)
        <4>1. i - Len(a) \in 1 .. Len(b) /\ Len(a) + (i - Len(a)) = i
          BY <1>3, <3>2
        <4> QED
          BY <1>3, <1>7, <2>2, <3>2, <4>1
      <3> QED
        BY <1>3, <3>1, <3>2
    <2> QED
      BY <2>1, <2>3, SeqEqual
  <1>9. (q \o a) \o b = q \o (a \o b)
    BY <1>4, ConcatAssociative, SMT
  <1> QED
    BY <1>8, <1>9 DEF a, b

-----------------------------------------------------------------------------
\* The critical sections of the sink.

LowIn(s) == \E i \in 1 .. Len(s) : Low(s[i])

\* The events of a sink that are no keepalives, counted by what KeyOK says.
Total(s) == Len(s.queue) + Len(s.dlq)

Weight(s) == Total(s) - IF LowIn(s.queue) THEN 1 ELSE 0

LEMMA SinkFields ==
  ASSUME NEW s \in Sink
  PROVE  /\ s.queue \in Seq(Event) /\ s.dlq \in Seq(Event) /\ s.key \in BOOLEAN /\ s.pending \in Nat
         /\ Len(s.queue) \in Nat /\ Len(s.dlq) \in Nat
         /\ \A i \in 1 .. Len(s.queue) : s.queue[i] \in Event
         /\ \A i \in 1 .. Len(s.dlq) : s.dlq[i] \in Event
  <1>1. s.queue \in Seq(Event) /\ s.dlq \in Seq(Event) /\ s.key \in BOOLEAN /\ s.pending \in Nat
    BY DEF Sink
  <1> QED
    BY <1>1

LEMMA LeastFacts ==
  ASSUME NEW x \in Nat, NEW y \in Nat
  PROVE  Least(x, y) \in Nat /\ Least(x, y) <= x /\ Least(x, y) <= y
  BY DEF Least

LEMMA RoomFacts ==
  ASSUME NEW x \in Nat, NEW y \in Nat, NEW z \in Nat, NEW c \in Nat, y <= c
  PROVE  /\ Least(Least(x, c - y), z) \in 0 .. z
         /\ y + Least(Least(x, c - y), z) <= c
  <1>1. c - y \in Nat
    OBVIOUS
  <1> DEFINE m == Least(x, c - y)
  <1>2. m \in Nat /\ m <= c - y
    BY <1>1, LeastFacts
  <1> HIDE DEF m
  <1>3. Least(m, z) \in Nat /\ Least(m, z) <= m /\ Least(m, z) <= z
    BY <1>2, LeastFacts
  <1> QED
    BY <1>2, <1>3 DEF m

LEMMA RedrivenFacts ==
  ASSUME NEW s \in Sink, Len(s.queue) <= QueueDepth
  PROVE  \E n \in 0 .. Len(s.dlq) :
           /\ Len(s.queue) + n <= QueueDepth
           /\ Redriven(s) = [queue |-> s.queue \o SubSeq(s.dlq, 1, n),
                             dlq |-> SubSeq(s.dlq, n + 1, Len(s.dlq)),
                             key |-> s.key, pending |-> s.pending + n]
  <1> DEFINE n == Least(Least(Batch, QueueDepth - Len(s.queue)), Len(s.dlq))
  <1>1. n \in 0 .. Len(s.dlq) /\ Len(s.queue) + n <= QueueDepth
    <2>1. Len(s.dlq) \in Nat /\ Len(s.queue) \in Nat
      BY SinkFields
    <2>2. QueueDepth \in Nat /\ Batch \in Nat
      BY SinkAssumption DEF Least, Batch
    <2> QED
      BY <2>1, <2>2, RoomFacts
  <1>2. Redriven(s) = [s EXCEPT !.queue = @ \o SubSeq(s.dlq, 1, n),
                                !.dlq = SubSeq(@, n + 1, Len(@)),
                                !.pending = @ + n]
    BY DEF Redriven
  <1> HIDE DEF n
  <1>3. Redriven(s) = [queue |-> s.queue \o SubSeq(s.dlq, 1, n),
                       dlq |-> SubSeq(s.dlq, n + 1, Len(s.dlq)),
                       key |-> s.key, pending |-> s.pending + n]
    BY <1>2 DEF Sink
  <1> QED
    BY <1>1, <1>3

\* r and e are q and d after the first n events of d went to the back of q.
Moved(q, d, n, r, e) ==
  /\ r \in Seq(Event) /\ e \in Seq(Event)
  /\ Len(r) = Len(q) + n /\ Len(e) = Len(d) - n
  /\ ~LowIn(e)
  /\ \A i \in 1 .. Len(r) : Low(r[i]) => i \in 1 .. Len(q) /\ Low(q[i])
  /\ \A i \in 1 .. Len(q) : i \in 1 .. Len(r) /\ r[i] = q[i]

LEMMA MoveKeeps ==
  ASSUME NEW q \in Seq(Event), NEW d \in Seq(Event), NEW n \in 0 .. Len(d), ~LowIn(d)
  PROVE  Moved(q, d, n, q \o SubSeq(d, 1, n), SubSeq(d, n + 1, Len(d)))
  <1> DEFINE r == q \o SubSeq(d, 1, n)
             e == SubSeq(d, n + 1, Len(d))
  <1>1. n \in Nat /\ n <= Len(d) /\ Len(d) \in Nat /\ Len(q) \in Nat
    OBVIOUS
  <1> DEFINE a == SubSeq(d, 1, n)
  <1>2. /\ a \in Seq(Event) /\ Len(a) = n /\ \A i \in 1 .. n : a[i] = d[i]
        /\ e \in Seq(Event) /\ Len(e) = Len(d) - n
        /\ \A i \in 1 .. (Len(d) - n) : e[i] = d[n + i]
    BY MoveFacts
  <1>3. r = q \o a
    OBVIOUS
  <1> HIDE DEF a, r, e
  <1>4. r \in Seq(Event) /\ Len(r) = Len(q) + n
    BY <1>2, <1>3, ConcatProperties
  <1>5. \A i \in 1 .. Len(r) : r[i] = IF i <= Len(q) THEN q[i] ELSE a[i - Len(q)]
    BY <1>2, <1>3, <1>4, ConcatProperties
  <1>6. \A i \in 1 .. Len(d) : ~Low(d[i])
    BY DEF LowIn
  <1>7. \A i \in 1 .. Len(q) : i \in 1 .. Len(r) /\ r[i] = q[i]
    BY <1>1, <1>4, <1>5
  <1>8. ASSUME NEW i \in 1 .. Len(r), Low(r[i]) PROVE i \in 1 .. Len(q) /\ Low(q[i])
    <2>1. CASE i <= Len(q)
      BY <1>1, <1>4, <1>5, <1>8, <2>1
    <2>2. CASE i > Len(q)
      <3>1. i - Len(q) \in 1 .. n
        BY <1>1, <1>4, <2>2
      <3>2. r[i] = d[i - Len(q)]
        BY <1>1, <1>2, <1>5, <2>2, <3>1
      <3>3. i - Len(q) \in 1 .. Len(d)
        BY <1>1, <3>1
      <3> QED
        BY <1>6, <1>8, <3>2, <3>3
    <2> QED
      BY <1>1, <1>4, <2>1, <2>2
  <1>9. ~LowIn(e)
    <2> SUFFICES ASSUME NEW i \in 1 .. Len(e) PROVE ~Low(e[i])
      BY DEF LowIn
    <2>1. n + i \in 1 .. Len(d) /\ i \in 1 .. (Len(d) - n)
      BY <1>1, <1>2
    <2> QED
      BY <1>2, <1>6, <2>1
  <1> QED
    BY <1>2, <1>4, <1>7, <1>8, <1>9 DEF r, e, Moved

\* redrive gives the key to nobody, loses nothing and keeps the order.
LEMMA RedriveKeeps ==
  ASSUME NEW s, NEW w, SinkOK(s, w)
  PROVE  /\ SinkOK(Redriven(s), w) /\ Line(Redriven(s)) = Line(s)
         /\ Weight(Redriven(s)) = Weight(s)
  <1>1. s \in Sink /\ Len(s.queue) <= QueueDepth /\ Len(s.dlq) <= DlqCapacity
    BY DEF SinkOK
  <1>2. PICK n \in 0 .. Len(s.dlq) :
           /\ Len(s.queue) + n <= QueueDepth
           /\ Redriven(s) = [queue |-> s.queue \o SubSeq(s.dlq, 1, n),
                             dlq |-> SubSeq(s.dlq, n + 1, Len(s.dlq)),
                             key |-> s.key, pending |-> s.pending + n]
    BY <1>1, RedrivenFacts
  <1> DEFINE q == s.queue \o SubSeq(s.dlq, 1, n)
             d == SubSeq(s.dlq, n + 1, Len(s.dlq))
             r == Redriven(s)
  <1>3. /\ Len(s.dlq) \in Nat /\ Len(s.queue) \in Nat /\ s.pending \in Nat /\ n \in Nat
        /\ s.queue \in Seq(Event) /\ s.dlq \in Seq(Event) /\ s.key \in BOOLEAN
    BY <1>1, <1>2, SinkFields
  <1>4. ~LowIn(s.dlq)
    BY DEF SinkOK, KeyOK, LowIn
  <1>5. Moved(s.queue, s.dlq, n, q, d)
    BY <1>3, <1>4, MoveKeeps
  <1>13. q \o d = s.queue \o s.dlq
    BY <1>3, MoveOrder
  <1> HIDE DEF q, d
  <1>14. /\ q \in Seq(Event) /\ d \in Seq(Event)
         /\ Len(q) = Len(s.queue) + n /\ Len(d) = Len(s.dlq) - n
    BY <1>5 DEF Moved
  <1>6. r = [queue |-> q, dlq |-> d, key |-> s.key, pending |-> s.pending + n]
    BY <1>2 DEF d, q
  <1>7. s.pending + n \in Nat
    BY <1>3
  <1>8. /\ r \in Sink /\ r.queue = q /\ r.dlq = d /\ r.key = s.key /\ r.pending = s.pending + n
    BY <1>3, <1>6, <1>7, <1>14 DEF Sink
  <1> HIDE DEF r
  <1>15. Len(r.queue) = Len(s.queue) + n /\ Len(r.dlq) = Len(s.dlq) - n /\ r.pending = s.pending + n
    BY <1>8, <1>14
  <1>16. /\ Len(s.dlq) \in Nat /\ Len(s.queue) \in Nat /\ s.pending \in Nat /\ n \in Nat
         /\ Len(r.queue) \in Nat /\ Len(r.dlq) \in Nat
    BY <1>3, <1>8, SinkFields
  <1>9. KeyOK(r, w)
    <2>1. KeyOK(s, w)
      BY DEF SinkOK
    <2> QED
      BY <2>1, <1>5, <1>8 DEF KeyOK, LowIn, Moved
  <1>17. /\ r.pending = Len(r.queue) + IF w.pc = "got" THEN 1 ELSE 0
         /\ Len(r.queue) + Len(r.dlq) = Len(s.queue) + Len(s.dlq)
    <2> DEFINE x == Len(s.queue)
               y == Len(s.dlq)
               z == s.pending
               a == Len(r.queue)
               b == Len(r.dlq)
               c == r.pending
               k == IF w.pc = "got" THEN 1 ELSE 0
    <2>1. x \in Nat /\ y \in Nat /\ z \in Nat /\ n \in Nat /\ k \in Nat
      BY <1>16
    <2>2. a = x + n /\ b = y - n /\ c = z + n
      BY <1>15
    <2>3. z = x + k
      BY DEF SinkOK
    <2> HIDE DEF x, y, z, a, b, c, k
    <2>4. c = a + k /\ a + b = x + y
      BY <2>1, <2>2, <2>3
    <2> QED
      BY <2>4 DEF x, y, z, a, b, c, k
  <1>10. SinkOK(r, w)
    <2>3. Len(r.queue) <= QueueDepth
      BY <1>2, <1>8, <1>14
    <2>4. Len(r.dlq) <= DlqCapacity
      BY <1>1, <1>3, <1>8, <1>14, SinkAssumption
    <2> QED
      BY <1>8, <1>9, <1>17, <2>3, <2>4 DEF SinkOK
  <1>11. Line(r) = Line(s)
    BY <1>8, <1>13 DEF Line
  <1>12. Weight(r) = Weight(s)
    <2>1. LowIn(r.queue) <=> LowIn(s.queue)
      BY <1>5, <1>8 DEF LowIn, Moved
    <2>2. Total(r) = Total(s)
      BY <1>17 DEF Total
    <2> QED
      BY <2>1, <2>2 DEF Weight
  <1> QED
    BY <1>10, <1>11, <1>12 DEF r

\* Steps of the worker between its critical sections.
LEMMA SameHands ==
  ASSUME NEW s, NEW w, NEW v, SinkOK(s, w), v.ev = w.ev,
         v.pc = "idle" <=> w.pc = "idle", v.pc = "got" <=> w.pc = "got"
  PROVE  SinkOK(s, v)
  <1>1. HasKeepalive(v) <=> HasKeepalive(w)
    BY DEF HasKeepalive
  <1>2. KeyOK(s, v)
    BY <1>1 DEF SinkOK, KeyOK
  <1>3. (IF v.pc = "got" THEN 1 ELSE 0) = (IF w.pc = "got" THEN 1 ELSE 0)
    OBVIOUS
  <1> QED
    BY <1>2, <1>3 DEF SinkOK

\* Sinks that differ in the depth or the key only.
LEMMA SameQueues ==
  ASSUME NEW s, NEW u, u.queue = s.queue, u.dlq = s.dlq
  PROVE  Line(u) = Line(s) /\ Weight(u) = Weight(s)
  BY DEF Line, Weight, Total, LowIn

\* The worker takes the lock: the event in its hands leaves the depth.
LEMMA ReceivedKeeps ==
  ASSUME NEW s, NEW w, NEW v, SinkOK(s, w), w.pc = "got", v.pc = "work", v.ev = w.ev
  PROVE  /\ SinkOK(Received(s), v) /\ Line(Received(s)) = Line(s)
         /\ Weight(Received(s)) = Weight(s)
  <1> DEFINE u == [s EXCEPT !.pending = IF @ = 0 THEN 0 ELSE @ - 1]
  <1>1. s \in Sink /\ Len(s.queue) \in Nat /\ s.pending \in Nat
    BY SinkFields DEF SinkOK
  <1>2. s.pending = Len(s.queue) + 1
    BY DEF SinkOK
  <1>3. u \in Sink
    BY <1>1 DEF Sink
  <1>4. u.queue = s.queue /\ u.dlq = s.dlq /\ u.key = s.key
    BY <1>1 DEF Sink
  <1>5. u.pending = IF s.pending = 0 THEN 0 ELSE s.pending - 1
    BY <1>1 DEF Sink
  <1> HIDE DEF u
  <1>6. u.pending = Len(u.queue)
    <2> DEFINE x == Len(s.queue)
               y == s.pending
    <2>1. x \in Nat /\ y = x + 1 /\ u.pending = IF y = 0 THEN 0 ELSE y - 1
      BY <1>1, <1>2, <1>5
    <2> HIDE DEF x, y
    <2>2. u.pending = x
      BY <2>1
    <2> QED
      BY <1>4, <2>2 DEF x
  <1>7. HasKeepalive(v) <=> HasKeepalive(w)
    BY DEF HasKeepalive
  <1>8. KeyOK(u, v)
    BY <1>4, <1>7 DEF SinkOK, KeyOK
  <1>9. u.pending = Len(u.queue) + IF v.pc = "got" THEN 1 ELSE 0
    BY <1>1, <1>4, <1>6
  <1>10. SinkOK(u, v)
    BY <1>3, <1>4, <1>8, <1>9 DEF SinkOK
  <1>11. Received(s) = Redriven(u)
    BY DEF Received, u
  <1>12. Line(u) = Line(s) /\ Weight(u) = Weight(s)
    BY <1>4, SameQueues
  <1> QED
    BY <1>10, <1>11, <1>12, RedriveKeeps

\* The worker is done: it gives the key of its keepalive back.
LEMMA ReleasedKeeps ==
  ASSUME NEW s, NEW w, SinkOK(s, w), w.pc = "after"
  PROVE  /\ SinkOK(Released(s, w.ev), Idle) /\ Line(Released(s, w.ev)) = Line(s)
         /\ Weight(Released(s, w.ev)) = Weight(s)
  <1> DEFINE u == [s EXCEPT !.key = @ /\ ~Low(w.ev)]
  <1>1. s \in Sink /\ s.key \in BOOLEAN
    BY SinkFields DEF SinkOK
  <1>2. u \in Sink
    BY <1>1 DEF Sink
  <1>3. u.queue = s.queue /\ u.dlq = s.dlq /\ u.pending = s.pending
    BY <1>1 DEF Sink
  <1>4. u.key = (s.key /\ ~Low(w.ev))
    BY <1>1 DEF Sink
  <1> HIDE DEF u
  <1>5. ~HasKeepalive(Idle) /\ (HasKeepalive(w) <=> Low(w.ev))
    BY DEF HasKeepalive, Idle
  <1>6. KeyOK(u, Idle)
    BY <1>3, <1>4, <1>5 DEF SinkOK, KeyOK
  <1>7. (IF Idle.pc = "got" THEN 1 ELSE 0) = (IF w.pc = "got" THEN 1 ELSE 0)
    BY DEF Idle
  <1>8. SinkOK(u, Idle)
    BY <1>2, <1>3, <1>6, <1>7 DEF SinkOK
  <1>9. Released(s, w.ev) = Redriven(u)
    BY DEF Released, u
  <1>10. Line(u) = Line(s) /\ Weight(u) = Weight(s)
    BY <1>3, SameQueues
  <1> QED
    BY <1>8, <1>9, <1>10, RedriveKeeps

\* Worker v has taken the first event of the line of sink s, which is u now.
Takes(s, u, v) ==
  /\ SinkOK(u, v) /\ v.ev \in Event
  /\ Line(s) \in Seq(Event) /\ Line(s) # <<>>
  /\ Head(Line(s)) = v.ev /\ Line(u) = Tail(Line(s))
  /\ Weight(u) = Weight(s) - IF Low(v.ev) THEN 0 ELSE 1

\* rx.recv.
LEMMA ReceiveKeeps ==
  ASSUME NEW s, NEW w, NEW u, NEW v, SinkOK(s, w), w.pc = "idle", s.queue # <<>>,
         u = [s EXCEPT !.queue = Tail(@)], v = [pc |-> "got", ev |-> Head(s.queue)]
  PROVE  Takes(s, u, v)
  <1> DEFINE q == s.queue
             d == s.dlq
             p == Tail(q)
  <1>1. /\ s \in Sink /\ q \in Seq(Event) /\ d \in Seq(Event) /\ s.pending \in Nat
        /\ Len(q) \in Nat /\ Len(d) \in Nat
    BY SinkFields DEF SinkOK
  <1>2. /\ Len(q) \in Nat \ {0} /\ Head(q) = q[1] /\ Head(q) \in Event
        /\ p \in Seq(Event) /\ Len(p) = Len(q) - 1
        /\ \A i \in 1 .. Len(p) : p[i] = q[i + 1]
    BY <1>1, TailFacts
  <1>3. u \in Sink /\ u.queue = p /\ u.dlq = d /\ u.key = s.key /\ u.pending = s.pending
    BY <1>1, <1>2 DEF Sink
  <1>4. v.pc = "got" /\ v.ev = q[1] /\ v.ev \in Event
    BY <1>2
  <1>5. KeyOK(u, v)
    <2>1. KeyOK(s, w) /\ ~HasKeepalive(w)
      BY DEF SinkOK, HasKeepalive
    <2>2. HasKeepalive(v) <=> Low(q[1])
      BY <1>4 DEF HasKeepalive
    <2>3. 1 \in 1 .. Len(q) /\ \A i \in 1 .. Len(p) : i + 1 \in 1 .. Len(q) /\ i + 1 # 1
      BY <1>2
    <2>4. \A i \in 1 .. Len(q) : i = 1 \/ (i - 1 \in 1 .. Len(p) /\ (i - 1) + 1 = i)
      BY <1>2
    <2>5. \A i, j \in 1 .. Len(q) : Low(q[i]) /\ Low(q[j]) => i = j
      BY <2>1 DEF KeyOK
    <2>6. s.key <=> \E i \in 1 .. Len(q) : Low(q[i])
      BY <2>1 DEF KeyOK
    <2>7. HasKeepalive(v) => \A i \in 1 .. Len(p) : ~Low(p[i])
      BY <1>2, <2>2, <2>3, <2>5
    <2>8. \A i, j \in 1 .. Len(p) : Low(p[i]) /\ Low(p[j]) => i = j
      <3> SUFFICES ASSUME NEW i \in 1 .. Len(p), NEW j \in 1 .. Len(p), Low(p[i]), Low(p[j])
                   PROVE  i = j
        OBVIOUS
      <3>1. i + 1 = j + 1
        BY <1>2, <2>3, <2>5
      <3> QED
        BY <3>1
    <2>9. u.key <=> HasKeepalive(v) \/ \E i \in 1 .. Len(p) : Low(p[i])
      <3>1. ASSUME NEW i \in 1 .. Len(q), Low(q[i]) PROVE HasKeepalive(v) \/ \E j \in 1 .. Len(p) : Low(p[j])
        BY <1>2, <2>2, <2>4, <3>1
      <3>2. ASSUME NEW i \in 1 .. Len(p), Low(p[i]) PROVE \E j \in 1 .. Len(q) : Low(q[j])
        BY <1>2, <2>3, <3>2
      <3>3. HasKeepalive(v) => \E j \in 1 .. Len(q) : Low(q[j])
        BY <2>2, <2>3
      <3> QED
        BY <1>3, <2>6, <3>1, <3>2, <3>3
    <2>10. \A i \in 1 .. Len(d) : ~Low(d[i])
      BY <2>1 DEF KeyOK
    <2> QED
      BY <1>3, <2>7, <2>8, <2>9, <2>10 DEF KeyOK
  <1> DEFINE x == Len(q)
             y == Len(d)
             z == Len(p)
  <1>6. x \in Nat /\ y \in Nat /\ z = x - 1 /\ x # 0
    BY <1>1, <1>2
  <1>7. s.pending = x /\ x <= QueueDepth /\ y <= DlqCapacity
    <2>1. s.pending = x + IF w.pc = "got" THEN 1 ELSE 0
      BY DEF SinkOK
    <2> QED
      BY <1>6, <2>1 DEF SinkOK
  <1>8. SinkOK(u, v)
    <2>1. u.pending = z + 1 /\ z <= QueueDepth
      <3> HIDE DEF x, z
      <3> QED
        BY <1>3, <1>6, <1>7, SinkAssumption
    <2> QED
      BY <1>3, <1>4, <1>5, <1>7, <2>1 DEF SinkOK
  <1>9. /\ Line(s) = q \o d /\ Line(u) = p \o d
    BY <1>3 DEF Line
  <1>10. /\ q \o d \in Seq(Event) /\ q \o d # <<>> /\ Head(q \o d) = q[1]
         /\ Tail(q \o d) = p \o d
    <2> HIDE DEF q, d
    <2> USE DEF p
    <2> QED
      BY <1>1, <1>2
  <1>11. Weight(u) = Weight(s) - IF Low(v.ev) THEN 0 ELSE 1
    <2> DEFINE a == LowIn(q)
               b == LowIn(p)
    <2>5. \A i \in 1 .. Len(p) : i + 1 \in 1 .. Len(q)
      BY <1>2
    <2>6. \A i \in 1 .. Len(q) : i = 1 \/ (i - 1 \in 1 .. Len(p) /\ (i - 1) + 1 = i)
      BY <1>2
    <2>7. ASSUME NEW i \in 1 .. Len(q), Low(q[i]) PROVE Low(v.ev) \/ \E j \in 1 .. Len(p) : Low(p[j])
      BY <1>2, <1>4, <2>6, <2>7
    <2>8. ASSUME NEW i \in 1 .. Len(p), Low(p[i]) PROVE \E j \in 1 .. Len(q) : Low(q[j])
      BY <1>2, <2>5, <2>8
    <2>9. 1 \in 1 .. Len(q)
      BY <1>2
    <2>1. a <=> b \/ Low(v.ev)
      BY <1>4, <2>7, <2>8, <2>9 DEF LowIn
    <2>2. ~(b /\ Low(v.ev))
      BY <1>3, <1>4, <1>5 DEF KeyOK, LowIn, HasKeepalive
    <2>3. Weight(s) = (x + y) - IF a THEN 1 ELSE 0
      BY DEF Weight, Total
    <2>4. Weight(u) = (z + y) - IF b THEN 1 ELSE 0
      BY <1>3 DEF Weight, Total
    <2> HIDE DEF x, y, z, a, b
    <2> QED
      BY <1>6, <2>1, <2>2, <2>3, <2>4
  <1> QED
    BY <1>4, <1>8, <1>9, <1>10, <1>11 DEF Takes

\* What the queues of a sink become when event e joins them, or displaces one.
LEMMA AppendLow ==
  ASSUME NEW s \in Seq(Event), NEW e \in Event
  PROVE  LowIn(Append(s, e)) <=> LowIn(s) \/ Low(e)
  <1>1. /\ Append(s, e) \in Seq(Event) /\ Len(Append(s, e)) = Len(s) + 1
        /\ Append(s, e)[Len(s) + 1] = e
        /\ \A i \in 1 .. Len(s) : Append(s, e)[i] = s[i]
    BY AppendFacts
  <1>2. Len(s) \in Nat
    OBVIOUS
  <1>3. /\ Len(s) + 1 \in 1 .. (Len(s) + 1)
        /\ \A i \in 1 .. Len(s) : i \in 1 .. (Len(s) + 1)
        /\ \A i \in 1 .. (Len(s) + 1) : i = Len(s) + 1 \/ i \in 1 .. Len(s)
    BY <1>2
  <1>4. ASSUME NEW i \in 1 .. Len(Append(s, e)), Low(Append(s, e)[i])
        PROVE  Low(e) \/ \E j \in 1 .. Len(s) : Low(s[j])
    BY <1>1, <1>3, <1>4
  <1>5. ASSUME NEW i \in 1 .. Len(s), Low(s[i])
        PROVE  \E j \in 1 .. Len(Append(s, e)) : Low(Append(s, e)[j])
    BY <1>1, <1>3, <1>5
  <1>6. Low(e) => \E j \in 1 .. Len(Append(s, e)) : Low(Append(s, e)[j])
    BY <1>1, <1>3
  <1> QED
    BY <1>4, <1>5, <1>6 DEF LowIn

LEMMA DeadLetteredFacts ==
  ASSUME NEW d \in Seq(Event), NEW e \in Event, ~LowIn(d), ~Low(e), Len(d) <= DlqCapacity
  PROVE  /\ DeadLettered(d, e) \in Seq(Event) /\ ~LowIn(DeadLettered(d, e))
         /\ Len(DeadLettered(d, e)) <= DlqCapacity /\ Len(DeadLettered(d, e)) >= Len(d)
         /\ Len(d) < DlqCapacity => DeadLettered(d, e) = Append(d, e)
  <1> DEFINE c == IF Len(d) >= DlqCapacity THEN Tail(d) ELSE d
  <1>1. Len(d) \in Nat /\ DlqCapacity \in Nat \ {0}
    BY SinkAssumption
  <1>2. DeadLettered(d, e) = Append(c, e)
    BY DEF DeadLettered
  <1>3. /\ c \in Seq(Event) /\ ~LowIn(c) /\ Len(c) + 1 <= DlqCapacity /\ Len(c) + 1 >= Len(d)
    <2>1. CASE Len(d) >= DlqCapacity
      <3>1. d # <<>>
        BY <1>1, <2>1
      <3>2. /\ Tail(d) \in Seq(Event) /\ Len(Tail(d)) = Len(d) - 1
            /\ \A i \in 1 .. Len(Tail(d)) : Tail(d)[i] = d[i + 1]
        BY <3>1, TailFacts
      <3>3. \A i \in 1 .. Len(Tail(d)) : i + 1 \in 1 .. Len(d)
        BY <1>1, <3>2
      <3>4. ~LowIn(Tail(d))
        BY <3>2, <3>3 DEF LowIn
      <3>5. c = Tail(d)
        BY <2>1
      <3> QED
        BY <1>1, <2>1, <3>2, <3>4, <3>5
    <2>2. CASE Len(d) < DlqCapacity
      BY <1>1, <2>2
    <2> QED
      BY <1>1, <2>1, <2>2
  <1>4. Len(d) < DlqCapacity => c = d
    BY <1>1
  <1> HIDE DEF c
  <1>5. Len(Append(c, e)) = Len(c) + 1 /\ Append(c, e) \in Seq(Event)
    BY <1>3, AppendFacts
  <1>6. ~LowIn(Append(c, e))
    BY <1>3, AppendLow
  <1> QED
    BY <1>2, <1>3, <1>4, <1>5, <1>6

\* An event that waits in the channel, in a sink whose key is free or that is
\* no keepalive.
LEMMA QueuedKey ==
  ASSUME NEW s, NEW w, NEW e \in Event, NEW u, SinkOK(s, w), Low(e) => ~s.key,
         u.queue = Append(s.queue, e), u.dlq = s.dlq, u.key = (s.key \/ Low(e))
  PROVE  KeyOK(u, w)
  <1> DEFINE q == s.queue
             r == u.queue
  <1>1. q \in Seq(Event) /\ Len(q) \in Nat /\ KeyOK(s, w) /\ s.key \in BOOLEAN
    BY SinkFields DEF SinkOK
  <1>2. /\ Len(r) = Len(q) + 1 /\ r[Len(q) + 1] = e
        /\ \A i \in 1 .. Len(q) : r[i] = q[i]
    BY <1>1, AppendFacts
  <1>3. /\ Len(q) + 1 \in 1 .. (Len(q) + 1)
        /\ \A i \in 1 .. Len(q) : i \in 1 .. (Len(q) + 1)
        /\ \A i \in 1 .. (Len(q) + 1) : i = Len(q) + 1 \/ i \in 1 .. Len(q)
    BY <1>1
  <1>4. \A i, j \in 1 .. Len(q) : Low(q[i]) /\ Low(q[j]) => i = j
    BY <1>1 DEF KeyOK
  <1>5. s.key <=> HasKeepalive(w) \/ \E i \in 1 .. Len(q) : Low(q[i])
    BY <1>1 DEF KeyOK
  <1>6. HasKeepalive(w) => \A i \in 1 .. Len(q) : ~Low(q[i])
    BY <1>1 DEF KeyOK
  <1>7. Low(e) => ~HasKeepalive(w) /\ \A i \in 1 .. Len(q) : ~Low(q[i])
    BY <1>5
  <1>8. \A i \in 1 .. Len(u.dlq) : ~Low(u.dlq[i])
    BY <1>1 DEF KeyOK
  <1> HIDE DEF q, r
  <1>9. \A i \in 1 .. Len(r) : (i = Len(q) + 1 /\ r[i] = e) \/ (i \in 1 .. Len(q) /\ r[i] = q[i])
    BY <1>2, <1>3
  <1>10. \A i, j \in 1 .. Len(r) : Low(r[i]) /\ Low(r[j]) => i = j
    BY <1>4, <1>7, <1>9
  <1>11. HasKeepalive(w) => \A i \in 1 .. Len(r) : ~Low(r[i])
    BY <1>6, <1>7, <1>9
  <1>12. (\E i \in 1 .. Len(r) : Low(r[i])) <=> Low(e) \/ \E i \in 1 .. Len(q) : Low(q[i])
    BY <1>2, <1>3, <1>9
  <1>13. u.key <=> HasKeepalive(w) \/ \E i \in 1 .. Len(r) : Low(r[i])
    BY <1>5, <1>12
  <1> QED
    BY <1>8, <1>10, <1>11, <1>13 DEF KeyOK, r

\* An event joins the back of the line, or is a keepalive that nobody misses.
Joins(s, e, u) == Line(u) = Append(Line(s), e) \/ (Low(e) /\ u = s)

\* The sink takes e before an older event, or displaces one.
Jumps(s, e) ==
  \/ s.dlq # <<>> /\ Len(s.queue) < QueueDepth
  \/ ~Low(e) /\ Len(s.queue) = QueueDepth /\ Len(s.dlq) = DlqCapacity

LEMMA AdmittedQueue ==
  ASSUME NEW s, NEW w, NEW e \in Event, NEW u, SinkOK(s, w), Low(e) => ~s.key,
         Len(s.queue) < QueueDepth,
         u = [s EXCEPT !.queue = Append(@, e), !.pending = @ + 1, !.key = @ \/ Low(e)]
  PROVE  SinkOK(u, w) /\ Weight(u) >= Weight(s) /\ (~Jumps(s, e) => Joins(s, e, u))
  <1> DEFINE q == s.queue
             r == Append(q, e)
  <1>1. /\ s \in Sink /\ q \in Seq(Event) /\ s.dlq \in Seq(Event) /\ s.key \in BOOLEAN
        /\ s.pending \in Nat /\ Len(q) \in Nat /\ Len(s.dlq) \in Nat
    BY SinkFields DEF SinkOK
  <1>2. r \in Seq(Event) /\ Len(r) = Len(q) + 1
    BY <1>1, AppendFacts
  <1>3. /\ u \in Sink /\ u.queue = r /\ u.dlq = s.dlq /\ u.key = (s.key \/ Low(e))
        /\ u.pending = s.pending + 1
    <2> DEFINE k == s.key \/ Low(e)
               n == s.pending + 1
    <2>1. k \in BOOLEAN /\ n \in Nat
      BY <1>1
    <2>2. u = [s EXCEPT !.queue = r, !.pending = n, !.key = k]
      BY <1>1 DEF Sink
    <2> HIDE DEF k, n, r
    <2>3. u \in Sink
      BY <1>1, <1>2, <2>1, <2>2 DEF Sink
    <2>4. u.queue = r /\ u.dlq = s.dlq /\ u.key = k /\ u.pending = n
      BY <1>1, <2>2 DEF Sink
    <2> QED
      BY <2>3, <2>4 DEF k, n
  <1>4. KeyOK(u, w)
    BY <1>3, QueuedKey
  <1> DEFINE x == Len(q)
             y == Len(s.dlq)
             k == IF w.pc = "got" THEN 1 ELSE 0
             a == IF LowIn(q) THEN 1 ELSE 0
             b == IF LowIn(r) THEN 1 ELSE 0
  <1>5. x \in Nat /\ y \in Nat /\ k \in Nat /\ a \in Nat /\ b \in 0 .. 1
    BY <1>1
  <1>6. s.pending = x + k /\ y <= DlqCapacity
    BY DEF SinkOK
  <1>7. SinkOK(u, w)
    <2>1. u.pending = (x + 1) + k /\ x + 1 <= QueueDepth
      <3> HIDE DEF x, k
      <3> QED
        BY <1>3, <1>5, <1>6, SinkAssumption DEF x
    <2> QED
      BY <1>2, <1>3, <1>4, <1>6, <2>1 DEF SinkOK
  <1>8. Weight(u) >= Weight(s)
    <2>1. Weight(s) = (x + y) - a
      BY DEF Weight, Total
    <2>2. Weight(u) = ((x + 1) + y) - b
      BY <1>2, <1>3 DEF Weight, Total
    <2> HIDE DEF x, y, a, b
    <2> QED
      BY <1>5, <2>1, <2>2
  <1>9. ASSUME ~Jumps(s, e) PROVE Line(u) = Append(Line(s), e)
    <2>1. s.dlq = <<>>
      BY <1>9 DEF Jumps
    <2>2. Line(s) = q /\ Line(u) = r
      BY <1>1, <1>2, <1>3, <2>1, ConcatEmptySeq DEF Line
    <2> QED
      BY <2>2
  <1> QED
    BY <1>7, <1>8, <1>9 DEF Joins

LEMMA AdmittedDead ==
  ASSUME NEW s, NEW w, NEW e \in Event, NEW u, SinkOK(s, w), ~Low(e),
         ~(Len(s.queue) < QueueDepth),
         u = [s EXCEPT !.dlq = DeadLettered(@, e)]
  PROVE  SinkOK(u, w) /\ Weight(u) >= Weight(s) /\ (~Jumps(s, e) => Joins(s, e, u))
  <1> DEFINE q == s.queue
             d == s.dlq
             c == DeadLettered(d, e)
  <1>1. /\ s \in Sink /\ q \in Seq(Event) /\ d \in Seq(Event) /\ s.key \in BOOLEAN
        /\ s.pending \in Nat /\ Len(q) \in Nat /\ Len(d) \in Nat
    BY SinkFields DEF SinkOK
  <1>2. ~LowIn(d) /\ Len(d) <= DlqCapacity /\ Len(q) <= QueueDepth
    BY DEF SinkOK, KeyOK, LowIn
  <1>3. /\ c \in Seq(Event) /\ ~LowIn(c) /\ Len(c) <= DlqCapacity /\ Len(c) >= Len(d)
        /\ Len(d) < DlqCapacity => c = Append(d, e)
    BY <1>1, <1>2, DeadLetteredFacts
  <1>4. u \in Sink /\ u.queue = q /\ u.dlq = c /\ u.key = s.key /\ u.pending = s.pending
    BY <1>1, <1>3 DEF Sink
  <1> HIDE DEF c
  <1>5. KeyOK(u, w)
    BY <1>3, <1>4 DEF SinkOK, KeyOK, LowIn
  <1>6. SinkOK(u, w)
    BY <1>3, <1>4, <1>5 DEF SinkOK
  <1>7. Weight(u) >= Weight(s)
    <2> DEFINE x == Len(q)
               y == Len(d)
               z == Len(c)
               a == IF LowIn(q) THEN 1 ELSE 0
    <2>1. Weight(s) = (x + y) - a /\ Weight(u) = (x + z) - a
      BY <1>4 DEF Weight, Total
    <2>2. x \in Nat /\ y \in Nat /\ z \in Nat /\ z >= y /\ a \in Nat
      BY <1>1, <1>3
    <2> HIDE DEF x, y, z, a
    <2> QED
      BY <2>1, <2>2
  <1>8. ASSUME ~Jumps(s, e) PROVE Line(u) = Append(Line(s), e)
    <2>1. Len(q) = QueueDepth
      BY <1>1, <1>2, SinkAssumption
    <2>2. Len(d) < DlqCapacity
      BY <1>1, <1>2, <1>8, <2>1, SinkAssumption DEF Jumps
    <2>3. Line(u) = q \o Append(d, e) /\ Line(s) = q \o d
      BY <1>3, <1>4, <2>2 DEF Line
    <2>4. q \o Append(d, e) = Append(q \o d, e)
      <3> HIDE DEF q, d
      <3> QED
        BY <1>1
    <2> QED
      BY <2>3, <2>4
  <1> QED
    BY <1>6, <1>7, <1>8 DEF Joins

\* admit.
LEMMA AdmittedKeeps ==
  ASSUME NEW s, NEW w, NEW e \in Event, NEW o \in BOOLEAN, NEW u, SinkOK(s, w), u = Admitted(s, e, o)
  PROVE  SinkOK(u, w) /\ Weight(u) >= Weight(s) /\ (~Jumps(s, e) => Joins(s, e, u))
  <1>1. s.key \in BOOLEAN /\ Low(e) \in BOOLEAN /\ Weight(s) \in Int
    <2>1. s.key \in BOOLEAN /\ Len(s.queue) \in Nat /\ Len(s.dlq) \in Nat
      BY SinkFields DEF SinkOK
    <2>2. Total(s) \in Int
      BY <2>1 DEF Total
    <2> QED
      BY <2>1, <2>2 DEF Weight, Low
  <1>2. CASE Low(e) /\ (s.key \/ o)
    BY <1>1, <1>2 DEF Admitted, Joins
  <1>3. CASE ~(Low(e) /\ (s.key \/ o)) /\ Len(s.queue) < QueueDepth
    <2>1. u = [s EXCEPT !.queue = Append(@, e), !.pending = @ + 1, !.key = @ \/ Low(e)]
      BY <1>3 DEF Admitted
    <2>2. Low(e) => ~s.key
      BY <1>3
    <2> QED
      BY <1>3, <2>1, <2>2, AdmittedQueue
  <1>4. CASE ~(Low(e) /\ (s.key \/ o)) /\ ~(Len(s.queue) < QueueDepth)
    <2>1. CASE Low(e)
      BY <1>1, <1>4, <2>1 DEF Admitted, Joins
    <2>2. CASE ~Low(e)
      <3>1. u = [s EXCEPT !.dlq = DeadLettered(@, e)]
        BY <1>4, <2>2 DEF Admitted
      <3> QED
        BY <1>4, <2>2, <3>1, AdmittedDead
    <2> QED
      BY <1>1, <2>1, <2>2
  <1> QED
    BY <1>1, <1>2, <1>3, <1>4

-----------------------------------------------------------------------------
\* The order of the events.

\* The first of a chain of events is taken.
LEMMA ChainTail ==
  ASSUME NEW s \in Seq(Event), NEW x, s # <<>>, Chain(s, x)
  PROVE  /\ Plain(Head(s)) => x = "on"
         /\ Chain(Tail(s), Says(Head(s)))
         /\ After(Tail(s), Says(Head(s))) = After(s, x)
  <1> DEFINE p == Tail(s)
  <1>1. /\ Len(s) \in Nat \ {0} /\ Head(s) = s[1]
        /\ p \in Seq(Event) /\ Len(p) = Len(s) - 1
        /\ \A i \in 1 .. Len(p) : p[i] = s[i + 1]
    BY TailFacts
  <1>2. Plain(Head(s)) => x = "on"
    BY <1>1 DEF Chain
  <1> HIDE DEF p
  <1>3. ASSUME NEW i \in 1 .. Len(p), Plain(p[i])
        PROVE  (IF i = 1 THEN Says(Head(s)) ELSE Says(p[i - 1])) = "on"
    <2>1. i + 1 \in 1 .. Len(s) /\ i + 1 # 1 /\ (i + 1) - 1 = i
      BY <1>1
    <2>2. Says(s[i]) = "on"
      BY <1>1, <1>3, <2>1 DEF Chain
    <2>3. i # 1 => i - 1 \in 1 .. Len(p) /\ (i - 1) + 1 = i
      BY <1>1
    <2> QED
      BY <1>1, <2>2, <2>3
  <1>4. After(p, Says(Head(s))) = After(s, x)
    <2>1. CASE p = <<>>
      <3>1. Len(s) = 1
        BY <1>1, <2>1
      <3> QED
        BY <1>1, <2>1, <3>1 DEF After
    <2>2. CASE p # <<>>
      <3>1. Len(p) \in 1 .. Len(p) /\ Len(p) + 1 = Len(s)
        BY <1>1, <2>2
      <3> QED
        BY <1>1, <2>2, <3>1 DEF After
    <2> QED
      BY <2>1, <2>2
  <1> QED
    BY <1>2, <1>3, <1>4 DEF Chain, p

\* An event joins a chain.
LEMMA ChainAppend ==
  ASSUME NEW s \in Seq(Event), NEW e \in Event, NEW x, Chain(s, x), Plain(e) => After(s, x) = "on"
  PROVE  Chain(Append(s, e), x) /\ After(Append(s, e), x) = Says(e)
  <1> DEFINE r == Append(s, e)
  <1>1. /\ r \in Seq(Event) /\ Len(r) = Len(s) + 1 /\ r[Len(s) + 1] = e
        /\ \A i \in 1 .. Len(s) : r[i] = s[i]
        /\ r # <<>>
    BY AppendFacts
  <1>2. Len(s) \in Nat /\ (s = <<>> <=> Len(s) = 0)
    OBVIOUS
  <1> HIDE DEF r
  <1>3. ASSUME NEW i \in 1 .. Len(r), Plain(r[i])
        PROVE  (IF i = 1 THEN x ELSE Says(r[i - 1])) = "on"
    <2>1. CASE i \in 1 .. Len(s)
      <3>1. (IF i = 1 THEN x ELSE Says(s[i - 1])) = "on"
        BY <1>1, <1>3, <2>1 DEF Chain
      <3>2. i # 1 => i - 1 \in 1 .. Len(s)
        BY <1>2, <2>1
      <3> QED
        BY <1>1, <3>1, <3>2
    <2>2. CASE i = Len(s) + 1
      <3>1. After(s, x) = "on"
        BY <1>1, <1>3, <2>2
      <3>2. CASE s = <<>>
        BY <1>2, <2>2, <3>1, <3>2 DEF After
      <3>3. CASE s # <<>>
        <4>1. i # 1 /\ i - 1 = Len(s) /\ Len(s) \in 1 .. Len(s)
          BY <1>2, <2>2, <3>3
        <4> QED
          BY <1>1, <3>1, <3>3, <4>1 DEF After
      <3> QED
        BY <3>2, <3>3
    <2> QED
      BY <1>1, <1>2, <2>1, <2>2
  <1> QED
    BY <1>1, <1>3 DEF Chain, After, r

\* A task that had nothing to emit changes the table.
LEMMA TurnAppend ==
  ASSUME NEW o \in [Task -> Seq(Event)], NEW tn \in Seq(Task), NEW x, NEW y, TurnOK(x, o, tn, y),
         NEW t \in Task, o[t] = <<>>, NEW a \in Seq(Event), a # <<>>, Chain(a, y)
  PROVE  TurnOK(x, [o EXCEPT ![t] = a], Append(tn, t), Says(a[Len(a)]))
  <1> DEFINE p == [o EXCEPT ![t] = a]
             un == Append(tn, t)
             n == Len(tn)
  <1>1. p[t] = a /\ \A u \in Task : u # t => p[u] = o[u]
    OBVIOUS
  <1>2. /\ n \in Nat /\ Len(un) = n + 1 /\ un[n + 1] = t /\ \A i \in 1 .. n : un[i] = tn[i]
        /\ \A i \in 1 .. n : tn[i] \in Task
    BY AppendFacts
  <1>3. /\ n + 1 \in 1 .. (n + 1)
        /\ \A i \in 1 .. n : i \in 1 .. (n + 1)
        /\ \A i \in 1 .. (n + 1) : i = n + 1 \/ i \in 1 .. n
    BY <1>2
  <1>4. \A k \in 1 .. n : tn[k] # t
    BY DEF TurnOK
  <1> HIDE DEF p, un, n
  <1>5. \A i \in 1 .. (n + 1) : (i = n + 1 /\ un[i] = t) \/ (i \in 1 .. n /\ un[i] = tn[i] /\ un[i] # t)
    BY <1>2, <1>3, <1>4
  <1>6. \A i, j \in 1 .. (n + 1) : un[i] = un[j] => i = j
    <2>1. \A i, j \in 1 .. n : tn[i] = tn[j] => i = j
      BY DEF TurnOK, n
    <2> QED
      BY <1>5, <2>1
  <1>7. \A u \in Task : p[u] # <<>> <=> \E k \in 1 .. (n + 1) : un[k] = u
    <2>1. \A u \in Task : o[u] # <<>> <=> \E k \in 1 .. n : tn[k] = u
      BY DEF TurnOK, n
    <2>2. p[t] # <<>> /\ \E k \in 1 .. (n + 1) : un[k] = t
      BY <1>1, <1>2, <1>3
    <2>3. ASSUME NEW u \in Task, u # t PROVE p[u] # <<>> <=> \E k \in 1 .. (n + 1) : un[k] = u
      <3>1. ASSUME NEW k \in 1 .. n, tn[k] = u PROVE \E j \in 1 .. (n + 1) : un[j] = u
        BY <1>2, <1>3, <3>1
      <3>2. ASSUME NEW k \in 1 .. (n + 1), un[k] = u PROVE \E j \in 1 .. n : tn[j] = u
        BY <1>5, <2>3, <3>2
      <3> QED
        BY <1>1, <2>1, <2>3, <3>1, <3>2
    <2> QED
      BY <2>2, <2>3
  <1>8. \A k \in 0 .. n : StateAt(x, p, un, k) = StateAt(x, o, tn, k)
    <2>1. StateAt(x, p, un, 0) = StateAt(x, o, tn, 0)
      BY DEF StateAt
    <2>2. ASSUME NEW k \in 1 .. n PROVE StateAt(x, p, un, k) = StateAt(x, o, tn, k)
      <3>1. un[k] = tn[k] /\ p[un[k]] = o[tn[k]]
        BY <1>1, <1>2, <1>4
      <3> QED
        BY <3>1 DEF StateAt
    <2>3. \A k \in 0 .. n : k = 0 \/ k \in 1 .. n
      BY <1>2
    <2> QED
      BY <2>1, <2>2, <2>3, Zenon
  <1>9. StateAt(x, o, tn, n) = y
    BY DEF TurnOK, n
  <1>10. ASSUME NEW k \in 1 .. (n + 1) PROVE Chain(p[un[k]], StateAt(x, p, un, k - 1))
    <2>1. CASE k = n + 1
      <3>1. k - 1 = n /\ n \in 0 .. n
        BY <1>2, <2>1
      <3>2. p[un[k]] = a /\ StateAt(x, p, un, k - 1) = y
        BY <1>1, <1>2, <1>8, <1>9, <2>1, <3>1
      <3> QED
        BY <3>2
    <2>2. CASE k \in 1 .. n
      <3>1. k - 1 \in 0 .. n
        BY <1>2, <2>2
      <3>2. p[un[k]] = o[tn[k]] /\ StateAt(x, p, un, k - 1) = StateAt(x, o, tn, k - 1)
        BY <1>1, <1>2, <1>4, <1>8, <2>2, <3>1
      <3>3. Chain(o[tn[k]], StateAt(x, o, tn, k - 1))
        BY <2>2 DEF TurnOK, n
      <3> QED
        BY <3>2, <3>3
    <2> QED
      BY <1>3, <2>1, <2>2
  <1>11. StateAt(x, p, un, n + 1) = Says(a[Len(a)])
    <2>1. n + 1 # 0
      BY <1>2
    <2> QED
      BY <1>1, <1>2, <2>1 DEF StateAt
  <1>12. TurnOK(x, p, un, Says(a[Len(a)]))
    BY <1>2, <1>6, <1>7, <1>10, <1>11 DEF TurnOK
  <1> QED
    BY <1>12 DEF p, un

\* The task whose turn it is emits an event, and has more.
LEMMA TurnMore ==
  ASSUME NEW o \in [Task -> Seq(Event)], NEW tn \in Seq(Task), NEW x, NEW y, TurnOK(x, o, tn, y),
         NEW t \in Task, o[t] # <<>>, Head(tn) = t, tn # <<>>, Len(o[t]) # 1,
         NEW p, p[t] = Tail(o[t]), \A u \in Task : u # t => p[u] = o[u]
  PROVE  TurnOK(Says(Head(o[t])), p, tn, y)
  <1> DEFINE s == o[t]
             b == Tail(s)
             n == Len(tn)
             z == Says(Head(s))
  <1>1. p[t] = b /\ \A u \in Task : u # t => p[u] = o[u]
    OBVIOUS
  <1>2. s \in Seq(Event) /\ s # <<>>
    OBVIOUS
  <1>3. n \in Nat \ {0} /\ tn[1] = t /\ \A i \in 1 .. n : tn[i] \in Task
    BY TailFacts
  <1>13. 1 \in 1 .. n /\ 1 - 1 = 0
    BY <1>3
  <1>4. Chain(s, x)
    <2>1. Chain(o[tn[1]], StateAt(x, o, tn, 1 - 1))
      BY <1>13 DEF TurnOK
    <2> QED
      BY <1>3, <1>13, <2>1 DEF StateAt
  <1>5. /\ Plain(Head(s)) => x = "on"
        /\ Chain(b, z) /\ After(b, z) = After(s, x)
    BY <1>2, <1>4, ChainTail
  <1>6. b # <<>> /\ b[Len(b)] = s[Len(s)]
    <2>1. /\ Len(s) \in Nat \ {0} /\ b \in Seq(Event) /\ Len(b) = Len(s) - 1
          /\ \A i \in 1 .. Len(b) : b[i] = s[i + 1]
      BY <1>2, TailFacts
    <2> HIDE DEF b, s
    <2>2. Len(s) # 1
      BY DEF s
    <2>3. Len(b) \in 1 .. Len(b) /\ Len(b) + 1 = Len(s)
      BY <2>1, <2>2
    <2> QED
      BY <2>1, <2>3
  <1>7. \A k \in 1 .. n : tn[k] = t => k = 1
    <2>1. \A i, j \in 1 .. n : tn[i] = tn[j] => i = j
      BY DEF TurnOK
    <2> QED
      BY <1>3, <1>13, <2>1
  <1> HIDE DEF n, s, b, z
  <1>8. \A k \in 1 .. n : StateAt(z, p, tn, k) = StateAt(x, o, tn, k)
    <2> SUFFICES ASSUME NEW k \in 1 .. n PROVE StateAt(z, p, tn, k) = StateAt(x, o, tn, k)
      OBVIOUS
    <2>1. p[tn[k]][Len(p[tn[k]])] = o[tn[k]][Len(o[tn[k]])]
      BY <1>1, <1>3, <1>6 DEF s
    <2>2. k # 0
      BY <1>3
    <2> QED
      BY <2>1, <2>2 DEF StateAt
  <1>9. ASSUME NEW k \in 1 .. n PROVE Chain(p[tn[k]], StateAt(z, p, tn, k - 1))
    <2>1. CASE k = 1
      BY <1>1, <1>3, <1>5, <2>1 DEF StateAt
    <2>2. CASE k # 1
      <3>1. k - 1 \in 1 .. n
        BY <1>3, <2>2
      <3>2. p[tn[k]] = o[tn[k]]
        BY <1>1, <1>3, <1>7, <2>2
      <3>3. Chain(o[tn[k]], StateAt(x, o, tn, k - 1))
        BY DEF TurnOK, n
      <3> QED
        BY <1>8, <3>1, <3>2, <3>3
    <2> QED
      BY <2>1, <2>2
  <1>10. \A u \in Task : p[u] # <<>> <=> \E k \in 1 .. n : tn[k] = u
    <2>1. \A u \in Task : o[u] # <<>> <=> \E k \in 1 .. n : tn[k] = u
      BY DEF TurnOK, n
    <2>2. p[t] # <<>> /\ o[t] # <<>>
      BY <1>1, <1>6
    <2> QED
      BY <1>1, <2>1, <2>2
  <1>11. StateAt(z, p, tn, n) = y
    <2>1. n \in 1 .. n
      BY <1>3
    <2> QED
      BY <1>8, <2>1 DEF TurnOK, n
  <1>12. TurnOK(z, p, tn, y)
    BY <1>9, <1>10, <1>11 DEF TurnOK, n
  <1> QED
    BY <1>12 DEF s, z

\* The same of its last event: the next task has the turn.
LEMMA TurnLast ==
  ASSUME NEW o \in [Task -> Seq(Event)], NEW tn \in Seq(Task), NEW x, NEW y, TurnOK(x, o, tn, y),
         NEW t \in Task, o[t] # <<>>, Head(tn) = t, tn # <<>>, Len(o[t]) = 1,
         NEW p, p[t] = Tail(o[t]), \A u \in Task : u # t => p[u] = o[u]
  PROVE  TurnOK(Says(Head(o[t])), p, Tail(tn), y)
  <1> DEFINE s == o[t]
             n == Len(tn)
             un == Tail(tn)
             z == Says(Head(s))
  <1>1. s \in Seq(Event) /\ s # <<>> /\ Len(s) = 1
    OBVIOUS
  <1>2. Tail(s) = <<>> /\ Head(s) = s[1]
    <2> HIDE DEF s
    <2>1. Head(s) = s[1] /\ Tail(s) \in Seq(Event) /\ Len(Tail(s)) = Len(s) - 1
      BY <1>1, TailFacts
    <2>2. Len(Tail(s)) = 0
      BY <1>1, <2>1
    <2> QED
      BY <2>1, <2>2, EmptySeq
  <1>3. p[t] = <<>> /\ \A u \in Task : u # t => p[u] = o[u]
    BY <1>2
  <1>4. /\ n \in Nat \ {0} /\ tn[1] = t /\ Len(un) = n - 1
        /\ \A i \in 1 .. Len(un) : un[i] = tn[i + 1]
    BY TailFacts
  <1>5. \A i \in 1 .. n : tn[i] \in Task
    OBVIOUS
  <1> HIDE DEF n, s, un, z
  <1>8. \A i, j \in 1 .. n : tn[i] = tn[j] => i = j
    BY DEF TurnOK, n
  <1>9. \A k \in 1 .. (n - 1) : k + 1 \in 1 .. n /\ k + 1 # 1 /\ un[k] = tn[k + 1] /\ tn[k + 1] # t
    <2> SUFFICES ASSUME NEW k \in 1 .. (n - 1)
                 PROVE  k + 1 \in 1 .. n /\ k + 1 # 1 /\ un[k] = tn[k + 1] /\ tn[k + 1] # t
      OBVIOUS
    <2>1. k + 1 \in 1 .. n /\ k + 1 # 1 /\ 1 \in 1 .. n
      BY <1>4
    <2> QED
      BY <1>4, <1>8, <2>1
  <1>10. \A i, j \in 1 .. (n - 1) : un[i] = un[j] => i = j
    <2> SUFFICES ASSUME NEW i \in 1 .. (n - 1), NEW j \in 1 .. (n - 1), un[i] = un[j] PROVE i = j
      OBVIOUS
    <2>1. i + 1 = j + 1
      BY <1>8, <1>9
    <2> QED
      BY <1>4, <2>1
  <1>11. \A u \in Task : p[u] # <<>> <=> \E k \in 1 .. (n - 1) : un[k] = u
    <2>1. \A u \in Task : o[u] # <<>> <=> \E k \in 1 .. n : tn[k] = u
      BY DEF TurnOK, n
    <2>2. ASSUME NEW u \in Task, NEW k \in 1 .. n, tn[k] = u, u # t PROVE \E j \in 1 .. (n - 1) : un[j] = u
      <3>1. k - 1 \in 1 .. (n - 1) /\ (k - 1) + 1 = k
        BY <1>4, <2>2
      <3> QED
        BY <1>9, <2>2, <3>1
    <2>3. ASSUME NEW u \in Task, NEW k \in 1 .. (n - 1), un[k] = u PROVE u # t /\ \E j \in 1 .. n : tn[j] = u
      BY <1>9, <2>3
    <2> QED
      BY <1>3, <2>1, <2>2, <2>3
  <1>12. \A k \in 0 .. (n - 1) : StateAt(z, p, un, k) = StateAt(x, o, tn, k + 1)
    <2> SUFFICES ASSUME NEW k \in 0 .. (n - 1) PROVE StateAt(z, p, un, k) = StateAt(x, o, tn, k + 1)
      OBVIOUS
    <2>1. k + 1 # 0 /\ k + 1 \in 1 .. n
      BY <1>4
    <2>2. CASE k = 0
      <3>1. StateAt(x, o, tn, k + 1) = Says(s[1])
        BY <1>1, <1>4, <2>1, <2>2 DEF StateAt, s
      <3> QED
        BY <1>2, <2>2, <3>1 DEF StateAt, z
    <2>3. CASE k # 0
      <3>1. k \in 1 .. (n - 1)
        BY <1>4, <2>3
      <3>2. un[k] = tn[k + 1] /\ p[un[k]] = o[tn[k + 1]]
        BY <1>3, <1>5, <1>9, <3>1
      <3> QED
        BY <2>1, <2>3, <3>2 DEF StateAt
    <2> QED
      BY <2>2, <2>3
  <1>13. ASSUME NEW k \in 1 .. (n - 1) PROVE Chain(p[un[k]], StateAt(z, p, un, k - 1))
    <2>1. k - 1 \in 0 .. (n - 1) /\ (k - 1) + 1 = k /\ (k + 1) - 1 = k
      BY <1>4
    <2>2. p[un[k]] = o[tn[k + 1]]
      BY <1>3, <1>5, <1>9
    <2>3. \A j \in 1 .. n : Chain(o[tn[j]], StateAt(x, o, tn, j - 1))
      BY DEF TurnOK, n
    <2>4. Chain(o[tn[k + 1]], StateAt(x, o, tn, (k + 1) - 1))
      BY <1>9, <2>3
    <2>5. StateAt(z, p, un, k - 1) = StateAt(x, o, tn, k)
      BY <1>12, <2>1
    <2> QED
      BY <2>1, <2>2, <2>4, <2>5
  <1>14. StateAt(z, p, un, n - 1) = y
    <2>1. n - 1 \in 0 .. (n - 1) /\ (n - 1) + 1 = n
      BY <1>4
    <2> QED
      BY <1>12, <2>1 DEF TurnOK, n
  <1>15. TurnOK(z, p, un, y)
    BY <1>4, <1>10, <1>11, <1>13, <1>14 DEF TurnOK
  <1> QED
    BY <1>15 DEF s, z, un

-----------------------------------------------------------------------------
\* Steps of the tasks.

\* A task changes the table and has events to emit that lead to what it says.
LEMMA ProducesKeeps ==
  ASSUME PresenceInv, NEW t \in Task, NEW a \in Seq(Event), a # <<>>, Produces(t, a),
         reg' \in Registration, next' \in Nat,
         Chain(a, TableSays(reg)), TableSays(reg') = Says(a[Len(a)]),
         \/ reg'.st = "none"
         \/ reg.st # "none" /\ reg'.seq = reg.seq
         \/ \E i \in 1 .. Len(a) : a[i] = RegisteredAs(reg'.seq),
         UNCHANGED <<sink, worker, row, boots, mishap>>
  PROVE  PresenceInv'
  <1>1. SinkInv
    BY DEF PresenceInv
  <1>2. /\ out \in [Task -> Seq(Event)] /\ turn \in Seq(Task) /\ mishap \in BOOLEAN
    BY <1>1 DEF SinkInv
  <1>3. /\ out[t] = <<>> /\ out' = [out EXCEPT ![t] = a]
        /\ turn' = IF mishap THEN turn ELSE Append(turn, t)
    BY DEF Produces
  <1>4. sink' = sink /\ worker' = worker /\ row' = row /\ boots' = boots /\ mishap' = mishap
    OBVIOUS
  <1>5. out' \in [Task -> Seq(Event)] /\ out'[t] = a /\ \A u \in Task : u # t => out'[u] = out[u]
    BY <1>2, <1>3
  <1>6. turn' \in Seq(Task)
    BY <1>2, <1>3, AppendFacts
  <1>7. SinkInv'
    BY <1>1, <1>4, <1>5, <1>6 DEF SinkInv
  <1>8. ASSUME ~mishap' PROVE OrderOK'
    <2>1. OrderOK /\ turn' = Append(turn, t)
      BY <1>3, <1>4, <1>8 DEF PresenceInv
    <2> DEFINE x == After(Line(sink), RowSays(worker, row))
    <2>2. TurnOK(x, out, turn, TableSays(reg))
      BY <2>1 DEF OrderOK
    <2> HIDE DEF x
    <2>3. TurnOK(x, out', turn', TableSays(reg'))
      <3>1. out[t] = <<>> /\ Chain(a, TableSays(reg))
        BY <1>3
      <3>2. TurnOK(x, [out EXCEPT ![t] = a], Append(turn, t), Says(a[Len(a)]))
        BY <1>2, <2>2, <3>1, TurnAppend
      <3> QED
        BY <1>3, <2>1, <3>2
    <2>4. reg'.st # "none" => reg'.seq \in boots \/ UnderWay(RegisteredAs(reg'.seq), out', sink, worker)
      <3>1. CASE \E i \in 1 .. Len(a) : a[i] = RegisteredAs(reg'.seq)
        BY <1>5, <3>1 DEF UnderWay
      <3>2. CASE reg.st # "none" /\ reg'.seq = reg.seq
        <4>1. reg.seq \in boots \/ UnderWay(RegisteredAs(reg.seq), out, sink, worker)
          BY <2>1, <3>2 DEF OrderOK
        <4>2. ASSUME NEW u \in Task, NEW i \in 1 .. Len(out[u]), out[u][i] = RegisteredAs(reg.seq)
              PROVE  out'[u] = out[u]
          BY <1>3, <1>5, <4>2
        <4> QED
          BY <3>2, <4>1, <4>2 DEF UnderWay
      <3> QED
        BY <3>1, <3>2
    <2>5. RowOK(worker', row') /\ Chain(Line(sink'), RowSays(worker', row'))
      BY <1>4, <2>1 DEF OrderOK
    <2>6. TurnOK(After(Line(sink'), RowSays(worker', row')), out', turn', TableSays(reg'))
      BY <1>4, <2>3 DEF x
    <2>7. reg'.st # "none" => reg'.seq \in boots' \/ UnderWay(RegisteredAs(reg'.seq), out', sink', worker')
      BY <1>4, <2>4
    <2> QED
      BY <2>5, <2>6, <2>7 DEF OrderOK
  <1> QED
    BY <1>7, <1>8 DEF PresenceInv

\* One event.
LEMMA OneEvent ==
  ASSUME NEW e \in Event, NEW x, Plain(e) => x = "on"
  PROVE  /\ <<e>> \in Seq(Event) /\ <<e>> # <<>> /\ Len(<<e>>) = 1 /\ <<e>>[1] = e
         /\ Chain(<<e>>, x) /\ <<e>>[Len(<<e>>)] = e
  BY DEF Chain

LEMMA TwoEvents ==
  ASSUME NEW e \in Event, NEW f \in Event, NEW x, ~Plain(e), Says(e) = "on"
  PROVE  /\ <<e, f>> \in Seq(Event) /\ <<e, f>> # <<>> /\ <<e, f>>[Len(<<e, f>>)] = f
         /\ Chain(<<e, f>>, x)
  <1> DEFINE s == <<e, f>>
  <1>1. s \in Seq(Event) /\ s # <<>> /\ Len(s) = 2 /\ s[1] = e /\ s[2] = f
    OBVIOUS
  <1> HIDE DEF s
  <1>2. ASSUME NEW i \in 1 .. Len(s), Plain(s[i]) PROVE (IF i = 1 THEN x ELSE Says(s[i - 1])) = "on"
    <2>1. i = 2 /\ i - 1 = 1
      BY <1>1, <1>2
    <2> QED
      BY <1>1, <2>1
  <1>3. Chain(s, x)
    BY <1>2 DEF Chain
  <1> QED
    BY <1>1, <1>3 DEF s

LEMMA Events ==
  /\ \A n \in Nat : RegisteredAs(n) \in Event /\ ~Plain(RegisteredAs(n)) /\ Says(RegisteredAs(n)) = "on"
  /\ \A k \in EventKind :
       /\ NoSeq(k) \in Event
       /\ Plain(NoSeq(k)) <=> k \in {"Keepalive", "Alarm"}
       /\ Says(NoSeq(k)) = IF k \in {"Unregistered", "Offline"} THEN "off" ELSE "on"
  BY DEF RegisteredAs, NoSeq, Event, EventKind, Plain, Says

LEMMA RegisterKeeps ==
  ASSUME PresenceInv, NEW t \in Task, Register(t)
  PROVE  PresenceInv'
  <1> DEFINE n == NextSequence
             e == RegisteredAs(n)
  <1>1. reg \in Registration /\ next \in Nat
    BY DEF PresenceInv, SinkInv
  <1>2. n \in Nat
    BY <1>1 DEF NextSequence, Registration
  <1>3. reg' = [st |-> "online", seq |-> n] /\ next' = IF n > next THEN n ELSE next
    BY DEF Register
  <1>4. Produces(t, <<e>>) /\ UNCHANGED <<sink, worker, row, boots, mishap>>
    BY DEF Register, RegisteredAs
  <1> HIDE DEF n
  <1>5. reg' \in Registration /\ next' \in Nat /\ reg'.st = "online" /\ reg'.seq = n
    BY <1>1, <1>2, <1>3 DEF Registration
  <1>6. e \in Event /\ ~Plain(e) /\ Says(e) = "on"
    BY <1>2, Events
  <1>7. RegisteredAs(reg'.seq) = e
    BY <1>5
  <1> HIDE DEF e
  <1>8. /\ <<e>> \in Seq(Event) /\ <<e>> # <<>> /\ Len(<<e>>) = 1 /\ <<e>>[1] = e
        /\ Chain(<<e>>, TableSays(reg)) /\ <<e>>[Len(<<e>>)] = e
    BY <1>6, OneEvent
  <1>9. TableSays(reg') = Says(<<e>>[Len(<<e>>)])
    BY <1>5, <1>6, <1>8 DEF TableSays
  <1>10. \E i \in 1 .. Len(<<e>>) : <<e>>[i] = RegisteredAs(reg'.seq)
    BY <1>7, <1>8
  <1> QED
    BY <1>4, <1>5, <1>8, <1>9, <1>10, ProducesKeeps

\* Events that say that the device is gone, or silent.
LEMMA OffKeeps ==
  ASSUME PresenceInv, NEW t \in Task, NEW k \in {"Unregistered", "Offline"}, Produces(t, <<NoSeq(k)>>),
         reg' \in Registration, reg'.st # "online", next' \in Nat,
         reg'.st = "none" \/ (reg.st # "none" /\ reg'.seq = reg.seq),
         UNCHANGED <<sink, worker, row, boots, mishap>>
  PROVE  PresenceInv'
  <1> DEFINE e == NoSeq(k)
  <1>1. e \in Event /\ ~Plain(e) /\ Says(e) = "off"
    BY Events DEF EventKind
  <1> HIDE DEF e
  <1>2. /\ <<e>> \in Seq(Event) /\ <<e>> # <<>> /\ Len(<<e>>) = 1 /\ <<e>>[1] = e
        /\ Chain(<<e>>, TableSays(reg)) /\ <<e>>[Len(<<e>>)] = e
    BY <1>1, OneEvent
  <1>3. TableSays(reg') = Says(<<e>>[Len(<<e>>)])
    BY <1>1, <1>2 DEF TableSays
  <1>4. Produces(t, <<e>>)
    BY DEF e
  <1> QED
    BY <1>2, <1>3, <1>4, ProducesKeeps

LEMMA MessageKeeps ==
  ASSUME PresenceInv, NEW t \in Task, NEW k \in {"Keepalive", "Alarm"}, Message(t, k)
  PROVE  PresenceInv'
  <1> DEFINE e == NoSeq("Online")
             f == NoSeq(k)
             x == TableSays(reg)
  <1>1. e \in Event /\ ~Plain(e) /\ Says(e) = "on" /\ f \in Event /\ Plain(f) /\ Says(f) = "on"
    BY Events DEF EventKind
  <1>2. reg \in Registration /\ next \in Nat
    BY DEF PresenceInv, SinkInv
  <1>3. /\ reg.st # "none" /\ reg' = [reg EXCEPT !.st = "online"] /\ next' = next
        /\ Produces(t, IF reg.st = "offline" THEN <<e, f>> ELSE <<f>>)
        /\ UNCHANGED <<sink, worker, row, boots, mishap>>
    BY DEF Message
  <1> HIDE DEF e, f
  <1>4. reg' \in Registration /\ reg'.st = "online" /\ reg'.seq = reg.seq
    BY <1>2, <1>3 DEF Registration
  <1>5. CASE reg.st = "offline"
    <2>1. Produces(t, <<e, f>>)
      BY <1>3, <1>5
    <2>2. /\ <<e, f>> \in Seq(Event) /\ <<e, f>> # <<>> /\ <<e, f>>[Len(<<e, f>>)] = f
          /\ Chain(<<e, f>>, TableSays(reg))
      BY <1>1, TwoEvents
    <2>3. TableSays(reg') = Says(<<e, f>>[Len(<<e, f>>)])
      BY <1>1, <1>4, <2>2 DEF TableSays
    <2> QED
      BY <1>2, <1>3, <1>4, <2>1, <2>2, <2>3, ProducesKeeps
  <1>6. CASE reg.st = "online"
    <2>1. Produces(t, <<f>>)
      BY <1>3, <1>6
    <2>2. TableSays(reg) = "on"
      BY <1>6 DEF TableSays
    <2>3. /\ <<f>> \in Seq(Event) /\ <<f>> # <<>> /\ <<f>>[Len(<<f>>)] = f
          /\ Chain(<<f>>, TableSays(reg))
      BY <1>1, <2>2, OneEvent
    <2>4. TableSays(reg') = Says(<<f>>[Len(<<f>>)])
      BY <1>1, <1>4, <2>3 DEF TableSays
    <2> QED
      BY <1>2, <1>3, <1>4, <2>1, <2>3, <2>4, ProducesKeeps
  <1> QED
    BY <1>2, <1>3, <1>5, <1>6 DEF Registration

LEMMA TableKeeps ==
  ASSUME PresenceInv,
         (\E t \in Conn : Register(t) \/ Unregister(t) \/ Keepalive(t) \/ Message(t, "Alarm"))
           \/ TickExpired \/ TickSilent
  PROVE  PresenceInv'
  <1>1. Ticker \in Task /\ \A t \in Conn : t \in Task
    BY DEF Task
  <1>2. reg \in Registration /\ next \in Nat
    BY DEF PresenceInv, SinkInv
  <1>3. NotRegistered \in Registration /\ NotRegistered.st = "none"
    BY DEF NotRegistered, Registration
  <1>4. ASSUME NEW t \in Conn, Register(t) PROVE PresenceInv'
    BY <1>1, <1>4, RegisterKeeps
  <1>5. ASSUME NEW t \in Conn, Unregister(t) PROVE PresenceInv'
    <2>1. /\ reg' = NotRegistered /\ next' = next /\ Produces(t, <<NoSeq("Unregistered")>>)
          /\ UNCHANGED <<sink, worker, row, boots, mishap>>
      BY <1>5 DEF Unregister
    <2>2. reg' \in Registration /\ reg'.st = "none" /\ reg'.st # "online" /\ next' \in Nat
      BY <1>2, <1>3, <2>1
    <2> QED
      BY <1>1, <2>1, <2>2, OffKeeps
  <1>6. ASSUME NEW t \in Conn, Keepalive(t) PROVE PresenceInv'
    BY <1>1, <1>6, MessageKeeps DEF Keepalive
  <1>7. ASSUME NEW t \in Conn, Message(t, "Alarm") PROVE PresenceInv'
    BY <1>1, <1>7, MessageKeeps
  <1>8. CASE TickExpired
    <2>1. /\ reg' = NotRegistered /\ next' = next /\ Produces(Ticker, <<NoSeq("Unregistered")>>)
          /\ UNCHANGED <<sink, worker, row, boots, mishap>>
      BY <1>8 DEF TickExpired
    <2>2. reg' \in Registration /\ reg'.st = "none" /\ reg'.st # "online" /\ next' \in Nat
      BY <1>2, <1>3, <2>1
    <2> QED
      BY <1>1, <2>1, <2>2, OffKeeps
  <1>9. CASE TickSilent
    <2>1. /\ reg.st = "online" /\ reg' = [reg EXCEPT !.st = "offline"] /\ next' = next
          /\ Produces(Ticker, <<NoSeq("Offline")>>)
          /\ UNCHANGED <<sink, worker, row, boots, mishap>>
      BY <1>9 DEF TickSilent
    <2>2. /\ reg' \in Registration /\ reg'.st # "online" /\ next' \in Nat
          /\ reg.st # "none" /\ reg'.seq = reg.seq
      BY <1>2, <2>1 DEF Registration
    <2> QED
      BY <1>1, <2>1, <2>2, OffKeeps
  <1> QED
    BY <1>4, <1>5, <1>6, <1>7, <1>8, <1>9

\* A step that loses an event or lets one overtake another: what remains is the
\* accounting of the sink.
LEMMA MishapKeeps ==
  ASSUME SinkInv', mishap'
  PROVE  PresenceInv'
  BY DEF PresenceInv

LEMMA WriteFailsKeeps ==
  ASSUME PresenceInv, NEW t \in Task, WriteFails(t)
  PROVE  PresenceInv'
  <1>1. SinkInv
    BY DEF PresenceInv
  <1>2. out' = [out EXCEPT ![t] = <<>>] /\ turn' = <<>> /\ mishap'
    BY DEF WriteFails
  <1>3. reg' = reg /\ next' = next /\ sink' = sink /\ worker' = worker /\ row' = row
    BY DEF WriteFails
  <1>4. <<>> \in Seq(Event) /\ <<>> \in Seq(Task)
    OBVIOUS
  <1>5. out' \in [Task -> Seq(Event)] /\ turn' \in Seq(Task)
    BY <1>1, <1>2, <1>4 DEF SinkInv
  <1>6. mishap' \in BOOLEAN
    BY DEF WriteFails
  <1>7. SinkInv'
    BY <1>1, <1>3, <1>5, <1>6 DEF SinkInv
  <1> QED
    BY <1>2, <1>7, MishapKeeps

\* emit.
LEMMA EmitKeeps ==
  ASSUME PresenceInv, NEW t \in Task, Emit(t)
  PROVE  PresenceInv'
  <1> DEFINE e == Head(out[t])
  <1>1. SinkInv
    BY DEF PresenceInv
  <1>2. /\ out \in [Task -> Seq(Event)] /\ turn \in Seq(Task) /\ mishap \in BOOLEAN
        /\ SinkOK(sink, worker)
    BY <1>1 DEF SinkInv
  <1>3. /\ out[t] # <<>> /\ out' = [out EXCEPT ![t] = Tail(@)]
        /\ turn' = IF mishap' THEN <<>> ELSE IF Len(out[t]) = 1 THEN Tail(turn) ELSE turn
        /\ reg' = reg /\ next' = next /\ worker' = worker /\ row' = row /\ boots' = boots
    BY DEF Emit
  <1>4. mishap' = (mishap \/ Overtakes(t, e))
    BY DEF Emit
  <1>5. PICK o \in BOOLEAN : sink' = Admitted(sink, e, o)
    BY DEF Emit, Overload
  <1>6. out[t] \in Seq(Event) /\ e \in Event
    BY <1>2, <1>3, TailFacts
  <1> HIDE DEF e
  <1>7. SinkOK(sink', worker) /\ (~Jumps(sink, e) => Joins(sink, e, sink'))
    BY <1>2, <1>5, <1>6, AdmittedKeeps
  <1>8. out' \in [Task -> Seq(Event)]
    <2>1. Tail(out[t]) \in Seq(Event)
      BY <1>3, <1>6, TailFacts
    <2> QED
      BY <1>2, <1>3, <2>1
  <1>9. Overtakes(t, e) <=> Head(turn) # t \/ Jumps(sink, e)
    BY DEF Overtakes, Jumps
  <1>10. mishap' \in BOOLEAN
    BY <1>2, <1>4, <1>9
  <1>11. ASSUME ~mishap' PROVE /\ OrderOK /\ turn # <<>> /\ Head(turn) = t /\ Joins(sink, e, sink')
                               /\ turn' = IF Len(out[t]) = 1 THEN Tail(turn) ELSE turn
    <2>1. ~mishap /\ ~Overtakes(t, e)
      BY <1>4, <1>11
    <2>2. OrderOK /\ Head(turn) = t /\ Joins(sink, e, sink')
      BY <1>7, <1>9, <2>1 DEF PresenceInv
    <2>3. \E k \in 1 .. Len(turn) : turn[k] = t
      BY <1>3, <2>2 DEF OrderOK, TurnOK
    <2>4. turn # <<>>
      BY <2>3
    <2>5. turn' = IF Len(out[t]) = 1 THEN Tail(turn) ELSE turn
      BY <1>3, <1>11
    <2> QED
      BY <2>2, <2>4, <2>5
  <1>12. turn' \in Seq(Task)
    <2>1. CASE mishap'
      BY <1>3, <2>1
    <2>2. CASE ~mishap'
      <3>1. turn # <<>> /\ turn' = IF Len(out[t]) = 1 THEN Tail(turn) ELSE turn
        BY <1>11, <2>2
      <3>2. Tail(turn) \in Seq(Task)
        BY <1>2, <3>1, TailFacts
      <3> QED
        BY <1>2, <3>1, <3>2
    <2> QED
      BY <2>1, <2>2
  <1>13. SinkInv'
    BY <1>1, <1>3, <1>7, <1>8, <1>10, <1>12 DEF SinkInv
  <1>14. ASSUME ~mishap' PROVE OrderOK'
    <2> DEFINE x == RowSays(worker, row)
               a == After(Line(sink), x)
    <2>1. /\ OrderOK /\ turn # <<>> /\ Head(turn) = t /\ Joins(sink, e, sink')
          /\ turn' = IF Len(out[t]) = 1 THEN Tail(turn) ELSE turn
      BY <1>11, <1>14
    <2>2. /\ RowOK(worker, row) /\ Chain(Line(sink), x)
          /\ TurnOK(a, out, turn, TableSays(reg))
      BY <2>1 DEF OrderOK
    <2> HIDE DEF x, a
    <2>12. out'[t] = Tail(out[t]) /\ \A u \in Task : u # t => out'[u] = out[u]
      BY <1>2, <1>3
    <2>3. (Plain(e) => a = "on") /\ TurnOK(Says(e), out', turn', TableSays(reg))
      <3>1. out \in [Task -> Seq(Event)] /\ turn \in Seq(Task) /\ turn # <<>> /\ Head(turn) = t
        BY <1>2, <2>1
      <3>2. out[t] # <<>> /\ TurnOK(a, out, turn, TableSays(reg))
        BY <1>3, <2>2
      <3>3. Plain(e) => a = "on"
        <4>1. Len(turn) \in Nat \ {0} /\ turn[1] = t
          BY <3>1, TailFacts
        <4>2. 1 \in 1 .. Len(turn) /\ 1 - 1 = 0
          BY <4>1
        <4>3. Chain(out[turn[1]], StateAt(a, out, turn, 1 - 1))
          BY <3>2, <4>2 DEF TurnOK
        <4>4. Chain(out[t], a)
          BY <4>1, <4>2, <4>3 DEF StateAt
        <4> QED
          BY <1>6, <3>2, <4>4, ChainTail DEF e
      <3>4. CASE Len(out[t]) = 1
        <4>1. turn' = Tail(turn)
          BY <2>1, <3>4
        <4>2. TurnOK(Says(Head(out[t])), out', Tail(turn), TableSays(reg))
          BY <2>12, <3>1, <3>2, <3>4, TurnLast, Zenon
        <4> QED
          BY <3>3, <4>1, <4>2 DEF e
      <3>5. CASE Len(out[t]) # 1
        <4>1. turn' = turn
          BY <2>1, <3>5
        <4>2. TurnOK(Says(Head(out[t])), out', turn, TableSays(reg))
          BY <2>12, <3>1, <3>2, <3>5, TurnMore, Zenon
        <4> QED
          BY <3>3, <4>1, <4>2 DEF e
      <3> QED
        BY <3>4, <3>5
    <2>4. Line(sink) \in Seq(Event)
      <3>1. sink.queue \in Seq(Event) /\ sink.dlq \in Seq(Event)
        BY <1>2, SinkFields DEF SinkOK
      <3> QED
        BY <3>1, ConcatFacts DEF Line
    <2>5. Chain(Line(sink'), x) /\ After(Line(sink'), x) = Says(e)
      <3>1. CASE Line(sink') = Append(Line(sink), e)
        BY <1>6, <2>2, <2>3, <2>4, <3>1, ChainAppend DEF a
      <3>2. CASE Low(e) /\ sink' = sink
        <4>1. Plain(e) /\ Says(e) = "on"
          BY <3>2 DEF Low, Plain, Says
        <4> QED
          BY <2>2, <2>3, <3>2, <4>1 DEF a
      <3> QED
        BY <2>1, <3>1, <3>2 DEF Joins
    <2>6. ASSUME NEW n, UnderWay(RegisteredAs(n), out, sink, worker)
          PROVE  UnderWay(RegisteredAs(n), out', sink', worker)
      <3> DEFINE f == RegisteredAs(n)
      <3>1. ~Low(f)
        BY DEF Low, RegisteredAs
      <3> HIDE DEF f
      <3>2. \A i \in 1 .. Len(Line(sink)) : i \in 1 .. Len(Line(sink')) /\ Line(sink')[i] = Line(sink)[i]
        <4>1. CASE Line(sink') = Append(Line(sink), e)
          <5> DEFINE l == Line(sink)
          <5>1. l \in Seq(Event) /\ Line(sink') = Append(l, e)
            BY <2>4, <4>1
          <5> HIDE DEF l
          <5>2. \A i \in 1 .. Len(l) : i \in 1 .. Len(Line(sink')) /\ Line(sink')[i] = l[i]
            BY <1>6, <5>1, AppendFacts
          <5> QED
            BY <5>2 DEF l
        <4>2. CASE sink' = sink
          BY <4>2
        <4> QED
          BY <2>1, <4>1, <4>2 DEF Joins
      <3>3. ASSUME f = e PROVE \E i \in 1 .. Len(Line(sink')) : Line(sink')[i] = f
        <4> DEFINE l == Line(sink)
        <4>1. l \in Seq(Event) /\ Line(sink') = Append(l, e)
          BY <2>1, <2>4, <3>1, <3>3 DEF Joins
        <4> HIDE DEF l
        <4>2. Len(l) + 1 \in 1 .. Len(Append(l, e)) /\ Append(l, e)[Len(l) + 1] = e
          BY <1>6, <4>1, AppendFacts
        <4> QED
          BY <3>3, <4>1, <4>2
      <3>4. ASSUME NEW u \in Task, NEW i \in 1 .. Len(out[u]), out[u][i] = f, f # e
            PROVE  \E j \in 1 .. Len(out'[u]) : out'[u][j] = f
        <4>1. CASE u # t
          BY <1>2, <1>3, <3>4, <4>1
        <4>2. CASE u = t
          <5>1. out'[u] = Tail(out[t])
            BY <1>2, <1>3, <4>2
          <5> DEFINE s == out[t]
          <5>2. /\ Len(s) \in Nat \ {0} /\ Head(s) = s[1] /\ Len(Tail(s)) = Len(s) - 1
                /\ \A j \in 1 .. Len(Tail(s)) : Tail(s)[j] = s[j + 1]
            BY <1>3, <1>6, TailFacts
          <5>3. i \in 1 .. Len(s) /\ s[i] = f /\ i # 1
            BY <3>4, <4>2, <5>2 DEF e
          <5> HIDE DEF s
          <5>4. i - 1 \in 1 .. Len(Tail(s)) /\ (i - 1) + 1 = i
            BY <5>2, <5>3
          <5>5. Tail(s)[i - 1] = f
            BY <5>2, <5>3, <5>4
          <5> QED
            BY <5>1, <5>4, <5>5 DEF s
        <4> QED
          BY <4>1, <4>2
      <3>5. UnderWay(f, out, sink, worker)
        BY <2>6 DEF f
      <3>6. UnderWay(f, out', sink', worker)
        BY <3>2, <3>3, <3>4, <3>5 DEF UnderWay
      <3> QED
        BY <3>6 DEF f
    <2>7. reg.st # "none" => reg.seq \in boots \/ UnderWay(RegisteredAs(reg.seq), out', sink', worker)
      BY <2>1, <2>6 DEF OrderOK
    <2>8. RowSays(worker', row') = x /\ RowOK(worker', row')
      BY <1>3, <2>2 DEF x
    <2>9. Chain(Line(sink'), RowSays(worker', row'))
      BY <2>5, <2>8
    <2>10. TurnOK(After(Line(sink'), RowSays(worker', row')), out', turn', TableSays(reg'))
      BY <1>3, <2>3, <2>5, <2>8
    <2>11. reg'.st # "none" => reg'.seq \in boots' \/ UnderWay(RegisteredAs(reg'.seq), out', sink', worker')
      BY <1>3, <2>7
    <2> QED
      BY <2>8, <2>9, <2>10, <2>11 DEF OrderOK
  <1> QED
    BY <1>13, <1>14 DEF PresenceInv

-----------------------------------------------------------------------------
\* Steps of the worker.

\* What a step that takes no event from the line has to keep.
LEMMA WorkerKeeps ==
  ASSUME PresenceInv, WorkerOK(worker'), SinkOK(sink', worker'), Line(sink') = Line(sink),
         row' \in Row, UNCHANGED <<reg, next, out, turn, mishap>>,
         ~mishap => /\ RowOK(worker', row') /\ RowSays(worker', row') = RowSays(worker, row)
                    /\ \A n \in Nat : n \in boots \/ InWork(RegisteredAs(n), worker)
                                      => n \in boots' \/ InWork(RegisteredAs(n), worker')
  PROVE  PresenceInv'
  <1>1. SinkInv
    BY DEF PresenceInv
  <1>2. reg' = reg /\ next' = next /\ out' = out /\ turn' = turn /\ mishap' = mishap
    OBVIOUS
  <1>3. SinkInv'
    BY <1>1, <1>2 DEF SinkInv
  <1>4. ASSUME ~mishap' PROVE OrderOK'
    <2>1. OrderOK
      BY <1>2, <1>4 DEF PresenceInv
    <2>2. /\ RowOK(worker', row') /\ RowSays(worker', row') = RowSays(worker, row)
          /\ \A n \in Nat : n \in boots \/ InWork(RegisteredAs(n), worker)
                            => n \in boots' \/ InWork(RegisteredAs(n), worker')
      BY <1>2, <1>4
    <2>3. Chain(Line(sink'), RowSays(worker', row'))
      BY <2>1, <2>2 DEF OrderOK
    <2>4. TurnOK(After(Line(sink'), RowSays(worker', row')), out', turn', TableSays(reg'))
      BY <1>2, <2>1, <2>2 DEF OrderOK
    <2>5. reg.seq \in Nat
      BY <1>1 DEF SinkInv, Registration
    <2>6. reg'.st # "none" => reg'.seq \in boots' \/ UnderWay(RegisteredAs(reg'.seq), out', sink', worker')
      BY <1>2, <2>1, <2>2, <2>5 DEF OrderOK, UnderWay
    <2> QED
      BY <2>2, <2>3, <2>4, <2>6 DEF OrderOK
  <1> QED
    BY <1>3, <1>4 DEF PresenceInv

LEMMA ReceiveStep ==
  ASSUME PresenceInv, Receive
  PROVE  PresenceInv'
  <1> DEFINE x == RowSays(worker, row)
             l == Line(sink)
             e == worker'.ev
  <1>1. SinkInv /\ SinkOK(sink, worker)
    BY DEF PresenceInv, SinkInv
  <1>2. /\ worker.pc = "idle" /\ sink.queue # <<>>
        /\ worker' = [pc |-> "got", ev |-> Head(sink.queue)]
        /\ sink' = [sink EXCEPT !.queue = Tail(@)]
    BY DEF Receive, At
  <1>3. /\ reg' = reg /\ next' = next /\ out' = out /\ row' = row /\ boots' = boots
        /\ turn' = turn /\ mishap' = mishap
    BY DEF Receive
  <1>4. /\ SinkOK(sink', worker') /\ e \in Event
        /\ l \in Seq(Event) /\ l # <<>> /\ Head(l) = e /\ Line(sink') = Tail(l)
    <2>1. Takes(sink, sink', worker')
      BY <1>1, <1>2, ReceiveKeeps, Zenon
    <2> QED
      BY <2>1 DEF Takes
  <1>5. worker'.pc = "got"
    BY <1>2
  <1>6. WorkerOK(worker')
    <2>1. worker' = [pc |-> "got", ev |-> e]
      BY <1>2
    <2>2. worker' \in Worker
      BY <1>4, <2>1 DEF Worker
    <2> QED
      BY <1>4, <1>5, <2>2 DEF WorkerOK
  <1>7. SinkInv'
    BY <1>1, <1>3, <1>4, <1>6 DEF SinkInv
  <1> HIDE DEF l, e
  <1>8. ASSUME ~mishap' PROVE OrderOK'
    <2>1. OrderOK
      BY <1>3, <1>8 DEF PresenceInv
    <2>2. Chain(l, x) /\ TurnOK(After(l, x), out, turn, TableSays(reg))
      BY <2>1 DEF OrderOK, l
    <2>3. x = IF row = "Online" THEN "on" ELSE "off"
      BY <1>2 DEF RowSays
    <2> HIDE DEF x
    <2>4. /\ Plain(e) => x = "on"
          /\ Chain(Tail(l), Says(e)) /\ After(Tail(l), Says(e)) = After(l, x)
      BY <1>4, <2>2, ChainTail
    <2>5. RowSays(worker', row') = Says(e)
      BY <1>5 DEF RowSays, e
    <2>6. RowOK(worker', row')
      BY <1>3, <1>5, <2>3, <2>4 DEF RowOK, e
    <2>7. Chain(Line(sink'), RowSays(worker', row'))
      BY <1>4, <2>4, <2>5
    <2>8. TurnOK(After(Line(sink'), RowSays(worker', row')), out', turn', TableSays(reg'))
      BY <1>3, <1>4, <2>2, <2>4, <2>5
    <2>9. ASSUME NEW f, NEW i \in 1 .. Len(l), l[i] = f
          PROVE  f = e \/ \E j \in 1 .. Len(Tail(l)) : Tail(l)[j] = f
      <3>1. /\ Len(l) \in Nat \ {0} /\ Head(l) = l[1] /\ Len(Tail(l)) = Len(l) - 1
            /\ \A j \in 1 .. Len(Tail(l)) : Tail(l)[j] = l[j + 1]
        BY <1>4, TailFacts
      <3>2. CASE i = 1
        BY <1>4, <2>9, <3>1, <3>2
      <3>3. CASE i # 1
        <4>1. i - 1 \in 1 .. Len(Tail(l)) /\ (i - 1) + 1 = i
          BY <3>1, <3>3
        <4>2. Tail(l)[i - 1] = f
          BY <2>9, <3>1, <4>1
        <4> QED
          BY <4>1, <4>2
      <3> QED
        BY <3>2, <3>3
    <2>10. ASSUME NEW f, UnderWay(f, out, sink, worker) PROVE UnderWay(f, out', sink', worker')
      <3>1. InWork(e, worker') /\ ~InWork(f, worker)
        BY <1>2, <1>5 DEF InWork, e
      <3>2. CASE \E i \in 1 .. Len(l) : l[i] = f
        <4>1. f = e \/ \E j \in 1 .. Len(Line(sink')) : Line(sink')[j] = f
          BY <1>4, <2>9, <3>2
        <4> QED
          BY <3>1, <4>1 DEF UnderWay
      <3>3. CASE \E t \in Task : \E i \in 1 .. Len(out[t]) : out[t][i] = f
        BY <1>3, <3>3 DEF UnderWay
      <3> QED
        BY <2>10, <3>1, <3>2, <3>3 DEF UnderWay, l
    <2>11. reg'.st # "none" => reg'.seq \in boots' \/ UnderWay(RegisteredAs(reg'.seq), out', sink', worker')
      BY <1>3, <2>1, <2>10 DEF OrderOK
    <2> QED
      BY <2>6, <2>7, <2>8, <2>11 DEF OrderOK
  <1> QED
    BY <1>7, <1>8 DEF PresenceInv

\* The step to another program counter with the same event.
LEMMA GoesFacts ==
  ASSUME WorkerOK(worker), NEW pc \in {"work", "mark", "boot", "after"}, worker.pc # "idle", Goes(pc),
         pc = "mark" => worker.ev.kind \in {"Registered", "Online"},
         pc = "boot" => worker.ev.kind = "Registered"
  PROVE  WorkerOK(worker') /\ worker'.pc = pc /\ worker'.ev = worker.ev
  <1>1. worker \in Worker /\ worker.ev \in Event
    BY DEF WorkerOK
  <1>2. worker' = [worker EXCEPT !.pc = pc]
    BY DEF Goes
  <1>3. worker' \in Worker
    BY <1>1, <1>2 DEF Worker
  <1>4. worker'.pc = pc /\ worker'.ev = worker.ev
    BY <1>1, <1>2 DEF Worker
  <1> QED
    BY <1>1, <1>3, <1>4 DEF WorkerOK

LEMMA LockStep ==
  ASSUME PresenceInv, Lock
  PROVE  PresenceInv'
  <1>1. WorkerOK(worker) /\ SinkOK(sink, worker) /\ row \in Row /\ (~mishap => OrderOK)
    BY DEF PresenceInv, SinkInv
  <1>2. worker.pc = "got" /\ Goes("work") /\ sink' = Received(sink)
    BY DEF Lock, At
  <1>3. /\ reg' = reg /\ next' = next /\ out' = out /\ row' = row /\ boots' = boots
        /\ turn' = turn /\ mishap' = mishap
    BY DEF Lock
  <1>4. WorkerOK(worker') /\ worker'.pc = "work" /\ worker'.ev = worker.ev
    BY <1>1, <1>2, GoesFacts
  <1>5. SinkOK(sink', worker') /\ Line(sink') = Line(sink)
    BY <1>1, <1>2, <1>4, ReceivedKeeps
  <1>6. RowOK(worker, row) => RowOK(worker', row')
    BY <1>2, <1>3, <1>4 DEF RowOK
  <1>7. RowSays(worker', row') = RowSays(worker, row)
    BY <1>2, <1>3, <1>4 DEF RowSays
  <1>8. \A n \in Nat : InWork(RegisteredAs(n), worker) => InWork(RegisteredAs(n), worker')
    BY <1>2, <1>4 DEF InWork
  <1>9. ~mishap => RowOK(worker, row)
    BY <1>1 DEF OrderOK
  <1> QED
    BY <1>1, <1>3, <1>4, <1>5, <1>6, <1>7, <1>8, <1>9, WorkerKeeps

LEMMA UnlockStep ==
  ASSUME PresenceInv, Unlock
  PROVE  PresenceInv'
  <1>1. WorkerOK(worker) /\ SinkOK(sink, worker) /\ row \in Row
    BY DEF PresenceInv, SinkInv
  <1>2. worker.pc = "after" /\ worker' = Idle /\ sink' = Released(sink, worker.ev)
    BY DEF Unlock, At
  <1>3. /\ reg' = reg /\ next' = next /\ out' = out /\ row' = row /\ boots' = boots
        /\ turn' = turn /\ mishap' = mishap
    BY DEF Unlock
  <1>4. WorkerOK(worker') /\ worker'.pc = "idle"
    BY <1>2 DEF WorkerOK, Idle, Worker, NoEvent
  <1>5. SinkOK(sink', worker') /\ Line(sink') = Line(sink)
    BY <1>1, <1>2, ReleasedKeeps
  <1>6. RowOK(worker', row')
    BY <1>4 DEF RowOK
  <1>7. RowSays(worker', row') = RowSays(worker, row)
    BY <1>2, <1>3, <1>4 DEF RowSays
  <1>8. \A n \in Nat : ~InWork(RegisteredAs(n), worker)
    BY <1>2 DEF InWork
  <1> QED
    BY <1>1, <1>3, <1>4, <1>5, <1>6, <1>7, <1>8, WorkerKeeps

LEMMA RedriveStep ==
  ASSUME PresenceInv, RedriveTick
  PROVE  PresenceInv'
  <1>1. WorkerOK(worker) /\ SinkOK(sink, worker) /\ row \in Row /\ (~mishap => OrderOK)
    BY DEF PresenceInv, SinkInv
  <1>2. sink' = Redriven(sink)
    BY DEF RedriveTick
  <1>3. /\ reg' = reg /\ next' = next /\ out' = out /\ row' = row /\ boots' = boots /\ turn' = turn
        /\ mishap' = mishap /\ worker' = worker
    BY DEF RedriveTick
  <1>4. SinkOK(sink', worker') /\ Line(sink') = Line(sink)
    BY <1>1, <1>2, <1>3, RedriveKeeps
  <1>5. ~mishap => RowOK(worker', row')
    BY <1>1, <1>3 DEF OrderOK
  <1>6. RowSays(worker', row') = RowSays(worker, row) /\ WorkerOK(worker') /\ row' \in Row
    BY <1>1, <1>3
  <1>7. \A n \in Nat : InWork(RegisteredAs(n), worker) => InWork(RegisteredAs(n), worker')
    BY <1>3
  <1> QED
    BY <1>3, <1>4, <1>5, <1>6, <1>7, WorkerKeeps

\* What process_event leaves alone.
LEMMA ProcessKeeps ==
  ASSUME PresenceInv, worker.pc \in {"work", "mark", "boot"}, row' \in Row,
         NEW pc \in {"mark", "boot", "after"}, Goes(pc),
         pc = "mark" => worker.ev.kind \in {"Registered", "Online"},
         pc = "boot" => worker.ev.kind = "Registered",
         UNCHANGED <<reg, next, out, sink, turn, mishap>>,
         ~mishap => /\ RowOK(worker', row') /\ RowSays(worker', row') = RowSays(worker, row)
                    /\ boots \subseteq boots'
                    /\ worker.ev.kind = "Registered" => pc # "after" \/ worker.ev.seq \in boots'
  PROVE  PresenceInv'
  <1>1. WorkerOK(worker) /\ SinkOK(sink, worker)
    BY DEF PresenceInv, SinkInv
  <1>2. WorkerOK(worker') /\ worker'.pc = pc /\ worker'.ev = worker.ev
    BY <1>1, GoesFacts
  <1>3. sink' = sink
    OBVIOUS
  <1>4. SinkOK(sink', worker') /\ Line(sink') = Line(sink)
    <2>1. worker'.pc = "idle" <=> worker.pc = "idle"
      BY <1>2
    <2>2. worker'.pc = "got" <=> worker.pc = "got"
      BY <1>2
    <2>3. SinkOK(sink, worker')
      BY <1>1, <1>2, <2>1, <2>2, SameHands
    <2> QED
      BY <1>3, <2>3
  <1>5. ASSUME ~mishap, NEW n \in Nat, n \in boots \/ InWork(RegisteredAs(n), worker)
        PROVE  n \in boots' \/ InWork(RegisteredAs(n), worker')
    <2>1. CASE n \in boots
      BY <1>5, <2>1
    <2>2. CASE InWork(RegisteredAs(n), worker)
      <3>1. worker.ev.kind = "Registered" /\ worker.ev.seq = n /\ worker'.ev = RegisteredAs(n)
        BY <1>2, <2>2 DEF InWork, RegisteredAs
      <3>2. pc # "after" => InWork(RegisteredAs(n), worker')
        BY <1>2, <3>1 DEF InWork
      <3> QED
        BY <1>5, <3>1, <3>2
    <2> QED
      BY <1>5, <2>1, <2>2
  <1> QED
    BY <1>2, <1>4, <1>5, WorkerKeeps

LEMMA ProcessStep ==
  ASSUME PresenceInv, Process
  PROVE  PresenceInv'
  <1>1. WorkerOK(worker) /\ row \in Row /\ (~mishap => RowOK(worker, row))
    BY DEF PresenceInv, SinkInv, OrderOK
  <1>2. UNCHANGED <<reg, next, out, sink, turn, mishap>>
    BY DEF Process
  <1>3. worker \in Worker
    BY <1>1 DEF WorkerOK
  <1>4. /\ AfterOnline \in {"boot", "after"}
        /\ AfterOnline = "boot" <=> worker.ev.kind = "Registered"
        /\ AfterOnline = "after" <=> worker.ev.kind # "Registered"
    BY DEF AfterOnline
  <1>20. ASSUME NEW pc, Goes(pc) PROVE worker'.pc = pc /\ worker'.ev = worker.ev
    BY <1>3, <1>20 DEF Goes, Worker
  <1>5. CASE worker.pc = "work" /\ EnsureOnline
    <2>1. worker.ev.kind \in {"Registered", "Online", "Keepalive"} /\ boots' = boots
      BY <1>5 DEF EnsureOnline
    <2>2. RowSays(worker, row) = "on" /\ (~mishap /\ worker.ev.kind = "Keepalive" => row = "Online")
      BY <1>1, <1>5, <2>1 DEF RowSays, Says, RowOK, Plain
    <2>3. CASE row = "none" /\ Forced
      <3>1. row' = "Unknown" /\ Goes("mark")
        BY <1>5, <2>3 DEF EnsureOnline
      <3>2. worker.ev.kind \in {"Registered", "Online"}
        BY <2>3 DEF Forced
      <3>3. worker'.pc = "mark"
        BY <1>20, <3>1
      <3>4. RowOK(worker', row') /\ RowSays(worker', row') = "on" /\ row' \in Row
        BY <3>1, <3>3 DEF RowOK, RowSays, Row
      <3> QED
        BY <1>2, <1>5, <2>1, <2>2, <3>1, <3>2, <3>4, ProcessKeeps
    <2>4. CASE ~(row = "none" /\ Forced)
      <3>1. Goes(AfterOnline) /\ row' = IF row \in {"none", "Online"} THEN row ELSE "Online"
        BY <1>5, <2>4 DEF EnsureOnline
      <3>2. ~mishap => row' = "Online"
        BY <2>1, <2>2, <2>4, <3>1 DEF Forced
      <3>3. worker'.pc = AfterOnline
        BY <1>20, <3>1
      <3>4. ~mishap => RowOK(worker', row') /\ RowSays(worker', row') = "on"
        BY <1>4, <3>2, <3>3 DEF RowOK, RowSays
      <3>5. row' \in Row
        BY <1>1, <3>1 DEF Row
      <3>6. AfterOnline = "mark" => worker.ev.kind \in {"Registered", "Online"}
        BY <1>4
      <3> QED
        BY <1>2, <1>4, <1>5, <2>1, <2>2, <3>1, <3>4, <3>5, <3>6, ProcessKeeps
    <2> QED
      BY <2>3, <2>4
  <1>6. CASE worker.pc = "work" /\ MarkOffline
    <2>1. /\ worker.ev.kind \in {"Unregistered", "Offline"} /\ boots' = boots
          /\ row' = (IF row = "none" THEN row ELSE "Offline") /\ Goes("after")
      BY <1>6 DEF MarkOffline
    <2>2. worker'.pc = "after"
      BY <1>20, <2>1
    <2>3. RowSays(worker, row) = "off"
      BY <1>6, <2>1 DEF RowSays, Says
    <2>4. RowOK(worker', row') /\ RowSays(worker', row') = "off"
      BY <2>1, <2>2 DEF RowOK, RowSays
    <2>5. row' \in Row
      BY <1>1, <2>1 DEF Row
    <2> QED
      BY <1>2, <1>6, <2>1, <2>3, <2>4, <2>5, ProcessKeeps
  <1>7. CASE worker.pc = "work" /\ AppendEvent
    <2>1. worker.ev.kind = "Alarm" /\ boots' = boots /\ row' = row /\ Goes("after")
      BY <1>7 DEF AppendEvent
    <2>2. worker'.pc = "after"
      BY <1>20, <2>1
    <2>3. RowSays(worker, row) = "on" /\ (~mishap => row = "Online")
      BY <1>1, <1>7, <2>1 DEF RowSays, Says, RowOK, Plain
    <2>4. RowOK(worker', row') /\ (~mishap => RowSays(worker', row') = "on")
      BY <2>1, <2>2, <2>3 DEF RowOK, RowSays
    <2> QED
      BY <1>1, <1>2, <1>7, <2>1, <2>3, <2>4, ProcessKeeps
  <1>8. CASE worker.pc = "mark" /\ MarkOnline
    <2>1. row' = "Online" /\ Goes(AfterOnline) /\ boots' = boots
      BY <1>8 DEF MarkOnline
    <2>2. worker'.pc = AfterOnline
      BY <1>20, <2>1
    <2>3. RowSays(worker, row) = "on"
      BY <1>8 DEF RowSays
    <2>4. RowOK(worker', row') /\ RowSays(worker', row') = "on" /\ row' \in Row
      BY <1>4, <2>1, <2>2 DEF RowOK, RowSays, Row
    <2>5. AfterOnline = "mark" => worker.ev.kind \in {"Registered", "Online"}
      BY <1>4
    <2> QED
      BY <1>2, <1>4, <1>8, <2>1, <2>3, <2>4, <2>5, ProcessKeeps
  <1>9. CASE worker.pc = "boot" /\ Bootstrap
    <2>1. /\ boots' = (IF row = "none" THEN boots ELSE boots \cup {worker.ev.seq})
          /\ Goes("after") /\ row' = row
      BY <1>9 DEF Bootstrap
    <2>2. worker'.pc = "after"
      BY <1>20, <2>1
    <2>3. RowOK(worker', row') /\ RowSays(worker', row') = RowSays(worker, row)
      BY <1>9, <2>1, <2>2 DEF RowOK, RowSays
    <2>4. ~mishap => row # "none"
      BY <1>1, <1>9 DEF RowOK
    <2>5. ~mishap => boots \subseteq boots' /\ worker.ev.seq \in boots'
      BY <2>1, <2>4
    <2> QED
      BY <1>1, <1>2, <1>9, <2>1, <2>3, <2>5, ProcessKeeps
  <1> QED
    BY <1>5, <1>6, <1>7, <1>8, <1>9 DEF Process, At

-----------------------------------------------------------------------------
\* Failures and restarts.

LEMMA ProcessFailsStep ==
  ASSUME PresenceInv, ProcessFails
  PROVE  PresenceInv'
  <1>1. SinkInv /\ WorkerOK(worker) /\ SinkOK(sink, worker)
    BY DEF PresenceInv, SinkInv
  <1>2. worker.pc \in {"work", "mark", "boot"} /\ Goes("after") /\ mishap' = TRUE /\ turn' = <<>>
    BY DEF ProcessFails
  <1>3. reg' = reg /\ next' = next /\ out' = out /\ sink' = sink /\ row' = row
    BY DEF ProcessFails
  <1>4. WorkerOK(worker') /\ worker'.pc = "after" /\ worker'.ev = worker.ev
    BY <1>1, <1>2, GoesFacts
  <1>5. worker'.pc = "idle" <=> worker.pc = "idle"
    BY <1>2, <1>4
  <1>6. worker'.pc = "got" <=> worker.pc = "got"
    BY <1>2, <1>4
  <1>7. SinkOK(sink, worker')
    BY <1>1, <1>4, <1>5, <1>6, SameHands
  <1>8. turn' \in Seq(Task) /\ mishap' \in BOOLEAN
    BY <1>2
  <1>9. SinkInv'
    BY <1>1, <1>3, <1>4, <1>7, <1>8 DEF SinkInv
  <1> QED
    BY <1>2, <1>9, MishapKeeps

LEMMA RetireStep ==
  ASSUME PresenceInv, Retire
  PROVE  PresenceInv'
  <1>1. SinkInv
    BY DEF PresenceInv
  <1>2. row' = "none" /\ mishap' = TRUE /\ turn' = <<>>
    BY DEF Retire
  <1>3. reg' = reg /\ next' = next /\ out' = out /\ sink' = sink /\ worker' = worker
    BY DEF Retire
  <1>4. turn' \in Seq(Task) /\ mishap' \in BOOLEAN /\ row' \in Row
    BY <1>2 DEF Row
  <1>5. SinkInv'
    BY <1>1, <1>3, <1>4 DEF SinkInv
  <1> QED
    BY <1>2, <1>5, MishapKeeps

\* The empty sink and the idle worker, at the start and after a restart.
LEMMA StartFacts == WorkerOK(Idle) /\ SinkOK(EmptySink, Idle) /\ NotRegistered \in Registration
  <1>1. WorkerOK(Idle) /\ Idle.pc = "idle"
    BY DEF WorkerOK, Idle, Worker, NoEvent
  <1>2. /\ EmptySink \in Sink /\ EmptySink.queue = <<>> /\ EmptySink.dlq = <<>>
        /\ EmptySink.key = FALSE /\ EmptySink.pending = 0
    BY DEF EmptySink, Sink
  <1>3. KeyOK(EmptySink, Idle)
    BY <1>1, <1>2 DEF KeyOK, HasKeepalive
  <1>4. SinkOK(EmptySink, Idle)
    BY <1>1, <1>2, <1>3, SinkAssumption DEF SinkOK
  <1> QED
    BY <1>1, <1>4 DEF NotRegistered, Registration

LEMMA RestartStep ==
  ASSUME PresenceInv, Restart
  PROVE  PresenceInv'
  <1>1. row \in Row
    BY DEF PresenceInv, SinkInv
  <1>2. /\ reg' = NotRegistered /\ next' = 0 /\ out' = [t \in Task |-> <<>>] /\ turn' = <<>>
        /\ sink' = EmptySink /\ worker' = Idle /\ mishap' = TRUE /\ row' = row
    BY DEF Restart
  <1>3. out' \in [Task -> Seq(Event)]
    BY <1>2
  <1>4. SinkInv'
    BY <1>1, <1>2, <1>3, StartFacts DEF SinkInv
  <1> QED
    BY <1>2, <1>4, MishapKeeps

-----------------------------------------------------------------------------
\* The invariant.

LEMMA InitInv == PresenceInit => PresenceInv
  <1> SUFFICES ASSUME PresenceInit PROVE PresenceInv
    OBVIOUS
  <1>1. /\ reg = NotRegistered /\ next = 0 /\ out = [t \in Task |-> <<>>]
        /\ sink = EmptySink /\ worker = Idle /\ row = "none" /\ turn = <<>> /\ mishap = FALSE
    BY DEF PresenceInit
  <1>2. out \in [Task -> Seq(Event)]
    BY <1>1
  <1>9. /\ reg \in Registration /\ WorkerOK(worker) /\ SinkOK(sink, worker)
        /\ mishap \in BOOLEAN
    BY <1>1, StartFacts, Zenon
  <1>11. next \in Nat /\ turn \in Seq(Task)
    BY <1>1
  <1>10. row \in Row
    BY <1>1 DEF Row
  <1>3. SinkInv
    BY <1>2, <1>9, <1>10, <1>11 DEF SinkInv
  <1>4. Line(sink) = <<>>
    BY <1>1 DEF Line, EmptySink
  <1>5. RowOK(worker, row) /\ RowSays(worker, row) = "off"
    BY <1>1 DEF RowOK, RowSays, Idle
  <1>6. Chain(Line(sink), RowSays(worker, row))
    BY <1>4 DEF Chain
  <1>7. After(Line(sink), RowSays(worker, row)) = "off" /\ TableSays(reg) = "off" /\ reg.st = "none"
    BY <1>1, <1>4, <1>5 DEF After, TableSays, NotRegistered
  <1>8. TurnOK("off", out, turn, "off")
    BY <1>1 DEF TurnOK, StateAt
  <1> QED
    BY <1>3, <1>5, <1>6, <1>7, <1>8 DEF PresenceInv, OrderOK

LEMMA StutterInv ==
  ASSUME PresenceInv, UNCHANGED presenceVars
  PROVE  PresenceInv'
  BY DEF PresenceInv, SinkInv, OrderOK, UnderWay, presenceVars

LEMMA StepInv ==
  ASSUME PresenceInv, PresenceNext
  PROVE  PresenceInv'
  <1>1. CASE \/ \E t \in Conn : Register(t) \/ Unregister(t) \/ Keepalive(t) \/ Message(t, "Alarm")
             \/ TickExpired \/ TickSilent
    BY <1>1, TableKeeps
  <1>2. CASE \E t \in Stream : WriteFails(t)
    <2>1. Stream \subseteq Task
      BY PresenceAssumption DEF Task
    <2> QED
      BY <1>2, <2>1, WriteFailsKeeps
  <1>3. CASE \E t \in Task : Emit(t)
    BY <1>3, EmitKeeps
  <1>4. CASE WorkerStep
    BY <1>4, ReceiveStep, LockStep, ProcessStep, UnlockStep, RedriveStep DEF WorkerStep
  <1>5. CASE ProcessFails \/ Retire \/ Restart
    BY <1>5, ProcessFailsStep, RetireStep, RestartStep
  <1> QED
    BY <1>1, <1>2, <1>3, <1>4, <1>5 DEF PresenceNext

LEMMA Invariance == PresenceSpec => []PresenceInv
  <1>1. PresenceInv /\ [PresenceNext]_presenceVars => PresenceInv'
    BY StepInv, StutterInv
  <1> QED
    BY <1>1, InitInv, PTL DEF PresenceSpec

-----------------------------------------------------------------------------
\* Counting.

OneLow(s) == \A i, j \in 1 .. Len(s) : Low(s[i]) /\ Low(s[j]) => i = j

LEMMA LowCount ==
  ASSUME NEW s \in Seq(Event), OneLow(s)
  PROVE  /\ Cardinality(Keepalives(s)) = IF LowIn(s) THEN 1 ELSE 0
         /\ Cardinality(Others(s)) = Len(s) - IF LowIn(s) THEN 1 ELSE 0
  <1> DEFINE n == Len(s)
             K == Keepalives(s)
             O == Others(s)
  <1>1. n \in Nat /\ DOMAIN s = 1 .. n
    OBVIOUS
  <1>2. K = {i \in 1 .. n : Low(s[i])} /\ O = (1 .. n) \ K
    BY <1>1 DEF Keepalives, Others
  <1>3. IsFiniteSet(1 .. n) /\ Cardinality(1 .. n) = n
    <2>1. /\ IsFiniteSet(1 .. n)
          /\ Cardinality(1 .. n) = IF 1 > n THEN 0 ELSE n - 1 + 1
      BY <1>1, FS_Interval
    <2> QED
      BY <1>1, <2>1
  <1> HIDE DEF n, K, O
  <1>4. CASE LowIn(s)
    <2>1. PICK k \in 1 .. n : Low(s[k])
      BY <1>4 DEF LowIn, n
    <2>2. K = {k}
      BY <1>2, <2>1 DEF OneLow, n
    <2>3. Cardinality(K) = 1
      BY <2>2, FS_Singleton
    <2>4. Cardinality(O) = n - 1
      BY <1>2, <1>3, <2>1, <2>2, FS_RemoveElement
    <2> QED
      BY <1>4, <2>3, <2>4 DEF n, K, O
  <1>5. CASE ~LowIn(s)
    <2>1. K = {} /\ O = 1 .. n
      BY <1>2, <1>5 DEF LowIn, n
    <2>2. Cardinality(K) = 0
      BY <2>1, FS_EmptySet
    <2>3. Cardinality(O) = n /\ n - 0 = n
      BY <1>1, <1>3, <2>1
    <2> QED
      BY <1>5, <2>2, <2>3 DEF n, K, O
  <1> QED
    BY <1>4, <1>5

LEMMA OneLowAppend ==
  ASSUME NEW s \in Seq(Event), NEW e \in Event, OneLow(s), ~(LowIn(s) /\ Low(e))
  PROVE  OneLow(Append(s, e))
  <1> DEFINE r == Append(s, e)
             n == Len(s)
  <1>1. /\ n \in Nat /\ Len(r) = n + 1 /\ r[n + 1] = e
        /\ \A i \in 1 .. n : r[i] = s[i]
    BY AppendFacts
  <1> HIDE DEF r, n
  <1>2. \A i \in 1 .. Len(r) : (i = n + 1 /\ r[i] = e) \/ (i \in 1 .. n /\ r[i] = s[i])
    BY <1>1
  <1>3. Low(e) => \A i \in 1 .. n : ~Low(s[i])
    BY DEF LowIn, n
  <1>4. \A i, j \in 1 .. n : Low(s[i]) /\ Low(s[j]) => i = j
    BY DEF OneLow, n
  <1>5. \A i, j \in 1 .. Len(r) : Low(r[i]) /\ Low(r[j]) => i = j
    BY <1>2, <1>3, <1>4
  <1> QED
    BY <1>5 DEF OneLow, r

LEMMA OneLowLine ==
  ASSUME NEW q \in Seq(Event), NEW d \in Seq(Event), OneLow(q), ~LowIn(d)
  PROVE  /\ OneLow(q \o d) /\ (LowIn(q \o d) <=> LowIn(q))
         /\ q \o d \in Seq(Event) /\ Len(q \o d) = Len(q) + Len(d)
  <1> DEFINE l == q \o d
             m == Len(q)
             n == Len(d)
  <1>1. m \in Nat /\ n \in Nat
    OBVIOUS
  <1>2. /\ l \in Seq(Event) /\ Len(l) = m + n
        /\ \A i \in 1 .. m : l[i] = q[i]
        /\ \A i \in 1 .. n : l[m + i] = d[i]
    BY ConcatFacts
  <1>3. \A i \in 1 .. n : ~Low(d[i])
    BY DEF LowIn
  <1> HIDE DEF l, m, n
  <1>4. ASSUME NEW i \in 1 .. Len(l), Low(l[i]) PROVE i \in 1 .. m /\ Low(q[i])
    <2>1. CASE i \in 1 .. m
      BY <1>2, <1>4, <2>1
    <2>2. CASE i \notin 1 .. m
      <3>1. i - m \in 1 .. n /\ m + (i - m) = i
        BY <1>1, <1>2, <2>2
      <3>2. l[i] = d[i - m]
        BY <1>2, <3>1
      <3> QED
        BY <1>3, <1>4, <3>1, <3>2
    <2> QED
      BY <2>1, <2>2
  <1>5. \A i \in 1 .. m : i \in 1 .. Len(l) /\ l[i] = q[i]
    BY <1>1, <1>2
  <1>6. LowIn(l) <=> LowIn(q)
    BY <1>4, <1>5 DEF LowIn, m
  <1>7. OneLow(l)
    BY <1>4 DEF OneLow, m
  <1> QED
    BY <1>2, <1>6, <1>7 DEF l, m, n

LEMMA KeyFacts ==
  ASSUME NEW s, NEW w, SinkOK(s, w)
  PROVE  /\ s.queue \in Seq(Event) /\ s.dlq \in Seq(Event) /\ s.key \in BOOLEAN
         /\ OneLow(s.queue) /\ ~LowIn(s.dlq)
         /\ ~(HasKeepalive(w) /\ LowIn(s.queue))
         /\ s.key <=> HasKeepalive(w) \/ LowIn(s.queue)
  <1>1. s.queue \in Seq(Event) /\ s.dlq \in Seq(Event) /\ s.key \in BOOLEAN
    BY SinkFields DEF SinkOK
  <1>2. KeyOK(s, w)
    BY DEF SinkOK
  <1> QED
    BY <1>1, <1>2 DEF KeyOK, LowIn, OneLow

\* The events that wait in a sink are as many as its weight.
LEMMA WeightIs ==
  ASSUME NEW s, NEW w, SinkOK(s, w)
  PROVE  Cardinality(Others(s.queue \o s.dlq)) = Weight(s) /\ Weight(s) \in Int
  <1> DEFINE q == s.queue
             d == s.dlq
             l == q \o d
  <1>1. q \in Seq(Event) /\ d \in Seq(Event) /\ OneLow(q) /\ ~LowIn(d)
    BY KeyFacts
  <1>2. Len(q) \in Nat /\ Len(d) \in Nat
    BY <1>1
  <1> HIDE DEF q, d
  <1>3. OneLow(l) /\ (LowIn(l) <=> LowIn(q)) /\ l \in Seq(Event) /\ Len(l) = Len(q) + Len(d)
    BY <1>1, OneLowLine
  <1> HIDE DEF l
  <1>4. Cardinality(Others(l)) = Len(l) - IF LowIn(l) THEN 1 ELSE 0
    BY <1>3, LowCount
  <1>5. Total(s) = Len(q) + Len(d) /\ Total(s) \in Int
    BY <1>2 DEF Total, q, d
  <1>6. Weight(s) = Total(s) - IF LowIn(q) THEN 1 ELSE 0
    BY DEF Weight, q
  <1>7. Weight(s) \in Int
    BY <1>5, <1>6
  <1>8. Cardinality(Others(l)) = Weight(s)
    BY <1>3, <1>4, <1>5, <1>6
  <1> QED
    BY <1>7, <1>8 DEF l, q, d

-----------------------------------------------------------------------------
\* The theorems.

LEMMA KeyAccounted == PresenceInv => AdmissionAccounted
  <1> SUFFICES ASSUME PresenceInv PROVE AdmissionAccounted
    OBVIOUS
  <1> DEFINE q == sink.queue
             h == q \o InHand
  <1>1. SinkOK(sink, worker) /\ WorkerOK(worker)
    BY DEF PresenceInv, SinkInv
  <1>2. /\ q \in Seq(Event) /\ sink.key \in BOOLEAN /\ OneLow(q)
        /\ ~(HasKeepalive(worker) /\ LowIn(q))
        /\ sink.key <=> HasKeepalive(worker) \/ LowIn(q)
    BY <1>1, KeyFacts
  <1>3. h \in Seq(Event) /\ OneLow(h) /\ (LowIn(h) <=> sink.key)
    <2>1. CASE At("idle")
      <3>1. h = q
        BY <1>2, <2>1, ConcatEmptySeq DEF InHand
      <3>2. ~HasKeepalive(worker)
        BY <2>1 DEF HasKeepalive, At
      <3> QED
        BY <1>2, <3>1, <3>2
    <2>2. CASE ~At("idle")
      <3> DEFINE e == worker.ev
      <3>1. e \in Event /\ (HasKeepalive(worker) <=> Low(e))
        BY <1>1, <2>2 DEF WorkerOK, HasKeepalive, At
      <3>2. h = q \o <<e>>
        BY <2>2 DEF InHand
      <3> HIDE DEF e, q, h
      <3>3. q \o <<e>> = Append(q, e)
        BY <1>2, <3>1
      <3>4. h = Append(q, e)
        BY <3>2, <3>3
      <3>5. Append(q, e) \in Seq(Event)
        BY <1>2, <3>1, AppendFacts
      <3>6. OneLow(Append(q, e))
        BY <1>2, <3>1, OneLowAppend
      <3>7. LowIn(Append(q, e)) <=> LowIn(q) \/ Low(e)
        BY <1>2, <3>1, AppendLow
      <3> QED
        BY <1>2, <3>1, <3>4, <3>5, <3>6, <3>7
    <2> QED
      BY <2>1, <2>2
  <1>4. Cardinality(Keepalives(h)) = IF sink.key THEN 1 ELSE 0
    <2> HIDE DEF h
    <2>1. Cardinality(Keepalives(h)) = IF LowIn(h) THEN 1 ELSE 0
      BY <1>3, LowCount
    <2> QED
      BY <1>3, <2>1
  <1>5. sink.pending = Len(q) + IF At("got") THEN 1 ELSE 0
    BY <1>1 DEF SinkOK, At
  <1> QED
    BY <1>4, <1>5 DEF AdmissionAccounted

LEMMA QuietAgrees == PresenceInv => RowFollowsTable
  <1> SUFFICES ASSUME PresenceInv, Quiet, ~mishap
               PROVE  (row = "Online" <=> reg.st = "online") /\ (reg.st = "online" => reg.seq \in boots)
    BY DEF RowFollowsTable
  <1>1. SinkInv /\ OrderOK
    BY DEF PresenceInv
  <1>2. worker.pc = "idle" /\ sink.queue = <<>> /\ sink.dlq = <<>> /\ \A t \in Task : out[t] = <<>>
    BY DEF Quiet, At
  <1>3. Line(sink) = <<>>
    BY <1>2 DEF Line
  <1>4. RowSays(worker, row) = IF row = "Online" THEN "on" ELSE "off"
    BY <1>2 DEF RowSays
  <1>5. After(Line(sink), RowSays(worker, row)) = RowSays(worker, row)
    BY <1>3 DEF After
  <1>6. turn = <<>>
    <2> SUFFICES ASSUME turn # <<>> PROVE FALSE
      OBVIOUS
    <2>1. turn \in Seq(Task)
      BY <1>1 DEF SinkInv
    <2>2. Len(turn) \in Nat \ {0} /\ turn[1] \in Task
      BY <2>1, TailFacts
    <2>3. 1 \in 1 .. Len(turn)
      BY <2>2
    <2> QED
      BY <1>1, <1>2, <2>2, <2>3 DEF OrderOK, TurnOK
  <1>7. RowSays(worker, row) = TableSays(reg)
    BY <1>1, <1>5, <1>6 DEF OrderOK, TurnOK, StateAt
  <1>8. row = "Online" <=> reg.st = "online"
    BY <1>4, <1>7 DEF TableSays
  <1>9. ~UnderWay(RegisteredAs(reg.seq), out, sink, worker)
    BY <1>2, <1>3 DEF UnderWay, InWork
  <1> QED
    BY <1>1, <1>8, <1>9 DEF OrderOK

\* What is counted in Waiting of the event in the worker's hands.
Held(w) == IF w.pc = "got" /\ ~Low(w.ev) THEN 1 ELSE 0

LEMMA NobodyForgotten ==
  ASSUME PresenceInv, PresenceInv', PresenceNext
  PROVE  \/ Waiting' >= Waiting
         \/ At("got") /\ worker'.pc = "work" /\ Waiting' = Waiting - 1
         \/ sink' = EmptySink /\ reg' = NotRegistered
  <1>1. SinkOK(sink, worker) /\ SinkOK(sink', worker') /\ out \in [Task -> Seq(Event)] /\ WorkerOK(worker)
    BY DEF PresenceInv, SinkInv
  <1> DEFINE x == Weight(sink)
             y == Weight(sink')
             b == Held(worker)
             c == Held(worker')
  <1>2. Waiting = x + b /\ Waiting' = y + c
    <2>1. Cardinality(Others(sink.queue \o sink.dlq)) = x
      BY <1>1, WeightIs
    <2>2. Cardinality(Others(sink'.queue \o sink'.dlq)) = y
      BY <1>1, WeightIs
    <2> QED
      BY <2>1, <2>2 DEF Waiting, Held, At
  <1>3. x \in Int /\ y \in Int /\ b \in 0 .. 1 /\ c \in 0 .. 1
    BY <1>1, WeightIs DEF Held
  <1>4. CASE UNCHANGED <<sink, worker>>
    <2>1. y = x /\ c = b
      BY <1>4
    <2> HIDE DEF x, y, b, c
    <2> QED
      BY <1>2, <1>3, <2>1
  <1>5. CASE UNCHANGED worker /\ y >= x
    <2>1. c = b /\ y >= x
      BY <1>5
    <2> HIDE DEF x, y, b, c
    <2> QED
      BY <1>2, <1>3, <2>1
  <1>6. CASE \E t \in Task : Emit(t)
    <2>1. PICK t \in Task : Emit(t)
      BY <1>6
    <2> DEFINE e == Head(out[t])
    <2>2. PICK o \in BOOLEAN : sink' = Admitted(sink, e, o)
      BY <2>1 DEF Emit, Overload
    <2>3. out[t] # <<>> /\ out[t] \in Seq(Event) /\ worker' = worker
      BY <1>1, <2>1 DEF Emit
    <2>4. e \in Event
      BY <2>3, TailFacts
    <2> HIDE DEF e
    <2>5. y >= x
      BY <1>1, <2>2, <2>4, AdmittedKeeps
    <2> QED
      BY <1>5, <2>3, <2>5
  <1>7. CASE Receive
    <2>1. /\ worker.pc = "idle" /\ sink.queue # <<>>
          /\ worker' = [pc |-> "got", ev |-> Head(sink.queue)]
          /\ sink' = [sink EXCEPT !.queue = Tail(@)]
      BY <1>7 DEF Receive, At
    <2>2. Takes(sink, sink', worker')
      BY <1>1, <2>1, ReceiveKeeps, Zenon
    <2>3. y = x - IF Low(worker'.ev) THEN 0 ELSE 1
      BY <2>2 DEF Takes
    <2>4. b = 0 /\ c = IF Low(worker'.ev) THEN 0 ELSE 1
      BY <2>1 DEF Held
    <2> HIDE DEF x, y, b, c
    <2> QED
      BY <1>2, <1>3, <2>3, <2>4
  <1>8. CASE Lock
    <2>1. worker.pc = "got" /\ Goes("work") /\ sink' = Received(sink)
      BY <1>8 DEF Lock, At
    <2>2. worker'.pc = "work" /\ worker'.ev = worker.ev
      BY <1>1, <2>1, GoesFacts
    <2>3. y = x /\ c = 0
      BY <1>1, <2>1, <2>2, ReceivedKeeps DEF Held
    <2>4. At("got")
      BY <2>1 DEF At
    <2> HIDE DEF x, y, b, c
    <2> QED
      BY <1>2, <1>3, <2>2, <2>3, <2>4
  <1>9. CASE Process \/ ProcessFails
    <2>1. sink' = sink /\ worker.pc \in {"work", "mark", "boot"}
      BY <1>9 DEF Process, ProcessFails, At
    <2>2. b = 0 /\ y = x
      BY <2>1 DEF Held
    <2> HIDE DEF x, y, b, c
    <2> QED
      BY <1>2, <1>3, <2>2
  <1>10. CASE Unlock
    <2>1. worker.pc = "after" /\ worker' = Idle /\ sink' = Released(sink, worker.ev)
      BY <1>10 DEF Unlock, At
    <2>2. b = 0 /\ y = x
      BY <1>1, <2>1, ReleasedKeeps DEF Held
    <2> HIDE DEF x, y, b, c
    <2> QED
      BY <1>2, <1>3, <2>2
  <1>11. CASE RedriveTick
    <2>1. worker' = worker /\ sink' = Redriven(sink)
      BY <1>11 DEF RedriveTick
    <2>2. y = x
      BY <1>1, <2>1, RedriveKeeps
    <2>3. y >= x
      BY <1>3, <2>2
    <2> QED
      BY <1>5, <2>1, <2>3
  <1>12. CASE \/ \E t \in Conn : Register(t) \/ Unregister(t) \/ Keepalive(t) \/ Message(t, "Alarm")
              \/ TickExpired \/ TickSilent
    BY <1>4, <1>12 DEF Register, Unregister, Keepalive, Message, TickExpired, TickSilent
  <1>13. CASE (\E t \in Stream : WriteFails(t)) \/ Retire
    BY <1>4, <1>13 DEF WriteFails, Retire
  <1>14. CASE Restart
    BY <1>14 DEF Restart
  <1> QED
    BY <1>6, <1>7, <1>8, <1>9, <1>10, <1>11, <1>12, <1>13, <1>14 DEF PresenceNext, WorkerStep

\* A tracked key belongs to exactly one keepalive in the channel or in the
\* worker's hands, and the counted depth is that of the channel.
THEOREM KeysAccounted == PresenceSpec => []AdmissionAccounted
  BY Invariance, KeyAccounted, PTL

\* Once nothing is under way and nothing was lost or overtaken, the row and the
\* bootstrap queries are those of the registration table.
THEOREM RowAgrees == PresenceSpec => []RowFollowsTable
  BY Invariance, QuietAgrees, PTL

\* No step loses an event that is no keepalive and that the worker has not
\* taken up, but for the oldest of a full dead-letter queue.
THEOREM EventsStay == PresenceSpec => EventsKept
  <1>1. PresenceInv /\ PresenceInv' /\ [PresenceNext]_presenceVars =>
          [ \/ Waiting' >= Waiting
            \/ At("got") /\ worker'.pc = "work" /\ Waiting' = Waiting - 1
            \/ sink' = EmptySink /\ reg' = NotRegistered ]_presenceVars
    BY NobodyForgotten
  <1> QED
    BY <1>1, Invariance, PTL DEF PresenceSpec, EventsKept
=============================================================================
