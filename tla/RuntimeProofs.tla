--------------------------- MODULE RuntimeProofs ---------------------------
(***************************************************************************)
(* Proofs about the device runtime: what actors get and in which order,    *)
(* coalescing keys and timers, for every set of devices, shards, messages  *)
(* and timers and every capacity.                                          *)
(***************************************************************************)
EXTENDS DeviceRuntime, FiniteSetTheorems, SequenceTheorems, WellFoundedInduction, TLAPS

-----------------------------------------------------------------------------
\* Induction, as the least element of a set of natural numbers.

\* The order of the natural numbers is well founded.
LEMMA NatOrder == IsWellFoundedOn({ss \in Nat \X Nat : ss[1] < ss[2]}, Nat)
BY NatLessThanWellFounded DEF OpToRel

\* A set of natural numbers that is not empty has a least element.
LEMMA NatMin ==
  ASSUME NEW T \in SUBSET Nat, T # {}
  PROVE  \E n \in T : \A m \in T : n <= m
<1> DEFINE R == {ss \in Nat \X Nat : ss[1] < ss[2]}
<1>1. IsWellFoundedOn(R, Nat) BY NatOrder
<1>2. \A x, y \in Nat : x < y => <<x, y>> \in R OBVIOUS
<1> HIDE DEF R
<1>3. PICK x \in T : \A y \in T : ~ (<<y, x>> \in R) BY <1>1, WFMin
<1>4. \A y \in T : ~(y < x) BY <1>2, <1>3
<1>5. \A y \in T : x <= y BY <1>4
<1> QED BY <1>5

\* Min of FiniteSetsExt is that element.
LEMMA MinIn ==
  ASSUME NEW T \in SUBSET Nat, T # {}
  PROVE  Min(T) \in T
<1>1. \E x \in T : \A y \in T : x =< y BY NatMin
<1> QED BY <1>1 DEF Min

\* What holds of 0, and of i + 1 when it holds of i, holds up to n.
LEMMA UpTo ==
  ASSUME NEW n \in Nat, NEW T, 0 \in T, \A i \in 0 .. n - 1 : i \in T => i + 1 \in T
  PROVE  \A i \in 0 .. n : i \in T
<1> DEFINE S == {i \in 0 .. n : i \notin T}
<1>1. CASE S = {} BY <1>1
<1>2. CASE S # {}
  <2>1. PICK m \in S : \A k \in S : m <= k
    <3>1. S \in SUBSET Nat OBVIOUS
    <3> HIDE DEF S
    <3> QED BY <1>2, <3>1, NatMin
  <2>2. m # 0 /\ m \in 0 .. n /\ m \notin T OBVIOUS
  <2>3. m - 1 \in 0 .. n - 1 BY <2>2
  <2>4. m - 1 \notin S BY <2>1, <2>2
  <2>5. m - 1 \in T BY <2>3, <2>4
  <2>6. (m - 1) + 1 \in T BY <2>3, <2>5
  <2> QED BY <2>2, <2>6
<1> QED BY <1>1, <1>2

\* What holds of the empty sequence, and of one with an element more, holds of every
\* sequence.
LEMMA SeqUp ==
  ASSUME NEW A, NEW T, <<>> \in T, \A r \in Seq(A), x \in A : r \in T => Append(r, x) \in T,
         NEW q \in Seq(A)
  PROVE  q \in T
<1> DEFINE U == {i \in 0 .. Len(q) : SubSeq(q, 1, i) \in T}
<1>1. Len(q) \in Nat OBVIOUS
<1>2. 0 \in U
  <2>1. SubSeq(q, 1, 0) = <<>> OBVIOUS
  <2>2. 0 \in 0 .. Len(q) BY <1>1
  <2> QED BY <2>1, <2>2, Zenon
<1>3. ASSUME NEW i \in 0 .. Len(q) - 1, i \in U PROVE i + 1 \in U
  <2>1. SubSeq(q, 1, i) \in Seq(A) /\ q[i + 1] \in A OBVIOUS
  <2>2. SubSeq(q, 1, i + 1) = Append(SubSeq(q, 1, i), q[i + 1]) OBVIOUS
  <2>3. SubSeq(q, 1, i) \in T BY <1>3, Zenon
  <2>4. Append(SubSeq(q, 1, i), q[i + 1]) \in T BY <2>1, <2>3
  <2>5. i + 1 \in 0 .. Len(q) BY <1>1
  <2> QED BY <2>2, <2>4, <2>5, Zenon
<1>4. Len(q) \in U
  <2> HIDE DEF U
  <2>1. \A i \in 0 .. Len(q) : i \in U BY <1>1, <1>2, <1>3, UpTo, Zenon
  <2> QED BY <1>1, <2>1
<1>5. SubSeq(q, 1, Len(q)) = q OBVIOUS
<1> QED BY <1>4, <1>5

-----------------------------------------------------------------------------
\* What is kept of a queue.

KeepStep(f, q, S, i) == IF i = 0 THEN <<>> ELSE IF q[i] \in S THEN Append(f[i - 1], q[i]) ELSE f[i - 1]

IsKept(f, q, S, n) == f = [i \in 0 .. n |-> KeepStep(f, q, S, i)]

Kept(q, S, n) == CHOOSE f : IsKept(f, q, S, n)

\* The recursive function of Keep exists.
LEMMA KeptExists ==
  ASSUME NEW q, NEW S, NEW n \in Nat
  PROVE  \E f : IsKept(f, q, S, n)
<1> DEFINE T == {i \in Nat : \E f : IsKept(f, q, S, i)}
<1>1. 0 \in T
  <2> DEFINE f == [i \in 0 .. 0 |-> <<>>]
  <2>1. f = [i \in 0 .. 0 |-> KeepStep(f, q, S, i)] BY DEF KeepStep
  <2> QED BY <2>1 DEF IsKept
<1>2. ASSUME NEW i \in 0 .. n - 1, i \in T PROVE i + 1 \in T
  <2>1. PICK f : IsKept(f, q, S, i) BY <1>2
  <2> DEFINE g == [j \in 0 .. i + 1 |-> IF j <= i THEN f[j] ELSE KeepStep(f, q, S, i + 1)]
  <2>2. \A j \in 0 .. i : f[j] = KeepStep(f, q, S, j) BY <2>1 DEF IsKept
  <2>3. \A j \in 0 .. i : g[j] = f[j] OBVIOUS
  <2>4. ASSUME NEW j \in 0 .. i PROVE KeepStep(g, q, S, j) = KeepStep(f, q, S, j)
    <3>1. j # 0 => j - 1 \in 0 .. i OBVIOUS
    <3>2. j # 0 => g[j - 1] = f[j - 1] BY <3>1, <2>3
    <3> HIDE DEF g
    <3> QED BY <3>2 DEF KeepStep
  <2>5. g[i + 1] = KeepStep(f, q, S, i + 1) /\ g[i] = f[i] OBVIOUS
  <2>6. KeepStep(g, q, S, i + 1) = KeepStep(f, q, S, i + 1)
    <3> HIDE DEF g
    <3>1. (i + 1) - 1 = i OBVIOUS
    <3> QED BY <3>1, <2>5 DEF KeepStep
  <2>7. \A j \in 0 .. i + 1 : g[j] = KeepStep(g, q, S, j)
    <3> HIDE DEF g
    <3> QED BY <2>2, <2>3, <2>4, <2>5, <2>6
  <2>8. g = [j \in 0 .. i + 1 |-> g[j]] OBVIOUS
  <2>9. g = [j \in 0 .. i + 1 |-> KeepStep(g, q, S, j)]
    <3> HIDE DEF g
    <3> QED BY <2>7, <2>8
  <2> HIDE DEF g
  <2> QED BY <2>9 DEF IsKept
<1>3. \A i \in 0 .. n : i \in T
  <2> HIDE DEF T
  <2> QED BY <1>1, <1>2, UpTo, Zenon
<1> QED BY <1>3

\* Keep is its last value, and every value follows from the one before.
LEMMA KeepIs ==
  ASSUME NEW q, NEW S, Len(q) \in Nat
  PROVE  /\ Keep(q, S) = Kept(q, S, Len(q))[Len(q)]
         /\ IsKept(Kept(q, S, Len(q)), q, S, Len(q))
<1>1. Keep(q, S) = Kept(q, S, Len(q))[Len(q)] BY DEF Keep, Kept, IsKept, KeepStep
<1>2. IsKept(Kept(q, S, Len(q)), q, S, Len(q)) BY KeptExists DEF Kept
<1> QED BY <1>1, <1>2

\* Up to n the values of f, for q, are those of g, for r.
Agree(f, q, n, g, r, m, S) ==
  /\ n <= m /\ \A i \in 1 .. n : q[i] = r[i]
  /\ IsKept(f, q, S, n) /\ IsKept(g, r, S, m)

SameUpTo(f, g, n) == \A i \in 0 .. n : f[i] = g[i]

\* It depends on the elements up to an index only.
LEMMA KeptAgree ==
  ASSUME NEW q, NEW r, NEW S, NEW n \in Nat, NEW m \in Nat, NEW f, NEW g, Agree(f, q, n, g, r, m, S)
  PROVE  SameUpTo(f, g, n)
<1> DEFINE T == {i \in 0 .. n : f[i] = g[i]}
<1>1. \A i \in 0 .. n : f[i] = KeepStep(f, q, S, i) /\ g[i] = KeepStep(g, r, S, i)
  <2>1. IsKept(f, q, S, n) /\ IsKept(g, r, S, m) /\ n <= m BY DEF Agree
  <2>2. \A i \in 0 .. n : f[i] = KeepStep(f, q, S, i) BY <2>1 DEF IsKept
  <2>3. \A i \in 0 .. m : g[i] = KeepStep(g, r, S, i) BY <2>1 DEF IsKept
  <2> QED BY <2>1, <2>2, <2>3
<1>2. 0 \in T BY <1>1 DEF KeepStep
<1>3. ASSUME NEW i \in 0 .. n - 1, i \in T PROVE i + 1 \in T
  <2>1. i + 1 \in 0 .. n /\ i + 1 # 0 /\ (i + 1) - 1 = i /\ q[i + 1] = r[i + 1] BY DEF Agree
  <2>2. f[i] = g[i] BY <1>3
  <2>3. KeepStep(f, q, S, i + 1) = KeepStep(g, r, S, i + 1) BY <2>1, <2>2 DEF KeepStep
  <2> QED BY <1>1, <2>1, <2>3
<1>4. \A i \in 0 .. n : i \in T
  <2> HIDE DEF T
  <2> QED BY <1>2, <1>3, UpTo, Zenon
<1> QED BY <1>4 DEF SameUpTo

LEMMA KeepEmpty == \A S : Keep(<<>>, S) = <<>>
<1> TAKE S
<1>1. Len(<<>>) = 0 OBVIOUS
<1>2. Keep(<<>>, S) = Kept(<<>>, S, 0)[0] /\ IsKept(Kept(<<>>, S, 0), <<>>, S, 0) BY <1>1, KeepIs
<1>3. Kept(<<>>, S, 0)[0] = KeepStep(Kept(<<>>, S, 0), <<>>, S, 0) BY <1>2 DEF IsKept
<1> QED BY <1>2, <1>3 DEF KeepStep

\* One element more is kept at the end or left out.
LEMMA KeepAppend ==
  ASSUME NEW A, NEW q \in Seq(A), NEW x \in A, NEW S
  PROVE  Keep(Append(q, x), S) = IF x \in S THEN Append(Keep(q, S), x) ELSE Keep(q, S)
<1> DEFINE n == Len(q)
           r == Append(q, x)
           f == Kept(q, S, n)
           g == Kept(r, S, n + 1)
<1>1. n \in Nat /\ Len(r) = n + 1 /\ r[n + 1] = x /\ \A i \in 1 .. n : q[i] = r[i] OBVIOUS
<1>2. Keep(q, S) = f[n] /\ IsKept(f, q, S, n) BY <1>1, KeepIs
<1>3. Keep(r, S) = g[n + 1] /\ IsKept(g, r, S, n + 1)
  <2>1. Len(r) \in Nat BY <1>1
  <2> HIDE DEF r
  <2>2. Keep(r, S) = Kept(r, S, Len(r))[Len(r)] /\ IsKept(Kept(r, S, Len(r)), r, S, Len(r)) BY <2>1, KeepIs
  <2> QED BY <1>1, <2>2
<1> HIDE DEF n, r, f, g
<1>4. SameUpTo(f, g, n)
  <2>2. \A i \in 1 .. n : q[i] = r[i] BY <1>1
  <2> DEFINE m == n + 1
  <2>3. n \in Nat /\ m \in Nat /\ n <= m BY <1>1
  <2>4. IsKept(f, q, S, n) BY <1>2
  <2>5. IsKept(g, r, S, m) BY <1>3
  <2> HIDE DEF m
  <2>6. Agree(f, q, n, g, r, m, S) BY <2>2, <2>3, <2>4, <2>5 DEF Agree
  <2> QED BY <2>3, <2>6, KeptAgree, Zenon
<1>5. f[n] = g[n] BY <1>1, <1>4 DEF SameUpTo
<1>6. g[n + 1] = KeepStep(g, r, S, n + 1) BY <1>1, <1>3 DEF IsKept
<1>7. n + 1 # 0 /\ (n + 1) - 1 = n BY <1>1
<1>8. Keep(r, S) = IF x \in S THEN Append(Keep(q, S), x) ELSE Keep(q, S)
  BY <1>1, <1>2, <1>3, <1>5, <1>6, <1>7 DEF KeepStep
<1> QED BY <1>8 DEF r

LEMMA KeepType ==
  ASSUME NEW A, NEW q \in Seq(A), NEW S
  PROVE  Keep(q, S) \in Seq(A) /\ Keep(q, S) \in Seq(S)
<1> DEFINE T == {r \in Seq(A) : Keep(r, S) \in Seq(A) /\ Keep(r, S) \in Seq(S)}
<1>1. <<>> \in T
  <2>1. Keep(<<>>, S) = <<>> BY KeepEmpty
  <2>2. <<>> \in Seq(A) /\ <<>> \in Seq(S) OBVIOUS
  <2> QED BY <2>1, <2>2, Zenon
<1>2. ASSUME NEW r \in Seq(A), NEW x \in A, r \in T PROVE Append(r, x) \in T
  <2>1. Keep(Append(r, x), S) = IF x \in S THEN Append(Keep(r, S), x) ELSE Keep(r, S) BY KeepAppend
  <2>2. Keep(r, S) \in Seq(A) /\ Keep(r, S) \in Seq(S) BY <1>2
  <2>3. Append(r, x) \in Seq(A) OBVIOUS
  <2>4. Keep(Append(r, x), S) \in Seq(A) /\ Keep(Append(r, x), S) \in Seq(S)
    <3> DEFINE k == Keep(r, S)
    <3>1. k \in Seq(A) /\ k \in Seq(S) BY <2>2
    <3> HIDE DEF k
    <3>2. x \in S => Append(k, x) \in Seq(A) /\ Append(k, x) \in Seq(S) BY <3>1
    <3>3. Keep(Append(r, x), S) = IF x \in S THEN Append(k, x) ELSE k BY <2>1 DEF k
    <3> QED BY <3>1, <3>2, <3>3
  <2> QED BY <2>3, <2>4, Zenon
<1>3. q \in T
  <2> HIDE DEF T
  <2> QED BY <1>1, <1>2, SeqUp, Zenon
<1> QED BY <1>3

\* The first element is kept at the front or left out.
LEMMA KeepTail ==
  ASSUME NEW A, NEW q \in Seq(A), q # <<>>, NEW S
  PROVE  Keep(q, S) = IF Head(q) \in S THEN <<Head(q)>> \o Keep(Tail(q), S) ELSE Keep(Tail(q), S)
<1> DEFINE Split(r) == IF Head(r) \in S THEN <<Head(r)>> \o Keep(Tail(r), S) ELSE Keep(Tail(r), S)
           T == {r \in Seq(A) : r = <<>> \/ Keep(r, S) = Split(r)}
<1>1. <<>> \in T OBVIOUS
<1>2. ASSUME NEW r \in Seq(A), NEW x \in A, r \in T PROVE Append(r, x) \in T
  <2>1. Keep(Append(r, x), S) = IF x \in S THEN Append(Keep(r, S), x) ELSE Keep(r, S) BY KeepAppend
  <2>2. Append(r, x) \in Seq(A) OBVIOUS
  <2>3. CASE r = <<>>
    <3>1. Append(r, x) = <<x>> /\ Head(<<x>>) = x /\ Tail(<<x>>) = <<>> BY <2>3
    <3>2. Keep(r, S) = <<>> /\ Keep(<<>>, S) = <<>> BY <2>3, KeepEmpty
    <3>3. Append(<<>>, x) = <<x>> /\ <<x>> \o <<>> = <<x>> OBVIOUS
    <3>4. Keep(Append(r, x), S) = Split(Append(r, x)) BY <2>1, <3>1, <3>2, <3>3
    <3> QED BY <2>2, <3>4
  <2>4. CASE r # <<>>
    <3>1. Head(Append(r, x)) = Head(r) /\ Tail(Append(r, x)) = Append(Tail(r), x) BY <2>4
    <3>2. Tail(r) \in Seq(A) /\ Head(r) \in A BY <2>4
    <3>3. Keep(Append(Tail(r), x), S) = IF x \in S THEN Append(Keep(Tail(r), S), x) ELSE Keep(Tail(r), S)
      BY <3>2, KeepAppend
    <3>4. Keep(r, S) = Split(r) BY <1>2, <2>4
    <3>5. Keep(Tail(r), S) \in Seq(A) BY <3>2, KeepType
    <3>6. Append(<<Head(r)>> \o Keep(Tail(r), S), x) = <<Head(r)>> \o Append(Keep(Tail(r), S), x) BY <3>2, <3>5
    <3>7. Keep(Append(r, x), S) = Split(Append(r, x))
      <4>1. CASE x \in S BY <4>1, <2>1, <3>1, <3>3, <3>4, <3>6
      <4>2. CASE x \notin S BY <4>2, <2>1, <3>1, <3>3, <3>4
      <4> QED BY <4>1, <4>2
    <3> QED BY <2>2, <3>7
  <2> QED BY <2>3, <2>4
<1>3. q \in T
  <2> HIDE DEF T
  <2> QED BY <1>1, <1>2, SeqUp, Zenon
<1> QED BY <1>3

-----------------------------------------------------------------------------
\* How often something occurs in a queue.

Places(t, q) == {i \in DOMAIN q : q[i] = t}

LEMMA PlacesFinite ==
  ASSUME NEW A, NEW q \in Seq(A), NEW t
  PROVE  IsFiniteSet(Places(t, q)) /\ Occurs(t, q) = Cardinality(Places(t, q)) /\ Occurs(t, q) \in Nat
<1>1. Len(q) \in Nat /\ DOMAIN q = 1 .. Len(q) OBVIOUS
<1>2. IsFiniteSet(1 .. Len(q)) BY <1>1, FS_Interval
<1>3. Places(t, q) \subseteq 1 .. Len(q) BY <1>1 DEF Places
<1>4. IsFiniteSet(Places(t, q)) BY <1>2, <1>3, FS_Subset
<1>5. Occurs(t, q) = Cardinality(Places(t, q)) BY DEF Occurs, Places
<1> QED BY <1>4, <1>5, FS_CardinalityType

LEMMA OccursEmpty == \A t : Occurs(t, <<>>) = 0
<1> TAKE t
<1>1. Places(t, <<>>) = {} BY DEF Places
<1>2. Occurs(t, <<>>) = Cardinality(Places(t, <<>>)) BY DEF Occurs, Places
<1> QED BY <1>1, <1>2, FS_EmptySet

One(b) == IF b THEN 1 ELSE 0

LEMMA OccursAppend ==
  ASSUME NEW A, NEW q \in Seq(A), NEW x \in A, NEW t
  PROVE  Occurs(t, Append(q, x)) = Occurs(t, q) + One(x = t)
<1> DEFINE n == Len(q)
           P == Places(t, q)
<1>1. Append(q, x) \in Seq(A) OBVIOUS
<1>2. IsFiniteSet(P) /\ Occurs(t, q) = Cardinality(P) /\ Occurs(t, q) \in Nat BY PlacesFinite
<1>3. Occurs(t, Append(q, x)) = Cardinality(Places(t, Append(q, x))) BY <1>1, PlacesFinite
<1>4. n \in Nat /\ DOMAIN q = 1 .. n /\ DOMAIN Append(q, x) = 1 .. n + 1 OBVIOUS
<1>5. (\A i \in 1 .. n : Append(q, x)[i] = q[i]) /\ Append(q, x)[n + 1] = x OBVIOUS
<1>6. CASE x = t
  <2>1. Places(t, Append(q, x)) = P \cup {n + 1} BY <1>4, <1>5, <1>6 DEF Places
  <2>2. n + 1 \notin P BY <1>4 DEF Places
  <2>3. Cardinality(P \cup {n + 1}) = Cardinality(P) + 1
    <3> HIDE DEF P
    <3> QED BY <1>2, <2>2, FS_AddElement
  <2> QED BY <1>2, <1>3, <1>6, <2>1, <2>3 DEF One
<1>7. CASE x # t
  <2>1. Places(t, Append(q, x)) = P BY <1>4, <1>5, <1>7 DEF Places
  <2> QED BY <1>2, <1>3, <1>7, <2>1 DEF One
<1> QED BY <1>6, <1>7

LEMMA OccursTail ==
  ASSUME NEW A, NEW q \in Seq(A), q # <<>>, NEW t
  PROVE  Occurs(t, q) = One(Head(q) = t) + Occurs(t, Tail(q)) /\ Occurs(t, Tail(q)) \in Nat
<1> DEFINE Split(r) == Occurs(t, r) = One(Head(r) = t) + Occurs(t, Tail(r))
           T == {r \in Seq(A) : r = <<>> \/ Split(r)}
<1>1. <<>> \in T OBVIOUS
<1>2. ASSUME NEW r \in Seq(A), NEW x \in A, r \in T PROVE Append(r, x) \in T
  <2>1. Occurs(t, Append(r, x)) = Occurs(t, r) + One(x = t) BY OccursAppend
  <2>2. Append(r, x) \in Seq(A) OBVIOUS
  <2>3. CASE r = <<>>
    <3>1. Head(Append(r, x)) = x /\ Tail(Append(r, x)) = <<>> BY <2>3
    <3>2. Occurs(t, r) = 0 /\ Occurs(t, <<>>) = 0 BY <2>3, OccursEmpty
    <3>3. One(x = t) \in Nat BY DEF One
    <3>4. Occurs(t, Append(r, x)) = 0 + One(x = t) BY <2>1, <3>2
    <3>5. 0 + One(x = t) = One(x = t) + 0 BY <3>3
    <3>6. Split(Append(r, x)) BY <3>1, <3>2, <3>4, <3>5, Zenon
    <3> HIDE DEF Split
    <3> QED BY <2>2, <3>6
  <2>4. CASE r # <<>>
    <3>1. Head(Append(r, x)) = Head(r) /\ Tail(Append(r, x)) = Append(Tail(r), x) BY <2>4
    <3>2. Tail(r) \in Seq(A) BY <2>4
    <3>3. Occurs(t, Append(Tail(r), x)) = Occurs(t, Tail(r)) + One(x = t)
      <4> DEFINE w == Tail(r)
      <4>1. w \in Seq(A) BY <3>2
      <4> HIDE DEF w
      <4>2. Occurs(t, Append(w, x)) = Occurs(t, w) + One(x = t) BY <4>1, OccursAppend
      <4> QED BY <4>2 DEF w
    <3>4. Occurs(t, r) = One(Head(r) = t) + Occurs(t, Tail(r)) BY <1>2, <2>4
    <3>5. Occurs(t, Tail(r)) \in Nat BY <3>2, PlacesFinite
    <3>6. One(x = t) \in Nat /\ One(Head(r) = t) \in Nat BY DEF One
    <3>7. Split(Append(r, x))
      <4> DEFINE a == Occurs(t, Tail(r))
                 b == One(x = t)
                 c == One(Head(r) = t)
      <4>1. a \in Nat /\ b \in Nat /\ c \in Nat BY <3>5, <3>6
      <4>2. (c + a) + b = c + (a + b)
        <5> HIDE DEF a, b, c
        <5> QED BY <4>1
      <4>3. Occurs(t, Append(r, x)) = (c + a) + b BY <2>1, <3>4
      <4> QED BY <3>1, <3>3, <4>2, <4>3, Zenon
    <3> HIDE DEF Split
    <3> QED BY <2>2, <3>7
  <2> QED BY <2>3, <2>4
<1>3. q \in T
  <2> HIDE DEF T
  <2> QED BY <1>1, <1>2, SeqUp, Zenon
<1>4. Tail(q) \in Seq(A) OBVIOUS
<1>5. Occurs(t, Tail(q)) \in Nat BY <1>4, PlacesFinite
<1> QED BY <1>3, <1>5

\* Neither the end of a queue nor what is kept of it holds something more often.
LEMMA OccursEnd ==
  ASSUME NEW A, NEW q \in Seq(A), NEW k \in Nat, NEW t
  PROVE  /\ SubSeq(q, k + 1, Len(q)) \in Seq(A)
         /\ Occurs(t, SubSeq(q, k + 1, Len(q))) \in Nat
         /\ Occurs(t, SubSeq(q, k + 1, Len(q))) <= Occurs(t, q)
<1> DEFINE End(i) == SubSeq(q, i + 1, Len(q))
           T == {i \in Nat : Occurs(t, End(i)) <= Occurs(t, q)}
<1>1. Len(q) \in Nat /\ Occurs(t, q) \in Nat BY PlacesFinite
<1>2. \A i \in Nat : End(i) \in Seq(A) OBVIOUS
<1>3. \A i \in Nat : Occurs(t, End(i)) \in Nat
  <2> HIDE DEF End
  <2> QED BY <1>2, PlacesFinite
<1>4. End(0) = q BY <1>1
<1>5. 0 \in T
  <2> HIDE DEF End
  <2>1. Occurs(t, End(0)) <= Occurs(t, q) BY <1>1, <1>4
  <2> QED BY <2>1
<1>6. ASSUME NEW i \in 0 .. k - 1, i \in T PROVE i + 1 \in T
  <2>1. i \in Nat /\ i + 1 \in Nat OBVIOUS
  <2>2. Occurs(t, End(i)) <= Occurs(t, q) BY <1>6
  <2>3. CASE i + 1 <= Len(q)
    <3>1. End(i) # <<>> /\ End(i + 1) = Tail(End(i))
      <4> DEFINE m == i + 1
                 n == Len(q)
      <4>1. m \in 1 .. n + 1 /\ n \in m .. n /\ n \in Nat BY <1>1, <2>1, <2>3
      <4>2. End(i) = SubSeq(q, m, n) /\ End(i + 1) = SubSeq(q, m + 1, n) OBVIOUS
      <4>3. SubSeq(q, m, n) # <<>> BY <4>1
      <4>4. Tail(SubSeq(q, m, n)) = SubSeq(q, m + 1, n) BY <4>1, HeadTailOfSubSeq
      <4> QED BY <4>2, <4>3, <4>4
    <3> HIDE DEF End
    <3>2. Occurs(t, End(i)) = One(Head(End(i)) = t) + Occurs(t, Tail(End(i))) BY <1>2, <2>1, <3>1, OccursTail
    <3>3. One(Head(End(i)) = t) \in Nat BY DEF One
    <3> DEFINE a == Occurs(t, q)
               b == Occurs(t, End(i))
               c == Occurs(t, End(i + 1))
               h == One(Head(End(i)) = t)
    <3>4. a \in Nat /\ b \in Nat /\ c \in Nat /\ h \in Nat /\ b <= a BY <1>1, <1>3, <2>1, <2>2, <3>3
    <3>5. b = h + c BY <3>1, <3>2
    <3> HIDE DEF a, b, c, h
    <3>6. c <= a BY <3>4, <3>5
    <3> QED BY <2>1, <3>6 DEF a, c
  <2>4. CASE i + 1 > Len(q)
    <3>1. End(i + 1) = <<>> BY <1>1, <2>1, <2>4
    <3>2. Occurs(t, End(i + 1)) = 0 BY <3>1, OccursEmpty
    <3> HIDE DEF End
    <3> QED BY <1>1, <2>1, <3>2
  <2> QED BY <1>1, <2>1, <2>3, <2>4
<1>7. \A i \in 0 .. k : i \in T
  <2> HIDE DEF T
  <2> QED BY <1>5, <1>6, UpTo, Zenon
<1>8. Occurs(t, End(k)) <= Occurs(t, q)
  <2> HIDE DEF End
  <2> QED BY <1>7
<1> QED BY <1>2, <1>3, <1>8

LEMMA OccursKeep ==
  ASSUME NEW A, NEW q \in Seq(A), NEW S, NEW t
  PROVE  /\ Keep(q, S) \in Seq(A)
         /\ Occurs(t, Keep(q, S)) \in Nat /\ Occurs(t, Keep(q, S)) <= Occurs(t, q)
         /\ t \notin S => Occurs(t, Keep(q, S)) = 0
<1> DEFINE Less(r) == Occurs(t, Keep(r, S)) <= Occurs(t, r) /\ (t \notin S => Occurs(t, Keep(r, S)) = 0)
           T == {r \in Seq(A) : Less(r)}
<1>1. <<>> \in T
  <2>1. Occurs(t, <<>>) = 0 /\ Keep(<<>>, S) = <<>> BY OccursEmpty, KeepEmpty
  <2>2. Less(<<>>) BY <2>1
  <2> HIDE DEF Less
  <2> QED BY <2>2
<1>2. ASSUME NEW r \in Seq(A), NEW x \in A, r \in T PROVE Append(r, x) \in T
  <2>1. Keep(r, S) \in Seq(A) BY KeepType
  <2>2. Occurs(t, r) \in Nat /\ Occurs(t, Keep(r, S)) \in Nat BY <2>1, PlacesFinite
  <2>3. Occurs(t, Append(r, x)) = Occurs(t, r) + One(x = t) BY OccursAppend
  <2>4. Keep(Append(r, x), S) = IF x \in S THEN Append(Keep(r, S), x) ELSE Keep(r, S) BY KeepAppend
  <2>5. Occurs(t, Append(Keep(r, S), x)) = Occurs(t, Keep(r, S)) + One(x = t) BY <2>1, OccursAppend
  <2>6. Less(r) BY <1>2
  <2>7. Less(Append(r, x)) BY <2>2, <2>3, <2>4, <2>5, <2>6 DEF One
  <2>8. Append(r, x) \in Seq(A) OBVIOUS
  <2> HIDE DEF Less
  <2> QED BY <2>7, <2>8
<1>3. q \in T
  <2> HIDE DEF T
  <2> QED BY <1>1, <1>2, SeqUp, Zenon
<1>4. Keep(q, S) \in Seq(A) BY KeepType
<1>5. Occurs(t, Keep(q, S)) \in Nat BY <1>4, PlacesFinite
<1> QED BY <1>3, <1>4, <1>5

LEMMA OccursLimit ==
  ASSUME NEW A, NEW q \in Seq(A), NEW t
  PROVE  /\ EnforceLimit(q) \in Seq(A)
         /\ Occurs(t, EnforceLimit(q)) \in Nat /\ Occurs(t, EnforceLimit(q)) <= Occurs(t, q)
<1>1. MaxPending \in Nat /\ Len(q) \in Nat BY WheelAssumption
<1>2. Occurs(t, q) \in Nat BY PlacesFinite
<1>3. CASE Len(q) > MaxPending
  <2> DEFINE k == Len(q) - MaxPending
  <2>1. k \in Nat BY <1>1, <1>3
  <2>2. EnforceLimit(q) = SubSeq(q, k + 1, Len(q)) BY <1>3 DEF EnforceLimit
  <2> HIDE DEF k
  <2> QED BY <2>1, <2>2, OccursEnd
<1>4. CASE ~(Len(q) > MaxPending)
  <2>1. EnforceLimit(q) = q BY <1>4 DEF EnforceLimit
  <2> QED BY <1>2, <2>1
<1> QED BY <1>3, <1>4

\* What occurs is in the range.
LEMMA OccursRange ==
  ASSUME NEW A, NEW q \in Seq(A), NEW t
  PROVE  Occurs(t, q) = 0 <=> t \notin Range(q)
<1>1. IsFiniteSet(Places(t, q)) /\ Occurs(t, q) = Cardinality(Places(t, q)) BY PlacesFinite
<1>2. Occurs(t, q) = 0 <=> Places(t, q) = {} BY <1>1, FS_EmptySet
<1>3. Places(t, q) = {} <=> t \notin Range(q) BY DEF Places, Range
<1> QED BY <1>2, <1>3

-----------------------------------------------------------------------------
\* Prefixes.

LEMMA PrefixIs ==
  ASSUME NEW A, NEW q \in Seq(A), NEW r \in Seq(A)
  PROVE  IsPrefix(q, r) <=> Len(q) <= Len(r) /\ \A i \in 1 .. Len(q) : q[i] = r[i]
<1>1. CASE Len(q) <= Len(r)
  <2> DEFINE a == SubSeq(q, 1, Len(q))
             b == SubSeq(r, 1, Len(q))
  <2>1. a \in Seq(A) /\ b \in Seq(A) /\ Len(a) = Len(q) /\ Len(b) = Len(q) BY <1>1
  <2>2. \A i \in 1 .. Len(q) : a[i] = q[i] /\ b[i] = r[i] BY <1>1
  <2> HIDE DEF a, b
  <2>3. a = b <=> \A i \in 1 .. Len(q) : a[i] = b[i] BY <2>1, SeqEqual
  <2>4. IsPrefix(q, r) <=> a = b BY <1>1 DEF IsPrefix, a, b
  <2> QED BY <1>1, <2>2, <2>3, <2>4
<1>2. CASE ~(Len(q) <= Len(r)) BY <1>2 DEF IsPrefix
<1> QED BY <1>1, <1>2

LEMMA PrefixOfItself ==
  ASSUME NEW A, NEW q \in Seq(A)
  PROVE  IsPrefix(q, q) /\ IsPrefix(<<>>, q) /\ (IsPrefix(q, <<>>) => q = <<>>)
<1>1. IsPrefix(q, q) BY PrefixIs
<1>2. <<>> \in Seq(A) /\ Len(<<>>) = 0 OBVIOUS
<1>3. IsPrefix(<<>>, q)
  <2>1. SubSeq(<<>>, 1, 0) = <<>> /\ SubSeq(q, 1, 0) = <<>> /\ 0 <= Len(q) OBVIOUS
  <2> QED BY <1>2, <2>1 DEF IsPrefix
<1>4. IsPrefix(q, <<>>) => Len(q) <= 0 BY <1>2, PrefixIs
<1> QED BY <1>1, <1>3, <1>4

LEMMA PrefixMore ==
  ASSUME NEW A, NEW q \in Seq(A), NEW r \in Seq(A), NEW u \in Seq(A), IsPrefix(q, r)
  PROVE  IsPrefix(q, r \o u)
<1>1. r \o u \in Seq(A) OBVIOUS
<1>2. Len(q) <= Len(r) /\ \A i \in 1 .. Len(q) : q[i] = r[i] BY PrefixIs
<1>3. Len(r \o u) = Len(r) + Len(u) /\ \A i \in 1 .. Len(r) : (r \o u)[i] = r[i] OBVIOUS
<1>4. Len(q) <= Len(r \o u) /\ \A i \in 1 .. Len(q) : q[i] = (r \o u)[i] BY <1>2, <1>3
<1> QED BY <1>1, <1>4, PrefixIs

LEMMA PrefixTail ==
  ASSUME NEW A, NEW q \in Seq(A), NEW r \in Seq(A), IsPrefix(q, r), q # <<>>
  PROVE  r # <<>> /\ Head(q) = Head(r) /\ IsPrefix(Tail(q), Tail(r))
<1>1. Len(q) <= Len(r) /\ \A i \in 1 .. Len(q) : q[i] = r[i] BY PrefixIs
<1>2. r # <<>> /\ Head(q) = Head(r) BY <1>1
<1>3. Tail(q) \in Seq(A) /\ Tail(r) \in Seq(A) BY <1>2
<1>4. Len(Tail(q)) <= Len(Tail(r)) BY <1>1, <1>2
<1>5. \A i \in 1 .. Len(Tail(q)) : Tail(q)[i] = Tail(r)[i] BY <1>1, <1>2
<1> QED BY <1>2, <1>3, <1>4, <1>5, PrefixIs

\* Without what stands for the first part of a line.
LEMMA PrefixDrop ==
  ASSUME NEW A, NEW q \in Seq(A), NEW r \in Seq(A), NEW u \in Seq(A), IsPrefix(q, r \o u)
  PROVE  IsPrefix(SubSeq(q, Len(r) + 1, Len(q)), u)
<1> DEFINE n == Len(r)
           e == SubSeq(q, n + 1, Len(q))
<1>1. r \o u \in Seq(A) /\ n \in Nat /\ Len(q) \in Nat /\ Len(u) \in Nat OBVIOUS
<1>2. Len(q) <= Len(r \o u) /\ \A i \in 1 .. Len(q) : q[i] = (r \o u)[i]
  <2> DEFINE w == r \o u
  <2>1. w \in Seq(A) /\ IsPrefix(q, w) BY <1>1
  <2> HIDE DEF w
  <2>2. Len(q) <= Len(w) /\ \A i \in 1 .. Len(q) : q[i] = w[i] BY <2>1, PrefixIs
  <2> QED BY <2>2 DEF w
<1>3. Len(r \o u) = n + Len(u) /\ \A i \in 1 .. Len(u) : (r \o u)[n + i] = u[i] OBVIOUS
<1>4. e \in Seq(A) OBVIOUS
<1>5. CASE Len(q) <= n
  <2>1. e = <<>> BY <1>1, <1>5
  <2> QED BY <2>1, PrefixOfItself
<1>6. CASE Len(q) > n
  <2>1. Len(e) = Len(q) - n /\ \A i \in 1 .. Len(q) - n : e[i] = q[n + i] BY <1>1, <1>6
  <2> HIDE DEF e, n
  <2>2. \A i \in 1 .. Len(q) - n : i \in 1 .. Len(u) /\ n + i \in 1 .. Len(q) BY <1>1, <1>2, <1>3
  <2>3. \A i \in 1 .. Len(e) : e[i] = u[i] BY <1>2, <1>3, <2>1, <2>2
  <2>4. Len(e) <= Len(u) BY <1>1, <1>2, <1>3, <2>1
  <2>5. IsPrefix(e, u) BY <1>4, <2>3, <2>4, PrefixIs
  <2> QED BY <2>5 DEF e, n
<1> QED BY <1>1, <1>5, <1>6

LEMMA DropAll ==
  ASSUME NEW A, NEW r \in Seq(A), NEW u \in Seq(A)
  PROVE  SubSeq(r \o u, Len(r) + 1, Len(r \o u)) = u
<1> DEFINE w == SubSeq(r \o u, Len(r) + 1, Len(r \o u))
<1>1. w \in Seq(A) /\ Len(w) = Len(u) OBVIOUS
<1>2. \A i \in 1 .. Len(u) : w[i] = u[i] OBVIOUS
<1> HIDE DEF w
<1>3. w = u BY <1>1, <1>2, SeqEqual
<1> QED BY <1>3 DEF w

-----------------------------------------------------------------------------
\* The inductive invariant: types.

Mail == Item \cup {Shutdown}

ShardState ==
  [pc : {"recv", "drain", "poll", "handle", "output", "closing", "stopped"},
   ready : [Device -> Seq(Item)], round : SUBSET Device, left : Nat, streak : Nat, hand : Seq(Item),
   calls : Seq(Timer), actors : SUBSET Device, down : BOOLEAN]

WheelState ==
  [up : BOOLEAN, pc : {"select", "expire", "retry"}, set : SUBSET Timer, pending : Seq(Timer),
   rest : Seq(Timer)]

CommandSet == [t : Timer, cancel : BOOLEAN]

LetterSet == [msg : Message, attempts : Nat]

KeySet == {KeyOf(m) : m \in {n \in Message : Coalescible(n)}}

PolicyState == [overloaded : BOOLEAN, keys : SUBSET KeySet, letters : Seq(LetterSet)]

QueueTypes ==
  /\ mailbox \in [Shard -> Seq(Mail)] /\ owed \in [Device -> Seq(Item)]
  /\ output \in Seq(Mail)

CallerTypes ==
  /\ policy \in PolicyState /\ batch \in Seq(LetterSet)
  /\ call \in [Message -> {"new", "direct", "send", "full", "letter", "done"}]

WheelTypes ==
  /\ wheel \in WheelState /\ commands \in Seq(CommandSet)
  /\ issued \in SUBSET Timer /\ fired \in SUBSET Timer /\ cancelled \in SUBSET Timer

\* The types of the variables of the runtime.
RuntimeTypeOK ==
  /\ QueueTypes /\ CallerTypes /\ WheelTypes
  /\ shard \in [Shard -> ShardState]
  /\ untold \in SUBSET Shard /\ draining \in BOOLEAN

\* A worker has a message in hand only while its actor handles it and while it waits
\* for room in the output. Of a round only the device whose turn it is may have nothing left, and a worker that
\* closes was told so and has processed what it received.
WorkerOK(sh) ==
  /\ sh.pc \notin {"handle", "output"} => sh.hand = <<>>
  /\ sh.pc \in {"handle", "output"} => Len(sh.hand) = 1 /\ sh.left > 0
  /\ \A d \in sh.round : d # Min(sh.round) => sh.ready[d] # <<>>
  /\ sh.pc = "closing" => sh.down /\ \A d \in Device : sh.ready[d] = <<>>

WorkersOK == \A s \in Shard : WorkerOK(shard[s])

-----------------------------------------------------------------------------
\* Types: what the operators return.

LEMMA ItemFacts ==
  ASSUME NEW x \in Item
  PROVE  /\ DeviceOf[x] \in Device /\ ShardOf(x) \in Shard /\ x \in Mail /\ x # Shutdown
         /\ ShardOf(x) = Route[DeviceOf[x]]
BY RuntimeAssumption DEF Item, ShardOf, Mail

LEMMA Numbers ==
  /\ MailboxCapacity \in Nat /\ MaxPending \in Nat /\ MaxPoll \in Nat /\ MaxPoll > 0
  /\ MaxConsecutive \in Nat /\ Device \subseteq Nat /\ Shard \subseteq Nat
BY RuntimeAssumption, WheelAssumption

\* Whose turn it is: one of the devices that are ready.
LEMMA TurnFacts ==
  ASSUME NEW sh \in ShardState, WorkerOK(sh), Ready(sh) # {}
  PROVE  /\ Turn(sh) \in ShardState
         /\ Turn(sh).ready = sh.ready /\ Turn(sh).hand = sh.hand /\ Turn(sh).actors = sh.actors
         /\ Turn(sh).down = sh.down /\ Turn(sh).pc = sh.pc
         /\ Turn(sh).left > 0 /\ Turn(sh).round \subseteq Ready(sh)
         /\ Min(Turn(sh).round) \in Turn(sh).round
<1> DEFINE over == sh.round # {} /\ (sh.streak >= MaxConsecutive \/ sh.ready[Min(sh.round)] = <<>>)
           round == IF over THEN sh.round \ {Min(sh.round)} ELSE sh.round
           a == [sh EXCEPT !.left = MaxPoll, !.streak = 0, !.round = Ready(sh)]
           b == [sh EXCEPT !.streak = 0, !.round = Ready(sh)]
           c == [sh EXCEPT !.round = round, !.streak = IF over THEN 0 ELSE @]
<1>1. /\ Turn(sh) = CASE sh.left = 0 -> a [] sh.left > 0 /\ round = {} -> b [] OTHER -> c
  BY DEF Turn
<1>2. Ready(sh) \in SUBSET Device BY DEF Ready
<1>3. sh.left \in Nat /\ sh.streak \in Nat /\ sh.round \in SUBSET Device BY DEF ShardState
<1>4. round \in SUBSET Device BY <1>3
<1>5. a \in ShardState /\ b \in ShardState /\ c \in ShardState
  BY <1>2, <1>3, <1>4, Numbers DEF ShardState
<1>6. /\ a.ready = sh.ready /\ a.hand = sh.hand /\ a.actors = sh.actors /\ a.down = sh.down /\ a.pc = sh.pc
      /\ a.left = MaxPoll /\ a.round = Ready(sh)
  BY DEF ShardState
<1>7. /\ b.ready = sh.ready /\ b.hand = sh.hand /\ b.actors = sh.actors /\ b.down = sh.down /\ b.pc = sh.pc
      /\ b.left = sh.left /\ b.round = Ready(sh)
  BY DEF ShardState
<1>8. /\ c.ready = sh.ready /\ c.hand = sh.hand /\ c.actors = sh.actors /\ c.down = sh.down /\ c.pc = sh.pc
      /\ c.left = sh.left /\ c.round = round
  BY DEF ShardState
<1>9. round \subseteq Ready(sh) BY <1>3 DEF WorkerOK, Ready
<1> HIDE DEF over, round, a, b, c
<1>10. \A S \in SUBSET Device : S # {} => Min(S) \in S BY Numbers, MinIn
<1>11. CASE sh.left = 0
  <2>1. Turn(sh) = a BY <1>1, <1>11
  <2> QED BY <2>1, <1>2, <1>5, <1>6, <1>10, Numbers
<1>12. CASE sh.left # 0 /\ round = {}
  <2>1. Turn(sh) = b BY <1>1, <1>3, <1>12
  <2>2. sh.left > 0 BY <1>3, <1>12
  <2> QED BY <2>1, <2>2, <1>2, <1>5, <1>7, <1>10
<1>13. CASE sh.left # 0 /\ round # {}
  <2>1. Turn(sh) = c BY <1>1, <1>3, <1>13
  <2>2. sh.left > 0 BY <1>3, <1>13
  <2> QED BY <2>1, <2>2, <1>4, <1>5, <1>8, <1>9, <1>10, <1>13
<1> QED BY <1>11, <1>12, <1>13

LEMMA ObserveFacts ==
  ASSUME NEW p \in PolicyState, NEW n
  PROVE  Observe(p, n) \in PolicyState /\ Observe(p, n).keys = p.keys
<1> DEFINE low == n > LowWatermark
           high == n >= HighWatermark
           b == IF p.overloaded THEN low ELSE high
<1>1. low \in BOOLEAN BY SMT
<1>2. high \in BOOLEAN BY SMT
<1>3. Observe(p, n) = [p EXCEPT !.overloaded = b] BY DEF Observe
<1> HIDE DEF low, high
<1>4. b \in BOOLEAN BY <1>1, <1>2
<1> HIDE DEF b
<1> QED BY <1>3, <1>4 DEF PolicyState

LEMMA TrackFacts ==
  ASSUME NEW p \in PolicyState, NEW m \in Message
  PROVE  /\ Track(p, m) \in PolicyState
         /\ Track(p, m).keys \subseteq p.keys \cup {KeyOf(m)}
<1>1. CASE Coalescible(m) /\ Cardinality(p.keys) < MaxTracked
  <2> DEFINE q == [p EXCEPT !.keys = @ \cup {KeyOf(m)}]
  <2>1. Track(p, m) = q BY <1>1 DEF Track
  <2>2. KeyOf(m) \in KeySet BY <1>1 DEF KeySet
  <2>3. q \in PolicyState /\ q.keys = p.keys \cup {KeyOf(m)} BY <2>2 DEF PolicyState
  <2> QED BY <2>1, <2>3
<1>2. CASE ~(Coalescible(m) /\ Cardinality(p.keys) < MaxTracked)
  <2>1. Track(p, m) = p BY <1>2 DEF Track
  <2> QED BY <2>1
<1> QED BY <1>1, <1>2

\* Only what is admitted adds a key, that of the message.
LEMMA PreAdmitFacts ==
  ASSUME NEW p \in PolicyState, NEW m \in Message, NEW n, NEW limited \in BOOLEAN
  PROVE  LET r == PreAdmit(p, m, n, limited) IN
           /\ r.policy \in PolicyState
           /\ r.act \in {"shed", "limit", "coalesce", "admit"}
           /\ r.policy.keys \subseteq p.keys \cup {KeyOf(m)}
           /\ r.act # "admit" => r.policy.keys = p.keys
<1> DEFINE q == Observe(p, n)
           low == q.overloaded /\ LowPriority(m)
           tracked == Coalescible(m) /\ KeyOf(m) \in q.keys
           r == PreAdmit(p, m, n, limited)
<1>1. q \in PolicyState /\ q.keys = p.keys BY ObserveFacts
<1>2. Track(q, m) \in PolicyState /\ Track(q, m).keys \subseteq q.keys \cup {KeyOf(m)} BY <1>1, TrackFacts
<1>3. \/ r = [policy |-> q, act |-> "shed"] \/ r = [policy |-> q, act |-> "limit"]
      \/ r = [policy |-> q, act |-> "coalesce"] \/ r = [policy |-> Track(q, m), act |-> "admit"]
  BY DEF PreAdmit
<1> HIDE DEF q, r
<1> QED BY <1>1, <1>2, <1>3 DEF r

LEMMA PushLetterFacts ==
  ASSUME NEW p \in PolicyState, NEW l \in LetterSet
  PROVE  PushLetter(p, l) \in PolicyState /\ PushLetter(p, l).keys = p.keys
<1> DEFINE old == IF Len(p.letters) >= LetterCapacity THEN Tail(p.letters) ELSE p.letters
<1>1. p.letters \in Seq(LetterSet) BY DEF PolicyState
<1>2. LetterCapacity \in Nat /\ LetterCapacity > 0 BY AdmissionAssumption
<1>3. old \in Seq(LetterSet)
  <2>1. Len(p.letters) >= LetterCapacity => p.letters # <<>> BY <1>1, <1>2
  <2> QED BY <1>1, <2>1
<1> HIDE DEF old
<1>4. Append(old, l) \in Seq(LetterSet) BY <1>3
<1> DEFINE new == Append(old, l)
<1>5. PushLetter(p, l) = [p EXCEPT !.letters = new] BY DEF PushLetter, old
<1> HIDE DEF new
<1>6. new \in Seq(LetterSet) BY <1>4 DEF new
<1> QED BY <1>5, <1>6 DEF PolicyState

\* A key that is given back is gone.
LEMMA ReleaseFacts ==
  ASSUME NEW p \in PolicyState, NEW m
  PROVE  Release(p, m) \in PolicyState /\ Release(p, m).keys = p.keys \ {KeyOf(m)}
BY DEF Release, PolicyState

LEMMA DeadLetterFacts ==
  ASSUME NEW p \in PolicyState, NEW m \in Message, NEW full \in BOOLEAN
  PROVE  /\ DeadLetter(p, m, full) \in PolicyState
         /\ DeadLetter(p, m, full).keys \subseteq p.keys
         /\ full => KeyOf(m) \notin DeadLetter(p, m, full).keys
<1> DEFINE q == PushLetter(p, [msg |-> m, attempts |-> 0])
<1>1. [msg |-> m, attempts |-> 0] \in LetterSet BY DEF LetterSet
<1>2. q \in PolicyState /\ q.keys = p.keys BY <1>1, PushLetterFacts
<1>3. Release(q, m) \in PolicyState /\ Release(q, m).keys = q.keys \ {KeyOf(m)} BY <1>2, ReleaseFacts
<1>4. DeadLetter(p, m, full) = IF full /\ Coalescible(m) THEN Release(q, m) ELSE q BY DEF DeadLetter
<1>5. ~Coalescible(m) => KeyOf(m) \notin p.keys
  <2>1. p.keys \subseteq KeySet BY DEF PolicyState
  <2>2. SUFFICES ASSUME ~Coalescible(m), KeyOf(m) \in p.keys PROVE FALSE OBVIOUS
  <2>3. PICK n \in Message : Coalescible(n) /\ KeyOf(m) = KeyOf(n) BY <2>1, <2>2 DEF KeySet
  <2>4. Class[m] = Class[n] BY <2>3 DEF KeyOf
  <2> QED BY <2>2, <2>3, <2>4 DEF Coalescible
<1> HIDE DEF q
<1> QED BY <1>2, <1>3, <1>4, <1>5

LEMMA RequeueFacts ==
  ASSUME NEW p \in PolicyState, NEW l \in LetterSet
  PROVE  Requeue(p, l) \in PolicyState /\ Requeue(p, l).keys = p.keys
<1> DEFINE k == [l EXCEPT !.attempts = @ + 1]
<1>1. k \in LetterSet BY DEF LetterSet
<1>2. PushLetter(p, k) \in PolicyState /\ PushLetter(p, k).keys = p.keys BY <1>1, PushLetterFacts
<1> QED BY <1>2 DEF Requeue

-----------------------------------------------------------------------------
\* Types: the steps.

TypesAndWorkers == RuntimeTypeOK /\ WorkersOK

LEMMA PutFacts ==
  ASSUME QueueTypes, NEW x \in Item, Put(x)
  PROVE  /\ mailbox' \in [Shard -> Seq(Mail)] /\ owed' \in [Device -> Seq(Item)]
         /\ mailbox'[ShardOf(x)] = Append(mailbox[ShardOf(x)], x)
         /\ \A s \in Shard : s # ShardOf(x) => mailbox'[s] = mailbox[s]
         /\ owed'[DeviceOf[x]] = IF Told(ShardOf(x)) THEN owed[DeviceOf[x]] ELSE Append(owed[DeviceOf[x]], x)
         /\ \A d \in Device : d # DeviceOf[x] => owed'[d] = owed[d]
<1> DEFINE s == ShardOf(x)
           d == DeviceOf[x]
           q == Append(mailbox[s], x)
           o == IF Told(s) THEN owed[d] ELSE Append(owed[d], x)
<1>1. d \in Device /\ s \in Shard /\ x \in Mail BY ItemFacts
<1>2. q \in Seq(Mail) BY <1>1 DEF QueueTypes
<1>3. o \in Seq(Item) BY <1>1 DEF QueueTypes
<1>4. mailbox' = [mailbox EXCEPT ![s] = q] /\ owed' = [owed EXCEPT ![d] = o] BY DEF Put
<1>5. mailbox \in [Shard -> Seq(Mail)] /\ owed \in [Device -> Seq(Item)] BY DEF QueueTypes
<1> HIDE DEF s, d, q, o
<1>6. mailbox' \in [Shard -> Seq(Mail)] /\ mailbox'[s] = q /\ \A u \in Shard : u # s => mailbox'[u] = mailbox[u]
  BY <1>1, <1>2, <1>4, <1>5
<1>7. owed' \in [Device -> Seq(Item)] /\ owed'[d] = o /\ \A e \in Device : e # d => owed'[e] = owed[e]
  BY <1>1, <1>3, <1>4, <1>5
<1> QED BY <1>6, <1>7 DEF s, d, q, o

LEMMA OneShard ==
  ASSUME shard \in [Shard -> ShardState], WorkersOK, NEW s \in Shard, NEW q \in ShardState, WorkerOK(q),
         shard' = [shard EXCEPT ![s] = q]
  PROVE  /\ shard' \in [Shard -> ShardState] /\ WorkersOK' /\ shard'[s] = q
         /\ \A u \in Shard : u # s => shard'[u] = shard[u]
<1>1. shard' \in [Shard -> ShardState] /\ shard'[s] = q /\ \A u \in Shard : u # s => shard'[u] = shard[u] OBVIOUS
<1>2. \A u \in Shard : WorkerOK(shard'[u]) BY <1>1 DEF WorkersOK
<1> QED BY <1>1, <1>2 DEF WorkersOK

LEMMA OfferTypes ==
  ASSUME TypesAndWorkers, NEW m \in Message, Offer(m)
  PROVE  TypesAndWorkers'
<1> USE DEF TypesAndWorkers, RuntimeTypeOK
<1>1. policy' \in PolicyState /\ \E a \in {"direct", "send", "done", "letter"} : call' = [call EXCEPT ![m] = a]
  <2>1. CASE m \in Direct /\ Goes(m, "direct") /\ UNCHANGED policy BY <2>1 DEF CallerTypes, Goes
  <2>2. CASE \E limited \in BOOLEAN :
             LET r == PreAdmit(policy, m, Depth, limited) IN
               /\ policy' = r.policy
               /\ Goes(m, CASE r.act = "admit" -> "send" [] r.act = "coalesce" -> "done" [] OTHER -> "letter")
    <3>1. PICK limited \in BOOLEAN :
             LET r == PreAdmit(policy, m, Depth, limited) IN
               /\ policy' = r.policy
               /\ Goes(m, CASE r.act = "admit" -> "send" [] r.act = "coalesce" -> "done" [] OTHER -> "letter")
      BY <2>2
    <3> DEFINE r == PreAdmit(policy, m, Depth, limited)
               a == CASE r.act = "admit" -> "send" [] r.act = "coalesce" -> "done" [] OTHER -> "letter"
    <3>2. policy \in PolicyState BY DEF CallerTypes
    <3>3. r.policy \in PolicyState BY <3>2, PreAdmitFacts
    <3>4. policy' = r.policy /\ call' = [call EXCEPT ![m] = a] BY <3>1 DEF Goes
    <3>5. a \in {"direct", "send", "done", "letter"} OBVIOUS
    <3> HIDE DEF r, a
    <3> QED BY <3>3, <3>4, <3>5
  <2> QED BY <2>1, <2>2 DEF Offer
<1>2. call' \in [Message -> {"new", "direct", "send", "full", "letter", "done"}] BY <1>1 DEF CallerTypes
<1> QED BY <1>1, <1>2
  DEF Offer, QueueTypes, CallerTypes, WheelTypes, shardVars, wheelVars, stopVars, WorkersOK

LEMMA SendTypes ==
  ASSUME TypesAndWorkers, NEW m \in Message, Send(m)
  PROVE  TypesAndWorkers'
<1> USE DEF TypesAndWorkers, RuntimeTypeOK
<1>1. m \in Item BY DEF Item
<1>2. \E a \in {"done", "full"} : call' = [call EXCEPT ![m] = a] BY DEF Send, Goes
<1>3. call' \in [Message -> {"new", "direct", "send", "full", "letter", "done"}] BY <1>2 DEF CallerTypes
<1>4. mailbox' \in [Shard -> Seq(Mail)] /\ owed' \in [Device -> Seq(Item)]
  <2>1. CASE Put(m) BY <1>1, <2>1, PutFacts
  <2>2. CASE UNCHANGED <<mailbox, owed>> BY <2>2 DEF QueueTypes
  <2> QED BY <2>1, <2>2 DEF Send
<1> QED BY <1>3, <1>4 DEF Send, QueueTypes, CallerTypes, WheelTypes, wheelVars, stopVars, WorkersOK

LEMMA LetterTypes ==
  ASSUME TypesAndWorkers, NEW m \in Message, Letter(m)
  PROVE  TypesAndWorkers'
<1> USE DEF TypesAndWorkers, RuntimeTypeOK
<1>1. policy' \in PolicyState
  <2>1. policy \in PolicyState /\ (call[m] = "full") \in BOOLEAN BY DEF CallerTypes
  <2>2. policy' = DeadLetter(policy, m, call[m] = "full") BY DEF Letter
  <2> QED BY <2>1, <2>2, DeadLetterFacts
<1>2. call' \in [Message -> {"new", "direct", "send", "full", "letter", "done"}]
  BY DEF CallerTypes, Letter, Goes
<1> QED BY <1>1, <1>2
  DEF Letter, QueueTypes, CallerTypes, WheelTypes, shardVars, wheelVars, stopVars, WorkersOK

LEMMA RedriveTypes ==
  ASSUME TypesAndWorkers, Redrive
  PROVE  TypesAndWorkers'
<1> USE DEF TypesAndWorkers, RuntimeTypeOK
<1> DEFINE l == policy.letters
           n == IF RedriveBatch < Len(l) THEN RedriveBatch ELSE Len(l)
<1>1. l \in Seq(LetterSet) BY DEF CallerTypes, PolicyState
<1>2. RedriveBatch \in Nat BY RuntimeAssumption
<1>3. n \in 0 .. Len(l) BY <1>1, <1>2
<1>4. batch' = SubSeq(l, 1, n) /\ policy' = [policy EXCEPT !.letters = SubSeq(l, n + 1, Len(l))] BY DEF Redrive
<1> DEFINE a == SubSeq(l, 1, n)
           b == SubSeq(l, n + 1, Len(l))
<1> HIDE DEF l, n
<1>5. a \in Seq(LetterSet) /\ b \in Seq(LetterSet) BY <1>1, <1>3
<1> HIDE DEF a, b
<1>6. batch' = a /\ policy' = [policy EXCEPT !.letters = b] BY <1>4 DEF a, b
<1>7. batch' \in Seq(LetterSet) /\ policy' \in PolicyState BY <1>5, <1>6 DEF CallerTypes, PolicyState
<1> QED BY <1>7
  DEF Redrive, QueueTypes, CallerTypes, WheelTypes, shardVars, wheelVars, stopVars, WorkersOK

LEMMA BatchHead ==
  ASSUME CallerTypes, batch # <<>>
  PROVE  Head(batch) \in LetterSet /\ Head(batch).msg \in Message /\ Tail(batch) \in Seq(LetterSet)
<1>1. Head(batch) \in LetterSet /\ Tail(batch) \in Seq(LetterSet) BY DEF CallerTypes
<1> QED BY <1>1 DEF LetterSet

LEMMA RedriveOneTypes ==
  ASSUME TypesAndWorkers, RedriveOne
  PROVE  TypesAndWorkers'
<1> USE DEF TypesAndWorkers, RuntimeTypeOK
<1>1. /\ Head(batch) \in LetterSet /\ Head(batch).msg \in Message /\ Tail(batch) \in Seq(LetterSet)
      /\ Head(batch).msg \in Item
  BY BatchHead DEF RedriveOne, Item
<1>2. batch' \in Seq(LetterSet)
  <2>1. batch' = <<>> \/ batch' = Tail(batch) BY DEF RedriveOne
  <2>2. <<>> \in Seq(LetterSet) OBVIOUS
  <2> QED BY <1>1, <2>1, <2>2
<1>3. policy' \in PolicyState
  <2>1. policy' = policy \/ policy' = Requeue(policy, Head(batch)) BY DEF RedriveOne
  <2>2. policy \in PolicyState BY DEF CallerTypes
  <2> QED BY <1>1, <2>1, <2>2, RequeueFacts
<1>4. mailbox' \in [Shard -> Seq(Mail)] /\ owed' \in [Device -> Seq(Item)]
  <2>1. CASE Put(Head(batch).msg) BY <1>1, <2>1, PutFacts
  <2>2. CASE UNCHANGED <<mailbox, owed>> BY <2>2 DEF QueueTypes
  <2> QED BY <2>1, <2>2 DEF RedriveOne
<1> QED BY <1>2, <1>3, <1>4
  DEF RedriveOne, QueueTypes, CallerTypes, WheelTypes, wheelVars, stopVars, WorkersOK

LEMMA HeadOfMail ==
  ASSUME QueueTypes, NEW s \in Shard, mailbox[s] # <<>>
  PROVE  /\ Head(mailbox[s]) \in Mail /\ Tail(mailbox[s]) \in Seq(Mail)
         /\ Head(mailbox[s]) # Shutdown => Head(mailbox[s]) \in Item
<1>1. mailbox[s] \in Seq(Mail) BY DEF QueueTypes
<1>2. Head(mailbox[s]) \in Mail /\ Tail(mailbox[s]) \in Seq(Mail) BY <1>1
<1> QED BY <1>2 DEF Mail

\* What a worker does with an item that it receives.
LEMMA SortFacts ==
  ASSUME NEW sh \in ShardState, WorkerOK(sh), sh.pc \in {"recv", "drain"}, NEW x \in Mail
  PROVE  /\ Sort(sh, x) \in ShardState /\ WorkerOK(Sort(sh, x))
         /\ Sort(sh, x).pc = "drain" /\ Sort(sh, x).hand = sh.hand
         /\ x = Shutdown => Sort(sh, x).ready = sh.ready /\ Sort(sh, x).down
         /\ x # Shutdown => /\ Sort(sh, x).down = sh.down
                            /\ Sort(sh, x).ready[DeviceOf[x]] = Append(sh.ready[DeviceOf[x]], x)
                            /\ \A d \in Device : d # DeviceOf[x] => Sort(sh, x).ready[d] = sh.ready[d]
<1>1. CASE x = Shutdown
  <2> DEFINE q == [sh EXCEPT !.pc = "drain", !.down = TRUE]
  <2>1. Sort(sh, x) = q BY <1>1 DEF Sort
  <2>2. q \in ShardState BY DEF ShardState
  <2>3. q.pc = "drain" /\ q.hand = sh.hand /\ q.ready = sh.ready /\ q.down = TRUE /\ q.round = sh.round
    BY DEF ShardState
  <2> HIDE DEF q
  <2>4. WorkerOK(q) BY <2>3 DEF WorkerOK
  <2> QED BY <1>1, <2>1, <2>2, <2>3, <2>4
<1>2. CASE x # Shutdown
  <2> DEFINE d == DeviceOf[x]
             w == Append(sh.ready[d], x)
             ready == [sh.ready EXCEPT ![d] = w]
             q == [sh EXCEPT !.pc = "drain", !.ready = ready]
  <2>1. Sort(sh, x) = q BY <1>2 DEF Sort
  <2>2. x \in Item /\ d \in Device BY <1>2, ItemFacts DEF Mail
  <2>3. sh.ready \in [Device -> Seq(Item)] BY DEF ShardState
  <2>4. w \in Seq(Item) /\ w # <<>> BY <2>2, <2>3
  <2> HIDE DEF d, w
  <2>5. ready \in [Device -> Seq(Item)] /\ ready[d] = w /\ \A e \in Device : e # d => ready[e] = sh.ready[e]
    BY <2>2, <2>3, <2>4
  <2> HIDE DEF ready
  <2>6. q \in ShardState BY <2>5 DEF ShardState
  <2>7. q.pc = "drain" /\ q.hand = sh.hand /\ q.ready = ready /\ q.down = sh.down /\ q.round = sh.round
    BY DEF ShardState
  <2> HIDE DEF q
  <2>8. sh.round \subseteq Device BY DEF ShardState
  <2>9. \A e \in q.round : e # Min(q.round) => q.ready[e] # <<>>
    BY <2>4, <2>5, <2>7, <2>8 DEF WorkerOK
  <2>10. WorkerOK(q) BY <2>7, <2>9 DEF WorkerOK
  <2> QED BY <1>2, <2>1, <2>5, <2>6, <2>7, <2>10 DEF d, w
<1> QED BY <1>1, <1>2

LEMMA ReceiveTypes ==
  ASSUME TypesAndWorkers, NEW s \in Shard, Receive(s)
  PROVE  TypesAndWorkers'
<1> USE DEF TypesAndWorkers, RuntimeTypeOK
<1> DEFINE x == Head(mailbox[s])
           q == Sort(shard[s], x)
<1>1. mailbox[s] # <<>> /\ shard[s].pc \in {"recv", "drain"} BY DEF Receive
<1>2. x \in Mail /\ Tail(mailbox[s]) \in Seq(Mail) BY <1>1, HeadOfMail
<1>3. q \in ShardState /\ WorkerOK(q) BY <1>1, <1>2, SortFacts DEF WorkersOK
<1>4. shard' = [shard EXCEPT ![s] = q] /\ mailbox' = [mailbox EXCEPT ![s] = Tail(@)] BY DEF Receive
<1> HIDE DEF x, q
<1>5. shard' \in [Shard -> ShardState] /\ WorkersOK' BY <1>3, <1>4, OneShard
<1>6. mailbox' \in [Shard -> Seq(Mail)] BY <1>2, <1>4 DEF QueueTypes
<1> QED BY <1>5, <1>6 DEF Receive, QueueTypes, CallerTypes, WheelTypes, wheelVars, stopVars, callVars

LEMMA ReceivedTypes ==
  ASSUME TypesAndWorkers, NEW s \in Shard, Received(s)
  PROVE  TypesAndWorkers'
<1> USE DEF TypesAndWorkers, RuntimeTypeOK
<1> DEFINE sh == shard[s]
           q == [sh EXCEPT !.pc = "poll"]
<1>1. sh \in ShardState /\ WorkerOK(sh) /\ sh.pc = "drain" BY DEF WorkersOK, Received
<1>2. shard' = [shard EXCEPT ![s] = q] BY DEF Received
<1> HIDE DEF sh
<1>3. q \in ShardState /\ q.pc = "poll" /\ q.hand = sh.hand /\ q.ready = sh.ready /\ q.round = sh.round
  BY <1>1 DEF ShardState
<1> HIDE DEF q
<1>4. WorkerOK(q) BY <1>1, <1>3 DEF WorkerOK
<1>5. shard' \in [Shard -> ShardState] /\ WorkersOK' BY <1>2, <1>3, <1>4, OneShard
<1> QED BY <1>5 DEF Received, QueueTypes, CallerTypes, WheelTypes, wheelVars, stopVars, callVars

\* The worker after it has taken the next message.
Taken(sh) ==
  LET t == Turn(sh)
      d == Min(t.round)
  IN  [t EXCEPT !.hand = <<Head(t.ready[d])>>, !.ready[d] = Tail(@), !.actors = @ \cup {d}]

LEMMA TakenFacts ==
  ASSUME NEW sh \in ShardState, WorkerOK(sh), Ready(sh) # {}, NEW d, d = Min(Turn(sh).round)
  PROVE  /\ d \in Device /\ sh.ready[d] # <<>> /\ Head(sh.ready[d]) \in Item
         /\ Taken(sh) \in ShardState /\ Taken(sh).left > 0 /\ Taken(sh).down = sh.down
         /\ Taken(sh).hand = <<Head(sh.ready[d])>>
         /\ Taken(sh).ready[d] = Tail(sh.ready[d])
         /\ \A e \in Device : e # d => Taken(sh).ready[e] = sh.ready[e]
         /\ \A e \in Taken(sh).round : e # Min(Taken(sh).round) => Taken(sh).ready[e] # <<>>
<1> DEFINE t == Turn(sh)
           h == <<Head(t.ready[d])>>
           r == [t.ready EXCEPT ![d] = Tail(t.ready[d])]
           q == [t EXCEPT !.hand = h, !.ready = r, !.actors = @ \cup {d}]
<1>1. /\ t \in ShardState /\ t.ready = sh.ready /\ t.down = sh.down /\ t.left > 0
      /\ t.round \subseteq Ready(sh) /\ d \in t.round
  BY TurnFacts
<1>2. Taken(sh) = q BY DEF Taken
<1> HIDE DEF t
<1>3. d \in Device /\ sh.ready[d] # <<>> BY <1>1 DEF Ready
<1>4. t.ready \in [Device -> Seq(Item)] BY <1>1 DEF ShardState
<1>5. sh.ready[d] \in Seq(Item) BY <1>1, <1>3, <1>4
<1>6. Head(sh.ready[d]) \in Item /\ Tail(sh.ready[d]) \in Seq(Item) BY <1>3, <1>5
<1>7. h \in Seq(Item) /\ h = <<Head(sh.ready[d])>> BY <1>1, <1>6
<1>8. r \in [Device -> Seq(Item)] /\ r[d] = Tail(sh.ready[d]) /\ \A e \in Device : e # d => r[e] = sh.ready[e]
  BY <1>1, <1>3, <1>4, <1>6
<1> HIDE DEF h, r
<1>9. q \in ShardState /\ q.left = t.left /\ q.down = t.down /\ q.hand = h /\ q.ready = r /\ q.round = t.round
  BY <1>1, <1>3, <1>7, <1>8 DEF ShardState
<1> HIDE DEF q
<1>10. \A e \in q.round : e # Min(q.round) => q.ready[e] # <<>>
  <2>1. Min(q.round) = d BY <1>9 DEF t
  <2> QED BY <2>1, <1>1, <1>8, <1>9 DEF Ready
<1> QED BY <1>1, <1>2, <1>3, <1>6, <1>7, <1>8, <1>9, <1>10

\* What Handle does, with the names of its LET.
Handled(s, sh, d) ==
  /\ owed' = [owed EXCEPT ![d] = IF @ # <<>> /\ Head(@) = Head(sh.ready[d]) THEN Tail(@) ELSE @]
  /\ \E calls \in Calls(d) : shard' = [shard EXCEPT ![s] = [Taken(sh) EXCEPT !.pc = "handle", !.calls = calls]]

LEMMA HandleIs ==
  ASSUME TypesAndWorkers, NEW s \in Shard, Handle(s)
  PROVE  /\ shard[s] \in ShardState /\ WorkerOK(shard[s]) /\ Ready(shard[s]) # {} /\ shard[s].pc = "poll"
         /\ Handled(s, shard[s], Min(Turn(shard[s]).round))
<1>1. /\ shard[s] \in ShardState /\ WorkerOK(shard[s]) /\ Ready(shard[s]) # {} /\ shard[s].pc = "poll"
  BY DEF TypesAndWorkers, RuntimeTypeOK, WorkersOK, Handle
<1>2. Turn(shard[s]).ready = shard[s].ready BY <1>1, TurnFacts
<1> QED BY <1>1, <1>2 DEF Handle, Handled, Taken

LEMMA CallsAre ==
  ASSUME NEW d, NEW calls \in Calls(d)
  PROVE  calls \in Seq(Timer)
<1>1. PICK n \in 0 .. MaxCalls : calls \in [1 .. n -> {t \in Timer \ (fired \cup cancelled) : DeviceOf[t] = d}]
  BY DEF Calls, BoundedSeq, SeqOf
<1>2. n \in Nat BY RuntimeAssumption
<1> QED BY <1>1, <1>2

\* What the worker is after Handle: its actor handles the message.
LEMMA AfterHandle ==
  ASSUME NEW sh \in ShardState, WorkerOK(sh), Ready(sh) # {}, NEW calls \in Seq(Timer), NEW q,
         q = [Taken(sh) EXCEPT !.pc = "handle", !.calls = calls]
  PROVE  /\ q \in ShardState /\ WorkerOK(q) /\ q.ready = Taken(sh).ready /\ q.down = sh.down
         /\ q.pc = "handle" /\ q.hand = Taken(sh).hand
<1> DEFINE t == Taken(sh)
<1>1. /\ t \in ShardState /\ t.left > 0 /\ t.down = sh.down
      /\ \A e \in t.round : e # Min(t.round) => t.ready[e] # <<>>
      /\ Len(t.hand) = 1
  <2>1. PICK d : d = Min(Turn(sh).round) OBVIOUS
  <2>2. t.hand = <<Head(sh.ready[d])>> BY <2>1, TakenFacts
  <2>3. Len(t.hand) = 1 BY <2>2
  <2> QED BY <2>1, <2>3, TakenFacts
<1>2. q = [t EXCEPT !.pc = "handle", !.calls = calls] OBVIOUS
<1> HIDE DEF t
<1>3. q \in ShardState /\ q.pc = "handle" /\ q.hand = t.hand /\ q.left = t.left /\ q.round = t.round
      /\ q.ready = t.ready /\ q.down = t.down
  BY <1>1, <1>2 DEF ShardState
<1>4. WorkerOK(q) BY <1>1, <1>3 DEF WorkerOK
<1> QED BY <1>1, <1>3, <1>4 DEF t

LEMMA HandleTypes ==
  ASSUME TypesAndWorkers, NEW s \in Shard, Handle(s)
  PROVE  TypesAndWorkers'
<1> USE DEF TypesAndWorkers, RuntimeTypeOK
<1> DEFINE sh == shard[s]
           d == Min(Turn(sh).round)
<1>1. sh \in ShardState /\ WorkerOK(sh) /\ Ready(sh) # {} /\ Handled(s, sh, d) BY HandleIs
<1>2. d \in Device BY <1>1, TakenFacts
<1> HIDE DEF sh, d
<1>3. PICK calls \in Calls(d) : shard' = [shard EXCEPT ![s] = [Taken(sh) EXCEPT !.pc = "handle", !.calls = calls]]
  BY <1>1 DEF Handled
<1> DEFINE q == [Taken(sh) EXCEPT !.pc = "handle", !.calls = calls]
<1>4. q \in ShardState /\ WorkerOK(q) BY <1>1, <1>3, CallsAre, AfterHandle
<1> HIDE DEF q
<1>5. shard' \in [Shard -> ShardState] /\ WorkersOK' BY <1>3, <1>4, OneShard DEF q
<1>6. owed' \in [Device -> Seq(Item)]
  <2>1. owed[d] \in Seq(Item) BY <1>2 DEF QueueTypes
  <2>2. owed[d] # <<>> => Tail(owed[d]) \in Seq(Item) BY <2>1
  <2>3. \E o \in Seq(Item) : owed' = [owed EXCEPT ![d] = o] BY <1>1, <2>1, <2>2 DEF Handled
  <2> QED BY <2>3 DEF QueueTypes
<1> QED BY <1>5, <1>6 DEF Handle, QueueTypes, CallerTypes, WheelTypes, wheelVars, stopVars, callVars

\* What Command does, with the name of its LET.
Commanded(t) ==
  \/ UNCHANGED <<commands, issued>>
  \/ /\ commands' = Append(commands, [t |-> t, cancel |-> t \in issued])
     /\ issued' = issued \cup {t}

LEMMA CommandFacts ==
  ASSUME TypesAndWorkers, NEW s \in Shard, Command(s)
  PROVE  /\ \E t \in Timer : Commanded(t)
         /\ \E q \in ShardState :
              /\ shard' = [shard EXCEPT ![s] = q] /\ WorkerOK(q) /\ q.pc = "handle"
              /\ q.ready = shard[s].ready /\ q.down = shard[s].down /\ q.hand = shard[s].hand
<1>1. PICK p : p = shard[s] OBVIOUS
<1>2. p \in ShardState /\ WorkerOK(p) /\ p.pc = "handle" /\ p.calls # <<>>
  BY <1>1 DEF TypesAndWorkers, RuntimeTypeOK, WorkersOK, Command
<1>3. p.calls \in Seq(Timer) BY <1>2 DEF ShardState
<1>4. Head(p.calls) \in Timer /\ Tail(p.calls) \in Seq(Timer) BY <1>2, <1>3
<1>5. Commanded(Head(p.calls)) BY <1>1 DEF Command, Commanded
<1>6. PICK c \in Seq(Timer) : c = Tail(p.calls) BY <1>4
<1>7. shard' = [shard EXCEPT ![s] = [p EXCEPT !.calls = c]] BY <1>1, <1>6 DEF Command
<1> DEFINE q == [p EXCEPT !.calls = c]
<1>8. q \in ShardState /\ q.pc = p.pc /\ q.ready = p.ready /\ q.down = p.down /\ q.hand = p.hand
      /\ q.round = p.round /\ q.left = p.left
  BY <1>2 DEF ShardState
<1>9. shard' = [shard EXCEPT ![s] = q] BY <1>7
<1> HIDE DEF q
<1>10. WorkerOK(q) BY <1>2, <1>8 DEF WorkerOK
<1> QED BY <1>1, <1>2, <1>4, <1>5, <1>8, <1>9, <1>10

LEMMA CommandTypes ==
  ASSUME TypesAndWorkers, NEW s \in Shard, Command(s)
  PROVE  TypesAndWorkers'
<1> USE DEF TypesAndWorkers, RuntimeTypeOK
<1>1. PICK q \in ShardState : shard' = [shard EXCEPT ![s] = q] /\ WorkerOK(q) BY CommandFacts
<1>2. shard' \in [Shard -> ShardState] /\ WorkersOK' BY <1>1, OneShard
<1>3. PICK t \in Timer : Commanded(t) BY CommandFacts
<1>4. [t |-> t, cancel |-> t \in issued] \in CommandSet BY DEF CommandSet
<1>5. commands' \in Seq(CommandSet) /\ issued' \in SUBSET Timer BY <1>3, <1>4 DEF WheelTypes, Commanded
<1> QED BY <1>2, <1>5 DEF Command, QueueTypes, CallerTypes, WheelTypes, stopVars, callVars

\* What CreateFails does, with the names of its LET.
Failed(sh) ==
  LET t == Turn(sh)
      d == Min(t.round)
  IN  [t EXCEPT !.ready[d] = <<>>, !.round = @ \ {d}, !.streak = 0]

CreateFailed(s, sh, d) ==
  /\ shard' = [shard EXCEPT ![s] = Failed(sh)]
  /\ owed' = [owed EXCEPT ![d] = SubSeq(@, Len(sh.ready[d]) + 1, Len(@))]
  /\ orphan' = orphan \cup Orphans(Range(sh.ready[d]))

LEMMA CreateFailsIs ==
  ASSUME TypesAndWorkers, NEW s \in Shard, CreateFails(s)
  PROVE  /\ shard[s] \in ShardState /\ WorkerOK(shard[s]) /\ Ready(shard[s]) # {} /\ shard[s].pc = "poll"
         /\ CreateFailed(s, shard[s], Min(Turn(shard[s]).round))
<1>1. /\ shard[s] \in ShardState /\ WorkerOK(shard[s]) /\ Ready(shard[s]) # {} /\ shard[s].pc = "poll"
  BY DEF TypesAndWorkers, RuntimeTypeOK, WorkersOK, CreateFails
<1>2. Turn(shard[s]).ready = shard[s].ready BY <1>1, TurnFacts
<1> QED BY <1>1, <1>2 DEF CreateFails, CreateFailed, Failed

LEMMA FailedFacts ==
  ASSUME NEW sh \in ShardState, WorkerOK(sh), Ready(sh) # {}, sh.pc = "poll", NEW d, d = Min(Turn(sh).round)
  PROVE  /\ d \in Device /\ Failed(sh) \in ShardState /\ WorkerOK(Failed(sh))
         /\ Failed(sh).down = sh.down /\ Failed(sh).hand = sh.hand /\ Failed(sh).pc = "poll"
         /\ Failed(sh).ready[d] = <<>>
         /\ \A e \in Device : e # d => Failed(sh).ready[e] = sh.ready[e]
<1> DEFINE t == Turn(sh)
           n == <<>>
           r == [t.ready EXCEPT ![d] = n]
           o == t.round \ {d}
           q == [t EXCEPT !.ready = r, !.round = o, !.streak = 0]
<1>1. /\ t \in ShardState /\ t.ready = sh.ready /\ t.down = sh.down /\ t.hand = sh.hand /\ t.pc = sh.pc
      /\ t.round \subseteq Ready(sh) /\ d \in t.round
  BY TurnFacts
<1>2. Failed(sh) = q BY DEF Failed
<1> HIDE DEF t
<1>3. d \in Device BY <1>1 DEF Ready
<1>4. t.ready \in [Device -> Seq(Item)] /\ t.round \subseteq Device BY <1>1 DEF ShardState
<1>5. n \in Seq(Item) OBVIOUS
<1> HIDE DEF n
<1>6. r \in [Device -> Seq(Item)] /\ r[d] = n /\ \A e \in Device : e # d => r[e] = sh.ready[e]
  BY <1>1, <1>3, <1>4, <1>5
<1>7. o \in SUBSET Device BY <1>4
<1>8. o \subseteq Ready(sh) \ {d} BY <1>1
<1> HIDE DEF r, o
<1>9. q \in ShardState /\ q.down = t.down /\ q.hand = t.hand /\ q.pc = t.pc /\ q.ready = r /\ q.round = o
  BY <1>1, <1>6, <1>7 DEF ShardState
<1> HIDE DEF q
<1>10. \A e \in q.round : q.ready[e] # <<>> BY <1>6, <1>8, <1>9 DEF Ready
<1>11. WorkerOK(q) BY <1>1, <1>9, <1>10 DEF WorkerOK
<1> QED BY <1>1, <1>2, <1>3, <1>6, <1>9, <1>11 DEF n

LEMMA CreateFailsTypes ==
  ASSUME TypesAndWorkers, NEW s \in Shard, CreateFails(s)
  PROVE  TypesAndWorkers'
<1> USE DEF TypesAndWorkers, RuntimeTypeOK
<1> DEFINE sh == shard[s]
           d == Min(Turn(sh).round)
<1>1. sh \in ShardState /\ WorkerOK(sh) /\ Ready(sh) # {} /\ sh.pc = "poll" /\ CreateFailed(s, sh, d)
  BY CreateFailsIs
<1>2. d \in Device /\ Failed(sh) \in ShardState /\ WorkerOK(Failed(sh)) BY <1>1, FailedFacts
<1> HIDE DEF d
<1>3. shard' \in [Shard -> ShardState] /\ WorkersOK' BY <1>1, <1>2, OneShard DEF CreateFailed
<1>4. owed' \in [Device -> Seq(Item)]
  <2> DEFINE k == Len(sh.ready[d])
             o == SubSeq(owed[d], k + 1, Len(owed[d]))
  <2>1. owed[d] \in Seq(Item) /\ sh.ready[d] \in Seq(Item) BY <1>1, <1>2 DEF QueueTypes, ShardState
  <2>2. k \in Nat BY <2>1
  <2>3. owed' = [owed EXCEPT ![d] = o] BY <1>1 DEF CreateFailed
  <2> HIDE DEF k
  <2>4. o \in Seq(Item) BY <2>1, <2>2
  <2> HIDE DEF o
  <2> QED BY <1>2, <2>3, <2>4 DEF QueueTypes
<1> QED BY <1>3, <1>4
  DEF CreateFails, QueueTypes, CallerTypes, WheelTypes, wheelVars, stopVars, callVars

LEMMA FinishedFacts ==
  ASSUME NEW t \in ShardState, WorkerOK(t), t.pc \in {"handle", "output"}
  PROVE  /\ Finished(t) \in ShardState /\ WorkerOK(Finished(t))
         /\ Finished(t).ready = t.ready /\ Finished(t).down = t.down
         /\ Finished(t).pc = "poll" /\ Finished(t).hand = <<>>
         /\ t.hand \in Seq(Item) /\ Len(t.hand) = 1 /\ Head(t.hand) \in Item
<1> DEFINE a == t.left - 1
           b == t.streak + 1
           e == <<>>
           q == [t EXCEPT !.pc = "poll", !.left = a, !.streak = b, !.hand = e]
<1>1. Finished(t) = q BY DEF Finished
<1>2. t.left \in Nat /\ t.streak \in Nat /\ t.left > 0 /\ t.hand \in Seq(Item) /\ Len(t.hand) = 1
  BY DEF ShardState, WorkerOK
<1>3. a \in Nat /\ b \in Nat /\ e \in Seq(Item) /\ Head(t.hand) \in Item BY <1>2
<1> HIDE DEF a, b, e
<1>4. q \in ShardState /\ q.pc = "poll" /\ q.hand = e /\ q.round = t.round /\ q.ready = t.ready /\ q.down = t.down
  BY <1>3 DEF ShardState
<1>5. e = <<>> BY DEF e
<1> HIDE DEF q
<1>6. WorkerOK(q) BY <1>4, <1>5 DEF WorkerOK
<1> QED BY <1>1, <1>2, <1>3, <1>4, <1>5, <1>6

LEMMA EmitFacts ==
  ASSUME TypesAndWorkers, NEW s \in Shard, Emit(s)
  PROVE  /\ Finished(shard[s]) \in ShardState /\ WorkerOK(Finished(shard[s]))
         /\ Finished(shard[s]).ready = shard[s].ready /\ Finished(shard[s]).down = shard[s].down
         /\ Finished(shard[s]).pc = "poll" /\ Finished(shard[s]).hand = <<>>
         /\ shard[s].hand \in Seq(Item) /\ Len(shard[s].hand) = 1 /\ Head(shard[s].hand) \in Item
<1>1. shard[s] \in ShardState /\ WorkerOK(shard[s]) /\ shard[s].pc = "output"
  BY DEF TypesAndWorkers, RuntimeTypeOK, WorkersOK, Emit
<1> QED BY <1>1, FinishedFacts

\* What the worker is after Return: waiting for room in the output with what it has in
\* hand, or done with it.
LEMMA ReturnFacts ==
  ASSUME TypesAndWorkers, NEW s \in Shard, Return(s)
  PROVE  \E q \in ShardState :
           /\ shard' = [shard EXCEPT ![s] = q] /\ WorkerOK(q) /\ q.pc # "stopped"
           /\ q.ready = shard[s].ready /\ q.down = shard[s].down
           /\ \/ q.hand = shard[s].hand /\ UNCHANGED orphan
              \/ orphan' = orphan \cup Orphans(Range(shard[s].hand))
<1>1. PICK p : p = shard[s] OBVIOUS
<1>2. p \in ShardState /\ WorkerOK(p) /\ p.pc = "handle"
  BY <1>1 DEF TypesAndWorkers, RuntimeTypeOK, WorkersOK, Return
<1>3. CASE shard' = [shard EXCEPT ![s] = Finished(p)] /\ orphan' = orphan \cup Orphans(Range(p.hand))
  BY <1>1, <1>2, <1>3, FinishedFacts
<1>4. CASE shard' = [shard EXCEPT ![s] = [p EXCEPT !.pc = "output"]] /\ UNCHANGED orphan
  <2> DEFINE q == [p EXCEPT !.pc = "output"]
  <2>1. q \in ShardState /\ q.pc = "output" /\ q.ready = p.ready /\ q.down = p.down /\ q.hand = p.hand
        /\ q.round = p.round /\ q.left = p.left
    BY <1>2 DEF ShardState
  <2>2. shard' = [shard EXCEPT ![s] = q] BY <1>4
  <2> HIDE DEF q
  <2>3. WorkerOK(q) BY <1>2, <2>1 DEF WorkerOK
  <2> QED BY <1>1, <1>4, <2>1, <2>2, <2>3
<1> QED BY <1>1, <1>3, <1>4 DEF Return

LEMMA ReturnTypes ==
  ASSUME TypesAndWorkers, NEW s \in Shard, Return(s)
  PROVE  TypesAndWorkers'
<1> USE DEF TypesAndWorkers, RuntimeTypeOK
<1>1. PICK q \in ShardState : shard' = [shard EXCEPT ![s] = q] /\ WorkerOK(q) BY ReturnFacts
<1>2. shard' \in [Shard -> ShardState] /\ WorkersOK' BY <1>1, OneShard
<1> QED BY <1>2 DEF Return, QueueTypes, CallerTypes, WheelTypes, wheelVars, stopVars, callVars

LEMMA EmitTypes ==
  ASSUME TypesAndWorkers, NEW s \in Shard, Emit(s)
  PROVE  TypesAndWorkers'
<1>1. /\ Finished(shard[s]) \in ShardState /\ WorkerOK(Finished(shard[s]))
      /\ Head(shard[s].hand) \in Item
  BY EmitFacts
<1> USE DEF TypesAndWorkers, RuntimeTypeOK
<1>2. shard' = [shard EXCEPT ![s] = Finished(shard[s])] BY DEF Emit
<1>3. shard' \in [Shard -> ShardState] /\ WorkersOK' BY <1>1, <1>2, OneShard
<1>4. output' \in Seq(Mail) BY <1>1 DEF Emit, QueueTypes, Mail
<1> QED BY <1>3, <1>4 DEF Emit, QueueTypes, CallerTypes, WheelTypes, wheelVars, stopVars, callVars

\* What EvictIdle leaves: the queues are as before, and empty.
LEMMA EvictFacts ==
  ASSUME TypesAndWorkers, NEW s \in Shard, EvictIdle(s)
  PROVE  \E q \in ShardState :
           /\ shard' = [shard EXCEPT ![s] = q] /\ WorkerOK(q)
           /\ q.ready = shard[s].ready /\ q.down = shard[s].down /\ q.hand = shard[s].hand
           /\ q.pc \in {"closing", "recv"}
<1> DEFINE t == shard[s]
<1>1. t \in ShardState /\ WorkerOK(t) /\ t.pc = "poll" /\ Ready(t) = {}
  BY DEF TypesAndWorkers, RuntimeTypeOK, WorkersOK, EvictIdle
<1>2. PICK idle \in SUBSET t.actors :
        shard' = [shard EXCEPT ![s].pc = IF shard[s].down THEN "closing" ELSE "recv",
                               ![s].actors = @ \ idle,
                               ![s].round = {}, ![s].left = MaxPoll, ![s].streak = 0]
  BY DEF EvictIdle
<1> DEFINE pc == IF t.down THEN "closing" ELSE "recv"
           q == [t EXCEPT !.pc = pc, !.actors = @ \ idle, !.round = {}, !.left = MaxPoll, !.streak = 0]
<1>3. shard' = [shard EXCEPT ![s] = q] BY <1>2 DEF TypesAndWorkers, RuntimeTypeOK
<1> HIDE DEF t
<1>4. q \in ShardState BY <1>1, Numbers DEF ShardState
<1>5. q.ready = t.ready /\ q.down = t.down /\ q.hand = t.hand /\ q.pc = pc /\ q.round = {} BY <1>1 DEF ShardState
<1> HIDE DEF q
<1>6. \A d \in Device : t.ready[d] = <<>> BY <1>1 DEF Ready
<1>7. pc \in {"closing", "recv"} /\ (pc = "closing" => t.down) OBVIOUS
<1> HIDE DEF pc
<1>8. WorkerOK(q) BY <1>1, <1>5, <1>6, <1>7 DEF WorkerOK
<1> QED BY <1>3, <1>4, <1>5, <1>7, <1>8 DEF t

LEMMA EvictIdleTypes ==
  ASSUME TypesAndWorkers, NEW s \in Shard, EvictIdle(s)
  PROVE  TypesAndWorkers'
<1>1. PICK q \in ShardState : shard' = [shard EXCEPT ![s] = q] /\ WorkerOK(q) BY EvictFacts
<1> USE DEF TypesAndWorkers, RuntimeTypeOK
<1>2. shard' \in [Shard -> ShardState] /\ WorkersOK' BY <1>1, OneShard
<1> QED BY <1>2 DEF EvictIdle, QueueTypes, CallerTypes, WheelTypes, wheelVars, stopVars, callVars

LEMMA ShutdownActorFacts ==
  ASSUME TypesAndWorkers, NEW s \in Shard, ShutdownActor(s)
  PROVE  \E q \in ShardState :
           /\ shard' = [shard EXCEPT ![s] = q] /\ WorkerOK(q)
           /\ q.ready = shard[s].ready /\ q.down = shard[s].down /\ q.hand = shard[s].hand
           /\ q.pc = shard[s].pc
<1> DEFINE t == shard[s]
           a == t.actors \ {Min(t.actors)}
           q == [t EXCEPT !.actors = a]
<1>1. t \in ShardState /\ WorkerOK(t) BY DEF TypesAndWorkers, RuntimeTypeOK, WorkersOK
<1>2. shard' = [shard EXCEPT ![s] = q] BY DEF ShutdownActor, TypesAndWorkers, RuntimeTypeOK
<1> HIDE DEF t
<1>3. a \in SUBSET Device BY <1>1 DEF ShardState
<1> HIDE DEF a
<1>4. /\ q \in ShardState /\ q.ready = t.ready /\ q.down = t.down /\ q.hand = t.hand /\ q.pc = t.pc
      /\ q.round = t.round /\ q.left = t.left
  BY <1>1, <1>3 DEF ShardState
<1> HIDE DEF q
<1>5. WorkerOK(q) BY <1>1, <1>4 DEF WorkerOK
<1> QED BY <1>2, <1>4, <1>5 DEF t

LEMMA ShutdownActorTypes ==
  ASSUME TypesAndWorkers, NEW s \in Shard, ShutdownActor(s)
  PROVE  TypesAndWorkers'
<1>1. PICK q \in ShardState : shard' = [shard EXCEPT ![s] = q] /\ WorkerOK(q) BY ShutdownActorFacts
<1> USE DEF TypesAndWorkers, RuntimeTypeOK
<1>2. shard' \in [Shard -> ShardState] /\ WorkersOK' BY <1>1, OneShard
<1>3. output' \in Seq(Mail)
  <2>1. output' = output \/ output' = Append(output, Shutdown) BY DEF ShutdownActor
  <2>2. Shutdown \in Mail /\ output \in Seq(Mail) BY DEF Mail, QueueTypes
  <2> QED BY <2>1, <2>2
<1> QED BY <1>2, <1>3 DEF ShutdownActor, QueueTypes, CallerTypes, WheelTypes, wheelVars, stopVars, callVars

LEMMA NewShardFacts ==
  /\ NewShard \in ShardState /\ WorkerOK(NewShard) /\ [NewShard EXCEPT !.pc = "stopped"] \in ShardState
  /\ WorkerOK([NewShard EXCEPT !.pc = "stopped"])
  /\ [NewShard EXCEPT !.pc = "stopped"].pc = "stopped"
  /\ NewShard.pc = "recv" /\ NewShard.ready = [d \in Device |-> <<>>] /\ NewShard.down = FALSE
<1> DEFINE q == [NewShard EXCEPT !.pc = "stopped"]
           e == <<>>
           r == [d \in Device |-> e]
<1>1. e \in Seq(Item) /\ e \in Seq(Timer) OBVIOUS
<1>2. NewShard = [pc |-> "recv", ready |-> r, round |-> {}, left |-> MaxPoll,
                  streak |-> 0, hand |-> e, calls |-> e, actors |-> {}, down |-> FALSE]
  BY DEF NewShard
<1> HIDE DEF e
<1>3. r \in [Device -> Seq(Item)] BY <1>1
<1> HIDE DEF r
<1>4. NewShard \in ShardState BY <1>1, <1>2, <1>3, Numbers DEF ShardState
<1>5. q \in ShardState BY <1>4 DEF ShardState
<1>6. NewShard.pc = "recv" /\ NewShard.hand = e /\ NewShard.round = {} /\ NewShard.ready = r /\ NewShard.down = FALSE
  BY <1>2
<1>7. q.pc = "stopped" /\ q.hand = e /\ q.round = {} BY <1>4, <1>6 DEF ShardState
<1> HIDE DEF q
<1>8. WorkerOK(NewShard) BY <1>6 DEF WorkerOK, e
<1>9. WorkerOK(q) BY <1>7 DEF WorkerOK, e
<1> QED BY <1>4, <1>5, <1>6, <1>7, <1>8, <1>9 DEF q, r, e

LEMMA ExitTypes ==
  ASSUME TypesAndWorkers, NEW s \in Shard, Exit(s)
  PROVE  TypesAndWorkers'
<1> USE DEF TypesAndWorkers, RuntimeTypeOK
<1> DEFINE q == [NewShard EXCEPT !.pc = "stopped"]
<1>1. q \in ShardState /\ WorkerOK(q) BY NewShardFacts
<1>2. shard' = [shard EXCEPT ![s] = q] BY DEF Exit
<1> HIDE DEF q
<1>3. shard' \in [Shard -> ShardState] /\ WorkersOK' BY <1>1, <1>2, OneShard
<1>4. mailbox' \in [Shard -> Seq(Mail)]
  <2>1. <<>> \in Seq(Mail) OBVIOUS
  <2> QED BY <2>1 DEF Exit, QueueTypes
<1> QED BY <1>3, <1>4 DEF Exit, QueueTypes, CallerTypes, WheelTypes, wheelVars, stopVars, callVars

LEMMA ScheduleFacts ==
  ASSUME NEW w \in WheelState, NEW t \in Timer
  PROVE  /\ Schedule(w, t) \in WheelState /\ Schedule(w, t).set = w.set \cup {t}
         /\ Schedule(w, t).pending = w.pending /\ Schedule(w, t).rest = w.rest /\ Schedule(w, t).pc = w.pc
BY DEF Schedule, WheelState

LEMMA CancelFacts ==
  ASSUME NEW w \in WheelState, NEW t \in Timer
  PROVE  /\ Cancel(w, t) \in WheelState /\ Cancel(w, t).set = w.set \ {t}
         /\ Cancel(w, t).pending = EnforceLimit(Keep(w.pending, Timer \ {t}))
         /\ Cancel(w, t).rest = w.rest /\ Cancel(w, t).pc = w.pc
<1> DEFINE k == Keep(w.pending, Timer \ {t})
           p == EnforceLimit(k)
<1>1. w.pending \in Seq(Timer) BY DEF WheelState
<1>2. k \in Seq(Timer) BY <1>1, OccursKeep
<1>3. Cancel(w, t) = [w EXCEPT !.set = @ \ {t}, !.pending = p] BY DEF Cancel
<1> HIDE DEF k
<1>4. p \in Seq(Timer) BY <1>2, OccursLimit
<1> HIDE DEF p
<1>5. /\ Cancel(w, t) \in WheelState /\ Cancel(w, t).set = w.set \ {t} /\ Cancel(w, t).pending = p
      /\ Cancel(w, t).rest = w.rest /\ Cancel(w, t).pc = w.pc
  BY <1>3, <1>4 DEF WheelState
<1> QED BY <1>5 DEF p, k

LEMMA CommandHead ==
  ASSUME WheelTypes, commands # <<>>
  PROVE  /\ Head(commands) \in CommandSet /\ Head(commands).t \in Timer /\ Tail(commands) \in Seq(CommandSet)
         /\ Head(commands).cancel \in BOOLEAN
<1>1. Head(commands) \in CommandSet /\ Tail(commands) \in Seq(CommandSet) BY DEF WheelTypes
<1> QED BY <1>1 DEF CommandSet

LEMMA WheelCommandTypes ==
  ASSUME TypesAndWorkers, WheelCommand
  PROVE  TypesAndWorkers'
<1> USE DEF TypesAndWorkers, RuntimeTypeOK
<1>1. Head(commands).t \in Timer /\ Tail(commands) \in Seq(CommandSet) BY CommandHead DEF WheelCommand
<1>2. wheel \in WheelState BY DEF WheelTypes
<1>3. wheel' \in WheelState
  <2>1. wheel' = Cancel(wheel, Head(commands).t) \/ wheel' = Schedule(wheel, Head(commands).t) BY DEF WheelCommand
  <2>2. PICK t \in Timer : t = Head(commands).t BY <1>1
  <2>3. Cancel(wheel, t) \in WheelState /\ Schedule(wheel, t) \in WheelState BY <1>2, CancelFacts, ScheduleFacts
  <2> QED BY <2>1, <2>2, <2>3
<1>4. cancelled' \in SUBSET Timer BY <1>1 DEF WheelCommand, WheelTypes
<1>5. commands' \in Seq(CommandSet) BY <1>1 DEF WheelCommand
<1> QED BY <1>3, <1>4, <1>5
  DEF WheelCommand, QueueTypes, CallerTypes, WheelTypes, shardVars, stopVars, callVars, WorkersOK

\* What becomes of a timer that left the wheel.
LEMMA DispatchTypes ==
  ASSUME QueueTypes, WheelTypes, NEW t \in Timer, NEW w \in WheelState, NEW p \in Seq(Timer), Dispatch(t, w, p)
  PROVE  /\ wheel' \in WheelState /\ fired' \in SUBSET Timer
         /\ mailbox' \in [Shard -> Seq(Mail)] /\ owed' \in [Device -> Seq(Item)]
<1>1. t \in Item BY DEF Item
<1>2. [w EXCEPT !.pending = p] \in WheelState BY DEF WheelState
<1>3. CASE Put(t) /\ wheel' = w /\ fired' = fired \cup {t} BY <1>1, <1>3, PutFacts DEF WheelTypes
<1>4. CASE (wheel' = w \/ wheel' = [w EXCEPT !.pending = p]) /\ UNCHANGED <<mailbox, owed, fired>>
  BY <1>2, <1>4 DEF QueueTypes, WheelTypes
<1> QED BY <1>3, <1>4 DEF Dispatch

\* The wheel without a timer that is due.
LEMMA ExpiredWheel ==
  ASSUME WheelTypes, NEW t \in wheel.set
  PROVE  LET w == [wheel EXCEPT !.pc = "expire", !.set = @ \ {t}] IN
         /\ t \in Timer /\ w \in WheelState /\ EnforceLimit(Append(wheel.pending, t)) \in Seq(Timer)
         /\ w.set = wheel.set \ {t} /\ w.pending = wheel.pending /\ w.rest = wheel.rest /\ w.pc = "expire"
<1> DEFINE w == [wheel EXCEPT !.pc = "expire", !.set = @ \ {t}]
<1>1. wheel \in WheelState BY DEF WheelTypes
<1>2. t \in Timer /\ wheel.pending \in Seq(Timer) BY <1>1 DEF WheelState
<1>3. Append(wheel.pending, t) \in Seq(Timer) BY <1>2
<1>4. EnforceLimit(Append(wheel.pending, t)) \in Seq(Timer) BY <1>3, OccursLimit
<1>5. w \in WheelState /\ w.set = wheel.set \ {t} /\ w.pending = wheel.pending /\ w.rest = wheel.rest /\ w.pc = "expire"
  BY <1>1 DEF WheelState
<1> QED BY <1>2, <1>4, <1>5

LEMMA ExpireTypes ==
  ASSUME TypesAndWorkers, Expire
  PROVE  TypesAndWorkers'
<1> USE DEF TypesAndWorkers, RuntimeTypeOK
<1>1. PICK t \in wheel.set :
        Dispatch(t, [wheel EXCEPT !.pc = "expire", !.set = @ \ {t}], EnforceLimit(Append(wheel.pending, t)))
  BY DEF Expire
<1> DEFINE w == [wheel EXCEPT !.pc = "expire", !.set = @ \ {t}]
           p == EnforceLimit(Append(wheel.pending, t))
<1>2. t \in Timer /\ w \in WheelState /\ p \in Seq(Timer) BY ExpiredWheel
<1>3. Dispatch(t, w, p) BY <1>1
<1> HIDE DEF w, p
<1>4. /\ wheel' \in WheelState /\ fired' \in SUBSET Timer
      /\ mailbox' \in [Shard -> Seq(Mail)] /\ owed' \in [Device -> Seq(Item)]
  BY <1>2, <1>3, DispatchTypes
<1> QED BY <1>4 DEF Expire, QueueTypes, CallerTypes, WheelTypes, stopVars, callVars, WorkersOK

LEMMA TakePendingFacts ==
  ASSUME WheelTypes, TakePending
  PROVE  /\ wheel' \in WheelState /\ wheel'.set = wheel.set /\ wheel'.pending = <<>>
         /\ wheel'.rest = wheel.pending /\ wheel'.pc = "retry"
<1> DEFINE e == <<>>
<1>1. wheel \in WheelState BY DEF WheelTypes
<1>2. wheel.pending \in Seq(Timer) /\ e \in Seq(Timer) BY <1>1 DEF WheelState
<1>3. wheel' = [wheel EXCEPT !.pc = "retry", !.rest = wheel.pending, !.pending = e] BY DEF TakePending
<1> HIDE DEF e
<1>4. /\ wheel' \in WheelState /\ wheel'.set = wheel.set /\ wheel'.pending = e
      /\ wheel'.rest = wheel.pending /\ wheel'.pc = "retry"
  BY <1>1, <1>2, <1>3 DEF WheelState
<1> QED BY <1>4 DEF e

LEMMA TakePendingTypes ==
  ASSUME TypesAndWorkers, TakePending
  PROVE  TypesAndWorkers'
<1> USE DEF TypesAndWorkers, RuntimeTypeOK
<1>1. wheel' \in WheelState BY TakePendingFacts
<1> QED BY <1>1 DEF TakePending, QueueTypes, CallerTypes, WheelTypes, shardVars, stopVars, callVars, WorkersOK

\* The wheel without the next timer that waited for room.
LEMMA RetriedWheel ==
  ASSUME WheelTypes, wheel.rest # <<>>
  PROVE  LET w == [wheel EXCEPT !.rest = Tail(@)] IN
         /\ Head(wheel.rest) \in Timer /\ w \in WheelState
         /\ Append(wheel.pending, Head(wheel.rest)) \in Seq(Timer)
         /\ w.set = wheel.set /\ w.pending = wheel.pending /\ w.rest = Tail(wheel.rest) /\ w.pc = wheel.pc
<1> DEFINE t == Tail(wheel.rest)
           w == [wheel EXCEPT !.rest = t]
<1>1. wheel \in WheelState BY DEF WheelTypes
<1>2. wheel.rest \in Seq(Timer) /\ wheel.pending \in Seq(Timer) BY <1>1 DEF WheelState
<1>3. Head(wheel.rest) \in Timer /\ t \in Seq(Timer) BY <1>2
<1>4. Append(wheel.pending, Head(wheel.rest)) \in Seq(Timer) BY <1>2, <1>3
<1> HIDE DEF t
<1>5. w \in WheelState /\ w.set = wheel.set /\ w.pending = wheel.pending /\ w.rest = t /\ w.pc = wheel.pc
  BY <1>1, <1>3 DEF WheelState
<1> QED BY <1>3, <1>4, <1>5 DEF t

LEMMA RetryPendingTypes ==
  ASSUME TypesAndWorkers, RetryPending
  PROVE  TypesAndWorkers'
<1> USE DEF TypesAndWorkers, RuntimeTypeOK
<1> DEFINE t == Head(wheel.rest)
           w == [wheel EXCEPT !.rest = Tail(@)]
           p == Append(wheel.pending, t)
<1>1. Dispatch(t, w, p) /\ wheel.rest # <<>> BY DEF RetryPending
<1>2. t \in Timer /\ w \in WheelState /\ p \in Seq(Timer) BY <1>1, RetriedWheel
<1> HIDE DEF t, w, p
<1>3. /\ wheel' \in WheelState /\ fired' \in SUBSET Timer
      /\ mailbox' \in [Shard -> Seq(Mail)] /\ owed' \in [Device -> Seq(Item)]
  BY <1>1, <1>2, DispatchTypes
<1> QED BY <1>3 DEF RetryPending, QueueTypes, CallerTypes, WheelTypes, stopVars, callVars, WorkersOK

LEMMA TickDoneFacts ==
  ASSUME WheelTypes, TickDone
  PROVE  /\ wheel' \in WheelState /\ wheel'.set = wheel.set /\ wheel'.pending = EnforceLimit(wheel.pending)
         /\ wheel'.rest = <<>> /\ wheel.rest = <<>> /\ wheel'.pc = "select"
<1> DEFINE p == EnforceLimit(wheel.pending)
<1>1. wheel \in WheelState /\ wheel.rest = <<>> BY DEF WheelTypes, TickDone
<1>2. wheel.pending \in Seq(Timer) BY <1>1 DEF WheelState
<1>3. p \in Seq(Timer) BY <1>2, OccursLimit
<1>4. wheel' = [wheel EXCEPT !.pc = "select", !.pending = p] BY DEF TickDone
<1> HIDE DEF p
<1>5. wheel' \in WheelState /\ wheel'.set = wheel.set /\ wheel'.pending = p /\ wheel'.rest = wheel.rest /\ wheel'.pc = "select"
  BY <1>1, <1>3, <1>4 DEF WheelState
<1> QED BY <1>1, <1>5 DEF p

LEMMA TickDoneTypes ==
  ASSUME TypesAndWorkers, TickDone
  PROVE  TypesAndWorkers'
<1> USE DEF TypesAndWorkers, RuntimeTypeOK
<1>1. wheel' \in WheelState BY TickDoneFacts
<1> QED BY <1>1 DEF TickDone, QueueTypes, CallerTypes, WheelTypes, shardVars, stopVars, callVars, WorkersOK

LEMMA SendShutdownFacts ==
  ASSUME TypesAndWorkers, SendShutdown
  PROVE  \E s \in Shard :
           /\ \/ UNCHANGED mailbox
              \/ ~Stopped(s) /\ mailbox' = [mailbox EXCEPT ![s] = Append(@, Shutdown)]
           /\ untold' \in SUBSET Shard
<1> DEFINE s == Min(untold)
<1>1. untold \in SUBSET Shard /\ untold # {} BY DEF TypesAndWorkers, RuntimeTypeOK, SendShutdown
<1>2. untold \in SUBSET Nat BY <1>1, Numbers
<1>3. s \in Shard BY <1>1, <1>2, MinIn
<1> HIDE DEF s
<1>4. /\ \/ UNCHANGED mailbox
         \/ ~Stopped(s) /\ mailbox' = [mailbox EXCEPT ![s] = Append(@, Shutdown)]
      /\ untold' \in SUBSET Shard
  BY <1>1 DEF SendShutdown, s
<1> QED BY <1>3, <1>4

LEMMA SendShutdownTypes ==
  ASSUME TypesAndWorkers, SendShutdown
  PROVE  TypesAndWorkers'
<1>1. PICK s \in Shard :
        /\ UNCHANGED mailbox \/ mailbox' = [mailbox EXCEPT ![s] = Append(@, Shutdown)]
        /\ untold' \in SUBSET Shard
  BY SendShutdownFacts
<1> USE DEF TypesAndWorkers, RuntimeTypeOK
<1>2. mailbox \in [Shard -> Seq(Mail)] /\ Shutdown \in Mail BY DEF QueueTypes, Mail
<1>3. Append(mailbox[s], Shutdown) \in Seq(Mail) BY <1>2
<1>4. mailbox' \in [Shard -> Seq(Mail)] BY <1>1, <1>2, <1>3
<1> QED BY <1>1, <1>4 DEF SendShutdown, QueueTypes, CallerTypes, WheelTypes, wheelVars, callVars, WorkersOK

LEMMA StopWheelFacts ==
  ASSUME StopWheel
  PROVE  /\ wheel' \in WheelState /\ wheel'.set = {} /\ wheel'.pending = <<>> /\ wheel'.rest = <<>>
         /\ wheel'.pc = "select" /\ commands' = <<>>
<1> DEFINE e == <<>>
<1>1. wheel' = [[up |-> TRUE, pc |-> "select", set |-> {}, pending |-> e, rest |-> e] EXCEPT !.up = FALSE]
  BY DEF StopWheel, EmptyWheel
<1>2. e \in Seq(Timer) OBVIOUS
<1>3. commands' = <<>> BY DEF StopWheel
<1> HIDE DEF e
<1>4. wheel' = [up |-> FALSE, pc |-> "select", set |-> {}, pending |-> e, rest |-> e] BY <1>1
<1>5. wheel' \in WheelState /\ wheel'.set = {} /\ wheel'.pending = e /\ wheel'.rest = e /\ wheel'.pc = "select"
  BY <1>2, <1>4 DEF WheelState
<1> QED BY <1>3, <1>5 DEF e

LEMMA StopTypes ==
  ASSUME TypesAndWorkers, Drain \/ StopWheel \/ StopAgain
  PROVE  TypesAndWorkers'
<1> USE DEF TypesAndWorkers, RuntimeTypeOK
<1>1. CASE Drain BY <1>1
  DEF Drain, QueueTypes, CallerTypes, WheelTypes, shardVars, wheelVars, stopVars, callVars, WorkersOK
<1>2. CASE StopWheel
  <2>1. wheel' \in WheelState /\ commands' = <<>> BY <1>2, StopWheelFacts
  <2>2. commands' \in Seq(CommandSet) BY <2>1
  <2> QED BY <1>2, <2>1, <2>2
    DEF StopWheel, QueueTypes, CallerTypes, WheelTypes, shardVars, stopVars, callVars, WorkersOK
<1>3. CASE StopAgain BY <1>3
  DEF StopAgain, QueueTypes, CallerTypes, WheelTypes, shardVars, wheelVars, stopVars, callVars, WorkersOK
<1> QED BY <1>1, <1>2, <1>3

LEMMA ReadOutputFacts ==
  ASSUME TypesAndWorkers, ReadOutput
  PROVE  /\ policy' \in PolicyState /\ output' \in Seq(Mail)
         /\ policy'.keys = IF Head(output) \in Message THEN policy.keys \ {KeyOf(Head(output))} ELSE policy.keys
<1>1. policy \in PolicyState /\ output \in Seq(Mail) /\ output # <<>>
  BY DEF TypesAndWorkers, RuntimeTypeOK, CallerTypes, QueueTypes, ReadOutput
<1>2. output' \in Seq(Mail) BY <1>1 DEF ReadOutput
<1>3. policy' = IF Head(output) \in Message THEN Release(policy, Head(output)) ELSE policy BY DEF ReadOutput
<1> QED BY <1>1, <1>2, <1>3, ReleaseFacts

LEMMA ReadOutputTypes ==
  ASSUME TypesAndWorkers, ReadOutput
  PROVE  TypesAndWorkers'
<1>1. policy' \in PolicyState /\ output' \in Seq(Mail) BY ReadOutputFacts
<1> USE DEF TypesAndWorkers, RuntimeTypeOK
<1> QED BY <1>1 DEF ReadOutput, QueueTypes, CallerTypes, WheelTypes, wheelVars, stopVars, WorkersOK

LEMMA InitTypes ==
  ASSUME RuntimeInit
  PROVE  TypesAndWorkers
<1> DEFINE e == <<>>
<1>1. e \in Seq(Mail) /\ e \in Seq(Item) /\ e \in Seq(CommandSet) /\ e \in Seq(LetterSet) /\ e \in Seq(Timer)
  OBVIOUS
<1>2. EmptyWheel = [up |-> TRUE, pc |-> "select", set |-> {}, pending |-> e, rest |-> e] BY DEF EmptyWheel
<1>3. EmptyPolicy = [overloaded |-> FALSE, keys |-> {}, letters |-> e] BY DEF EmptyPolicy
<1>4. /\ mailbox = [s \in Shard |-> e] /\ owed = [d \in Device |-> e] /\ output = e /\ commands = e /\ batch = e
      /\ wheel = EmptyWheel /\ policy = EmptyPolicy /\ shard = [s \in Shard |-> NewShard]
  BY DEF RuntimeInit
<1> HIDE DEF e
<1>5. wheel \in WheelState BY <1>1, <1>2, <1>4 DEF WheelState
<1>6. policy \in PolicyState BY <1>1, <1>3, <1>4 DEF PolicyState
<1>7. QueueTypes BY <1>1, <1>4 DEF QueueTypes
<1>8. CallerTypes BY <1>1, <1>4, <1>6 DEF CallerTypes, RuntimeInit
<1>9. WheelTypes BY <1>1, <1>4, <1>5 DEF WheelTypes, RuntimeInit
<1>10. shard \in [Shard -> ShardState] /\ WorkersOK BY <1>4, NewShardFacts DEF WorkersOK
<1> QED BY <1>7, <1>8, <1>9, <1>10 DEF TypesAndWorkers, RuntimeTypeOK, RuntimeInit

LEMMA StepTypes ==
  ASSUME TypesAndWorkers, [RuntimeNext]_runtimeVars
  PROVE  TypesAndWorkers'
<1>1. CASE UNCHANGED runtimeVars
  BY <1>1 DEF runtimeVars, TypesAndWorkers, RuntimeTypeOK, QueueTypes, CallerTypes, WheelTypes, WorkersOK
<1>2. ASSUME NEW m \in Message, CallerStep(m) PROVE TypesAndWorkers'
  BY <1>2, OfferTypes, SendTypes, LetterTypes DEF CallerStep
<1>3. ASSUME NEW s \in Shard, ShardStep(s) PROVE TypesAndWorkers'
  BY <1>3, ReceiveTypes, ReceivedTypes, HandleTypes, CommandTypes, ReturnTypes, CreateFailsTypes, EmitTypes,
     EvictIdleTypes, ShutdownActorTypes, ExitTypes DEF ShardStep
<1>4. CASE WheelTick BY <1>4, ExpireTypes, TakePendingTypes, RetryPendingTypes, TickDoneTypes DEF WheelTick
<1> QED BY <1>1, <1>2, <1>3, <1>4, RedriveTypes, RedriveOneTypes, WheelCommandTypes, SendShutdownTypes,
           StopTypes, ReadOutputTypes DEF RuntimeNext

\* Every variable keeps its type: queues hold items of the runtime, a worker has at
\* most one message in hand, and policy keys are those of messages that may coalesce.
THEOREM RuntimeTypeCorrect == RuntimeSpec => []RuntimeTypeOK
<1>1. RuntimeInit => TypesAndWorkers BY InitTypes
<1>2. TypesAndWorkers /\ [RuntimeNext]_runtimeVars => TypesAndWorkers' BY StepTypes
<1>3. TypesAndWorkers => RuntimeTypeOK BY DEF TypesAndWorkers
<1> QED BY <1>1, <1>2, <1>3, PTL DEF RuntimeSpec

-----------------------------------------------------------------------------
\* Coalescing keys.

LEMMA RangeEmpty == Range(<<>>) = {}
BY DEF Range

LEMMA RangeAppend ==
  ASSUME NEW A, NEW q \in Seq(A), NEW x \in A
  PROVE  Range(Append(q, x)) = Range(q) \cup {x}
<1>1. /\ DOMAIN q = 1 .. Len(q) /\ DOMAIN Append(q, x) = 1 .. Len(q) + 1 /\ Len(q) \in Nat
      /\ \A i \in 1 .. Len(q) : Append(q, x)[i] = q[i]
      /\ Append(q, x)[Len(q) + 1] = x
  OBVIOUS
<1>2. DOMAIN Append(q, x) = DOMAIN q \cup {Len(q) + 1} BY <1>1
<1> QED BY <1>1, <1>2, Zenon DEF Range

LEMMA RangeTail ==
  ASSUME NEW A, NEW q \in Seq(A), q # <<>>
  PROVE  Range(q) = {Head(q)} \cup Range(Tail(q))
<1>1. /\ DOMAIN q = 1 .. Len(q) /\ DOMAIN Tail(q) = 1 .. Len(q) - 1 /\ Len(q) \in Nat /\ Len(q) > 0
      /\ \A i \in 1 .. Len(q) - 1 : Tail(q)[i] = q[i + 1]
      /\ Head(q) = q[1]
  OBVIOUS
<1>2. \A y : y \in Range(q) <=> \E i \in 1 .. Len(q) : q[i] = y BY <1>1, Zenon DEF Range
<1>3. \A y : y \in Range(Tail(q)) <=> \E i \in 1 .. Len(q) - 1 : q[i + 1] = y BY <1>1, Zenon DEF Range
<1>4. ASSUME NEW y, y \in Range(q), y # Head(q) PROVE y \in Range(Tail(q))
  <2>1. PICK i \in 1 .. Len(q) : q[i] = y BY <1>2, <1>4
  <2>2. i - 1 \in 1 .. Len(q) - 1 /\ (i - 1) + 1 = i BY <1>1, <1>4, <2>1
  <2> QED BY <1>3, <2>1, <2>2
<1>5. ASSUME NEW y, y \in Range(Tail(q)) PROVE y \in Range(q)
  <2>1. PICK i \in 1 .. Len(q) - 1 : q[i + 1] = y BY <1>3, <1>5
  <2>2. i + 1 \in 1 .. Len(q) BY <1>1
  <2> QED BY <1>2, <2>1, <2>2
<1>6. Head(q) \in Range(q)
  <2>1. 1 \in 1 .. Len(q) BY <1>1
  <2> QED BY <1>1, <1>2, <2>1
<1> QED BY <1>4, <1>5, <1>6

\* What holds the key of a message.
Backed(m) == InFlight(m) \/ KeyOf(m) \in orphan \/ Stopped(ShardOf(m))

\* A step keeps the property when every key it adds is that of a message on its way,
\* and every message that backs a key which stays backs it still.
LEMMA KeysStep ==
  ASSUME KeysInFlight,
         \A m \in Message : KeyOf(m) \in policy'.keys /\ KeyOf(m) \in policy.keys /\ Backed(m) => Backed(m)',
         \A k \in policy'.keys : k \in policy.keys \/ \E m \in Message : KeyOf(m) = k /\ Backed(m)'
  PROVE  KeysInFlight'
<1>1. KeysInFlight <=> \A k \in policy.keys : \E m \in Message : KeyOf(m) = k /\ Backed(m)
  BY DEF KeysInFlight, Backed
<1>2. KeysInFlight' <=> \A k \in policy'.keys : \E m \in Message : KeyOf(m) = k /\ Backed(m)'
  BY DEF KeysInFlight, Backed
<1>3. ASSUME NEW k \in policy'.keys PROVE \E m \in Message : KeyOf(m) = k /\ Backed(m)'
  <2>1. CASE k \in policy.keys
    <3>1. PICK m \in Message : KeyOf(m) = k /\ Backed(m) BY <1>1, <2>1
    <3>2. Backed(m)' BY <2>1, <3>1
    <3> QED BY <3>1, <3>2
  <2> QED BY <2>1
<1> QED BY <1>2, <1>3

LEMMA MessageFacts ==
  ASSUME NEW m \in Message
  PROVE  m \in Item /\ ShardOf(m) \in Shard /\ DeviceOf[m] \in Device /\ m # Shutdown
<1>1. m \in Item BY DEF Item
<1> QED BY <1>1, ItemFacts

\* A step that leaves callers, queues and workers alone, but for what backs more.
LEMMA KeysStay ==
  ASSUME KeysInFlight, policy'.keys \subseteq policy.keys, UNCHANGED <<call, shard, orphan>>,
         Range(output) \subseteq Range(output'),
         \A s \in Shard : Range(mailbox[s]) \subseteq Range(mailbox'[s])
  PROVE  KeysInFlight'
<1>1. ASSUME NEW m \in Message, Backed(m) PROVE Backed(m)'
  <2>1. ShardOf(m) \in Shard BY MessageFacts
  <2>2. m \in Range(mailbox[ShardOf(m)]) => m \in Range(mailbox'[ShardOf(m)]) BY <2>1
  <2> QED BY <1>1, <2>2 DEF Backed, InFlight, Stopped
<1> QED BY <1>1, KeysStep

\* Callers.
LEMMA CallFacts ==
  ASSUME CallerTypes, NEW m \in Message, NEW pc, Goes(m, pc)
  PROVE  call'[m] = pc /\ \A n \in Message : n # m => call'[n] = call[n]
BY DEF CallerTypes, Goes

LEMMA OfferKeys ==
  ASSUME TypesAndWorkers, KeysInFlight, NEW m \in Message, Offer(m)
  PROVE  KeysInFlight'
<1> USE DEF TypesAndWorkers, RuntimeTypeOK
<1>1. call[m] = "new" /\ UNCHANGED <<mailbox, shard, owed, orphan, output>> BY DEF Offer, shardVars
<1>2. \A n \in Message : n # m => call'[n] = call[n] BY CallFacts DEF Offer
<1>3. ASSUME NEW n \in Message, Backed(n) PROVE Backed(n)'
  <2>1. CASE n = m BY <1>1, <1>3, <2>1 DEF Backed, InFlight, Stopped
  <2>2. CASE n # m BY <1>1, <1>2, <1>3, <2>2 DEF Backed, InFlight, Stopped
  <2> QED BY <2>1, <2>2
<1>4. ASSUME NEW k \in policy'.keys, k \notin policy.keys PROVE KeyOf(m) = k /\ Backed(m)'
  <2>1. PICK limited \in BOOLEAN :
          LET r == PreAdmit(policy, m, Depth, limited) IN
            policy' = r.policy /\ (r.act = "admit" => Goes(m, "send"))
    BY <1>4 DEF Offer
  <2> DEFINE r == PreAdmit(policy, m, Depth, limited)
  <2>2. r.policy.keys \subseteq policy.keys \cup {KeyOf(m)} /\ (r.act # "admit" => r.policy.keys = policy.keys)
    BY PreAdmitFacts DEF CallerTypes
  <2>3. policy' = r.policy /\ (r.act = "admit" => Goes(m, "send")) BY <2>1
  <2> HIDE DEF r
  <2>4. KeyOf(m) = k /\ Goes(m, "send") BY <1>4, <2>2, <2>3
  <2>5. call'[m] = "send" BY <2>4, CallFacts
  <2> QED BY <2>4, <2>5 DEF Backed, InFlight
<1> QED BY <1>3, <1>4, KeysStep

LEMMA PutRange ==
  ASSUME QueueTypes, NEW x \in Item, Put(x)
  PROVE  x \in Range(mailbox'[ShardOf(x)]) /\ \A s \in Shard : Range(mailbox[s]) \subseteq Range(mailbox'[s])
<1>1. mailbox[ShardOf(x)] \in Seq(Mail) /\ x \in Mail BY ItemFacts DEF QueueTypes
<1>2. Range(mailbox'[ShardOf(x)]) = Range(mailbox[ShardOf(x)]) \cup {x}
  <2>1. mailbox'[ShardOf(x)] = Append(mailbox[ShardOf(x)], x) BY PutFacts
  <2>2. Range(Append(mailbox[ShardOf(x)], x)) = Range(mailbox[ShardOf(x)]) \cup {x} BY <1>1, RangeAppend
  <2> QED BY <2>1, <2>2
<1>3. \A s \in Shard : s # ShardOf(x) => mailbox'[s] = mailbox[s] BY PutFacts
<1> QED BY <1>2, <1>3

LEMMA SendKeys ==
  ASSUME TypesAndWorkers, KeysInFlight, NEW m \in Message, Send(m)
  PROVE  KeysInFlight'
<1> USE DEF TypesAndWorkers, RuntimeTypeOK
<1>1. UNCHANGED <<shard, orphan, output, policy>> /\ call[m] \in {"send", "direct"} BY DEF Send
<1>2. \A n \in Message : n # m => call'[n] = call[n] BY CallFacts DEF Send
<1>3. m \in Item /\ ShardOf(m) \in Shard BY MessageFacts
<1>4. \A s \in Shard : Range(mailbox[s]) \subseteq Range(mailbox'[s]) BY <1>3, PutRange DEF Send
<1>5. call[m] = "send" => Stopped(ShardOf(m)) \/ call'[m] = "full" \/ m \in Range(mailbox'[ShardOf(m)])
  <2>1. CASE Put(m) BY <1>3, <2>1, PutRange
  <2>2. CASE Goes(m, IF Stopped(ShardOf(m)) \/ call[m] = "direct" THEN "done" ELSE "full")
    BY <2>2, CallFacts
  <2> QED BY <2>1, <2>2 DEF Send
<1>6. ASSUME NEW n \in Message, Backed(n) PROVE Backed(n)'
  <2>1. n \in Range(mailbox[ShardOf(n)]) => n \in Range(mailbox'[ShardOf(n)]) BY <1>4, MessageFacts
  <2>2. CASE n = m BY <1>1, <1>5, <1>6, <2>1, <2>2 DEF Backed, InFlight, Stopped
  <2>3. CASE n # m BY <1>1, <1>2, <1>6, <2>1, <2>3 DEF Backed, InFlight, Stopped
  <2> QED BY <2>2, <2>3
<1> QED BY <1>1, <1>6, KeysStep

LEMMA LetterKeys ==
  ASSUME TypesAndWorkers, KeysInFlight, NEW m \in Message, Letter(m)
  PROVE  KeysInFlight'
<1> USE DEF TypesAndWorkers, RuntimeTypeOK
<1>1. UNCHANGED <<mailbox, shard, orphan, output>> /\ call[m] \in {"letter", "full"} BY DEF Letter, shardVars
<1>2. \A n \in Message : n # m => call'[n] = call[n] BY CallFacts DEF Letter
<1>3. policy'.keys \subseteq policy.keys /\ (call[m] = "full" => KeyOf(m) \notin policy'.keys)
  <2>1. PICK full \in BOOLEAN : full = (call[m] = "full") OBVIOUS
  <2>2. policy' = DeadLetter(policy, m, full) BY <2>1 DEF Letter
  <2> QED BY <2>1, <2>2, DeadLetterFacts DEF CallerTypes
<1>4. ASSUME NEW n \in Message, Backed(n), KeyOf(n) \in policy'.keys PROVE Backed(n)'
  <2>1. CASE n = m BY <1>1, <1>3, <1>4, <2>1 DEF Backed, InFlight, Stopped
  <2>2. CASE n # m BY <1>1, <1>2, <1>4, <2>2 DEF Backed, InFlight, Stopped
  <2> QED BY <2>1, <2>2
<1> QED BY <1>3, <1>4, KeysStep

LEMMA RedriveKeys ==
  ASSUME TypesAndWorkers, KeysInFlight, Redrive \/ RedriveOne
  PROVE  KeysInFlight'
<1> USE DEF TypesAndWorkers, RuntimeTypeOK
<1>1. UNCHANGED <<call, shard, orphan, output>> BY DEF Redrive, RedriveOne, shardVars
<1>2. CASE Redrive
  <2>1. UNCHANGED mailbox BY <1>2 DEF Redrive, shardVars
  <2>2. policy'.keys = policy.keys BY <1>2 DEF Redrive, CallerTypes, PolicyState
  <2> QED BY <1>1, <2>1, <2>2, KeysStay
<1>3. CASE RedriveOne
  <2>1. PICK m \in Message, l \in LetterSet : m = Head(batch).msg /\ l = Head(batch) BY <1>3, BatchHead DEF RedriveOne
  <2>2. \/ UNCHANGED <<policy, mailbox>>
        \/ policy' = Requeue(policy, l) /\ UNCHANGED mailbox
        \/ Put(m) /\ UNCHANGED policy
    BY <1>3, <2>1 DEF RedriveOne
  <2>3. policy'.keys = policy.keys BY <2>2, RequeueFacts DEF CallerTypes
  <2>4. \A s \in Shard : Range(mailbox[s]) \subseteq Range(mailbox'[s]) BY <2>2, MessageFacts, PutRange
  <2> QED BY <1>1, <2>3, <2>4, KeysStay
<1> QED BY <1>2, <1>3

\* A worker that goes from sh to q: what it loses is in the output or has no output.
WorkerKeys(s, q) ==
  /\ \A m \in Message :
       ShardOf(m) = s /\ KeyOf(m) \in policy.keys
       /\ (m \in Range(shard[s].hand) \/ m \in Range(shard[s].ready[DeviceOf[m]]) \/ m \in Range(mailbox[s]))
       => \/ m \in Range(output') \/ KeyOf(m) \in orphan' \/ m \in Range(mailbox'[s])
          \/ m \in Range(q.hand) \/ m \in Range(q.ready[DeviceOf[m]]) \/ q.pc = "stopped"
  /\ shard[s].pc = "stopped" => q.pc = "stopped"

LEMMA WorkerStep ==
  ASSUME TypesAndWorkers, KeysInFlight, NEW s \in Shard, NEW q, shard' = [shard EXCEPT ![s] = q],
         WorkerKeys(s, q), UNCHANGED <<call, policy>>, orphan \subseteq orphan',
         Range(output) \subseteq Range(output'), \A u \in Shard : u # s => mailbox'[u] = mailbox[u]
  PROVE  KeysInFlight'
<1>1. shard'[s] = q /\ \A u \in Shard : u # s => shard'[u] = shard[u] BY DEF TypesAndWorkers, RuntimeTypeOK
<1>2. ASSUME NEW m \in Message, Backed(m), KeyOf(m) \in policy.keys PROVE Backed(m)'
  <2>1. ShardOf(m) \in Shard BY MessageFacts
  <2>2. CASE call[m] \in {"send", "full"} \/ m \in Range(output) \/ KeyOf(m) \in orphan
    BY <2>2 DEF Backed, InFlight
  <2>3. CASE ShardOf(m) # s
    BY <1>1, <1>2, <2>1, <2>3 DEF Backed, InFlight, Stopped
  <2>4. CASE ShardOf(m) = s /\ ~(call[m] \in {"send", "full"} \/ m \in Range(output) \/ KeyOf(m) \in orphan)
    <3>1. \/ m \in Range(mailbox[s]) \/ m \in Range(shard[s].hand) \/ m \in Range(shard[s].ready[DeviceOf[m]])
          \/ shard[s].pc = "stopped"
      BY <1>2, <2>4 DEF Backed, InFlight, Stopped
    <3>2. \/ m \in Range(output') \/ KeyOf(m) \in orphan' \/ m \in Range(mailbox'[s])
          \/ m \in Range(q.hand) \/ m \in Range(q.ready[DeviceOf[m]]) \/ q.pc = "stopped"
      BY <1>2, <2>4, <3>1 DEF WorkerKeys
    <3> QED BY <1>1, <2>4, <3>2 DEF Backed, InFlight, Stopped
  <2> QED BY <2>2, <2>3, <2>4
<1> QED BY <1>2, KeysStep

LEMMA ReceiveKeys ==
  ASSUME TypesAndWorkers, KeysInFlight, NEW s \in Shard, Receive(s)
  PROVE  KeysInFlight'
<1> USE DEF TypesAndWorkers, RuntimeTypeOK
<1>1. PICK x \in Mail : x = Head(mailbox[s]) BY HeadOfMail DEF Receive
<1>2. PICK q : q = Sort(shard[s], x) OBVIOUS
<1>3. shard[s] \in ShardState /\ WorkerOK(shard[s]) /\ shard[s].pc \in {"recv", "drain"} BY DEF WorkersOK, Receive
<1>4. /\ q.pc = "drain" /\ q.hand = shard[s].hand
      /\ x = Shutdown => q.ready = shard[s].ready
      /\ x # Shutdown => /\ q.ready[DeviceOf[x]] = Append(shard[s].ready[DeviceOf[x]], x)
                         /\ \A d \in Device : d # DeviceOf[x] => q.ready[d] = shard[s].ready[d]
  BY <1>2, <1>3, SortFacts
<1>5. /\ shard' = [shard EXCEPT ![s] = q] /\ UNCHANGED <<orphan, output, call, policy>>
      /\ mailbox' = [mailbox EXCEPT ![s] = Tail(@)] /\ mailbox[s] # <<>>
  BY <1>1, <1>2 DEF Receive, callVars
<1>6. mailbox \in [Shard -> Seq(Mail)] BY DEF QueueTypes
<1>7. mailbox'[s] = Tail(mailbox[s]) /\ \A u \in Shard : u # s => mailbox'[u] = mailbox[u] BY <1>5, <1>6
<1>8. Range(mailbox[s]) = {x} \cup Range(mailbox'[s])
  <2>1. mailbox[s] \in Seq(Mail) BY <1>6
  <2>2. Range(mailbox[s]) = {Head(mailbox[s])} \cup Range(Tail(mailbox[s])) BY <1>5, <2>1, RangeTail
  <2> QED BY <1>1, <1>7, <2>2
<1>9. ASSUME NEW m \in Message PROVE m \in Range(shard[s].ready[DeviceOf[m]]) => m \in Range(q.ready[DeviceOf[m]])
  <2>1. DeviceOf[m] \in Device BY MessageFacts
  <2>2. CASE x = Shutdown \/ DeviceOf[m] # DeviceOf[x] BY <1>4, <2>1, <2>2
  <2>3. CASE x # Shutdown /\ DeviceOf[m] = DeviceOf[x]
    <3>1. x \in Item /\ shard[s].ready[DeviceOf[x]] \in Seq(Item) BY <1>3, <2>1, <2>3 DEF Mail, ShardState
    <3>2. Range(Append(shard[s].ready[DeviceOf[x]], x)) = Range(shard[s].ready[DeviceOf[x]]) \cup {x}
      BY <3>1, RangeAppend
    <3> QED BY <1>4, <2>3, <3>2
  <2> QED BY <2>2, <2>3
<1>10. ASSUME NEW m \in Message, m = x PROVE m \in Range(q.ready[DeviceOf[m]])
  <2>1. x # Shutdown /\ x \in Item /\ DeviceOf[x] \in Device BY <1>10, MessageFacts
  <2>2. shard[s].ready[DeviceOf[x]] \in Seq(Item) BY <1>3, <2>1 DEF ShardState
  <2>3. Range(Append(shard[s].ready[DeviceOf[x]], x)) = Range(shard[s].ready[DeviceOf[x]]) \cup {x}
    BY <2>1, <2>2, RangeAppend
  <2> QED BY <1>4, <1>10, <2>1, <2>3
<1>11. WorkerKeys(s, q)
  <2>1. ASSUME NEW m \in Message,
               m \in Range(shard[s].hand) \/ m \in Range(shard[s].ready[DeviceOf[m]]) \/ m \in Range(mailbox[s])
        PROVE  m \in Range(mailbox'[s]) \/ m \in Range(q.hand) \/ m \in Range(q.ready[DeviceOf[m]])
    BY <1>4, <1>8, <1>9, <1>10, <2>1
  <2> QED BY <1>3, <2>1 DEF WorkerKeys
<1> QED BY <1>5, <1>7, <1>11, WorkerStep

\* A worker that keeps what it holds.
LEMMA WorkerKeeps ==
  ASSUME TypesAndWorkers, KeysInFlight, NEW s \in Shard, NEW q, shard' = [shard EXCEPT ![s] = q],
         q.hand = shard[s].hand, q.ready = shard[s].ready, shard[s].pc # "stopped",
         UNCHANGED <<call, policy, orphan, mailbox>>, Range(output) \subseteq Range(output')
  PROVE  KeysInFlight'
<1>1. WorkerKeys(s, q) BY DEF WorkerKeys
<1> QED BY <1>1, WorkerStep

LEMMA ReceivedKeys ==
  ASSUME TypesAndWorkers, KeysInFlight, NEW s \in Shard, Received(s)
  PROVE  KeysInFlight'
<1>1. PICK q : q = [shard[s] EXCEPT !.pc = "poll"] OBVIOUS
<1>2. shard[s] \in ShardState BY DEF TypesAndWorkers, RuntimeTypeOK
<1>3. q.hand = shard[s].hand /\ q.ready = shard[s].ready BY <1>1, <1>2 DEF ShardState
<1>4. shard' = [shard EXCEPT ![s] = q] BY <1>1 DEF Received
<1>5. UNCHANGED <<call, policy, orphan, mailbox, output>> /\ shard[s].pc # "stopped" BY DEF Received, callVars
<1> QED BY <1>3, <1>4, <1>5, WorkerKeeps

LEMMA EvictKeys ==
  ASSUME TypesAndWorkers, KeysInFlight, NEW s \in Shard, EvictIdle(s) \/ ShutdownActor(s)
  PROVE  KeysInFlight'
<1>1. PICK q \in ShardState : /\ shard' = [shard EXCEPT ![s] = q] /\ q.ready = shard[s].ready
                              /\ q.hand = shard[s].hand
  BY EvictFacts, ShutdownActorFacts
<1>2. UNCHANGED <<call, policy, orphan, mailbox>> /\ shard[s].pc # "stopped"
  <2>1. CASE EvictIdle(s)
    <3>1. UNCHANGED <<call, policy, orphan, mailbox>> BY <2>1, Zenon DEF EvictIdle, callVars
    <3>2. shard[s].pc = "poll" BY <2>1, Zenon DEF EvictIdle
    <3> QED BY <3>1, <3>2
  <2>2. CASE ShutdownActor(s) BY <2>2 DEF ShutdownActor, callVars
  <2> QED BY <2>1, <2>2
<1>3. Range(output) \subseteq Range(output')
  <2>1. output \in Seq(Mail) /\ Shutdown \in Mail BY DEF TypesAndWorkers, RuntimeTypeOK, QueueTypes, Mail
  <2>2. Range(Append(output, Shutdown)) = Range(output) \cup {Shutdown} BY <2>1, RangeAppend
  <2>3. UNCHANGED output \/ output' = Append(output, Shutdown)
    <3>1. CASE EvictIdle(s) BY <3>1, Zenon DEF EvictIdle
    <3>2. CASE ShutdownActor(s) BY <3>2, Zenon DEF ShutdownActor
    <3> QED BY <3>1, <3>2
  <2> QED BY <2>2, <2>3
<1> QED BY <1>1, <1>2, <1>3, WorkerKeeps

LEMMA ExitKeys ==
  ASSUME TypesAndWorkers, KeysInFlight, NEW s \in Shard, Exit(s)
  PROVE  KeysInFlight'
<1>1. PICK q : q = [NewShard EXCEPT !.pc = "stopped"] OBVIOUS
<1>2. q.pc = "stopped" BY <1>1, NewShardFacts
<1>3. WorkerKeys(s, q) BY <1>2 DEF WorkerKeys
<1>4. mailbox' = [mailbox EXCEPT ![s] = <<>>] /\ mailbox \in [Shard -> Seq(Mail)]
  BY DEF Exit, TypesAndWorkers, RuntimeTypeOK, QueueTypes
<1>5. \A u \in Shard : u # s => mailbox'[u] = mailbox[u] BY <1>4
<1>6. shard' = [shard EXCEPT ![s] = q] /\ UNCHANGED <<call, policy, orphan, output>> BY <1>1 DEF Exit, callVars
<1> QED BY <1>3, <1>5, <1>6, WorkerStep

LEMMA HandleKeys ==
  ASSUME TypesAndWorkers, KeysInFlight, NEW s \in Shard, Handle(s)
  PROVE  KeysInFlight'
<1>1. PICK sh : sh = shard[s] OBVIOUS
<1>2. PICK d : d = Min(Turn(sh).round) OBVIOUS
<1>3. sh \in ShardState /\ WorkerOK(sh) /\ Ready(sh) # {} /\ sh.pc = "poll" /\ Handled(s, sh, d)
  BY <1>1, <1>2, HandleIs
<1>4. /\ d \in Device /\ sh.ready[d] # <<>>
      /\ Taken(sh).hand = <<Head(sh.ready[d])>> /\ Taken(sh).ready[d] = Tail(sh.ready[d])
      /\ \A e \in Device : e # d => Taken(sh).ready[e] = sh.ready[e]
  BY <1>2, <1>3, TakenFacts
<1>5. PICK x : x = Head(sh.ready[d]) OBVIOUS
<1>6. sh.ready[d] \in Seq(Item) BY <1>3, <1>4 DEF ShardState
<1>7. Range(sh.ready[d]) = {x} \cup Range(Tail(sh.ready[d])) BY <1>4, <1>5, <1>6, RangeTail
<1>8. sh.hand = <<>> BY <1>3 DEF WorkerOK
<1>9. UNCHANGED <<mailbox, output, call, policy>> BY DEF Handle, callVars
<1>10. PICK calls \in Calls(d) : shard' = [shard EXCEPT ![s] = [Taken(sh) EXCEPT !.pc = "handle", !.calls = calls]]
  BY <1>3 DEF Handled
<1>11. PICK q : q = [Taken(sh) EXCEPT !.pc = "handle", !.calls = calls] OBVIOUS
<1>12. q.ready = Taken(sh).ready /\ q.hand = Taken(sh).hand BY <1>3, <1>10, <1>11, CallsAre, AfterHandle
<1>13. q.hand = <<x>> BY <1>4, <1>5, <1>12
<1>14. WorkerKeys(s, q)
  <2>1. ASSUME NEW m \in Message,
               m \in Range(shard[s].hand) \/ m \in Range(shard[s].ready[DeviceOf[m]]) \/ m \in Range(mailbox[s])
        PROVE  m \in Range(mailbox'[s]) \/ m \in Range(q.hand) \/ m \in Range(q.ready[DeviceOf[m]])
    <3>1. CASE m \in Range(mailbox[s]) BY <1>9, <3>1
    <3>2. CASE m \in Range(sh.ready[DeviceOf[m]]) /\ DeviceOf[m] # d
      BY <1>4, <1>12, <3>2, MessageFacts
    <3>3. CASE m \in Range(sh.ready[d]) /\ DeviceOf[m] = d /\ m # x BY <1>4, <1>7, <1>12, <3>3
    <3>4. CASE m = x BY <1>13, <3>4 DEF Range
    <3> QED BY <1>1, <1>8, <2>1, <3>1, <3>2, <3>3, <3>4, RangeEmpty
  <2> QED BY <1>1, <1>3, <2>1 DEF WorkerKeys
<1>15. shard' = [shard EXCEPT ![s] = q] /\ UNCHANGED orphan BY <1>10, <1>11 DEF Handle
<1> QED BY <1>9, <1>14, <1>15, WorkerStep

LEMMA CommandKeys ==
  ASSUME TypesAndWorkers, KeysInFlight, NEW s \in Shard, Command(s)
  PROVE  KeysInFlight'
<1>1. PICK q \in ShardState : shard' = [shard EXCEPT ![s] = q] /\ q.hand = shard[s].hand /\ q.ready = shard[s].ready
  BY CommandFacts
<1>2. shard[s].pc # "stopped" /\ UNCHANGED <<call, policy, orphan, mailbox, output>> BY DEF Command, callVars
<1> QED BY <1>1, <1>2, WorkerKeeps

LEMMA ReturnKeys ==
  ASSUME TypesAndWorkers, KeysInFlight, NEW s \in Shard, Return(s)
  PROVE  KeysInFlight'
<1>1. PICK q \in ShardState : /\ shard' = [shard EXCEPT ![s] = q] /\ q.ready = shard[s].ready
                              /\ \/ q.hand = shard[s].hand /\ UNCHANGED orphan
                                 \/ orphan' = orphan \cup Orphans(Range(shard[s].hand))
  BY ReturnFacts
<1>2. shard[s].pc # "stopped" /\ UNCHANGED <<call, policy, mailbox, output>> BY DEF Return, callVars
<1>3. CASE q.hand = shard[s].hand /\ UNCHANGED orphan BY <1>1, <1>2, <1>3, WorkerKeeps
<1>4. CASE orphan' = orphan \cup Orphans(Range(shard[s].hand))
  <2>1. ASSUME NEW m \in Message, m \in Range(shard[s].hand), KeyOf(m) \in policy.keys PROVE KeyOf(m) \in orphan'
    <3>1. KeyOf(m) \in Orphans(Range(shard[s].hand)) BY <2>1 DEF Orphans
    <3> QED BY <1>4, <3>1
  <2>2. WorkerKeys(s, q) BY <1>1, <1>2, <2>1 DEF WorkerKeys
  <2> QED BY <1>1, <1>2, <1>4, <2>2, WorkerStep
<1> QED BY <1>1, <1>3, <1>4

LEMMA CreateFailsKeys ==
  ASSUME TypesAndWorkers, KeysInFlight, NEW s \in Shard, CreateFails(s)
  PROVE  KeysInFlight'
<1>1. PICK sh : sh = shard[s] OBVIOUS
<1>2. PICK d : d = Min(Turn(sh).round) OBVIOUS
<1>3. sh \in ShardState /\ WorkerOK(sh) /\ Ready(sh) # {} /\ sh.pc = "poll" /\ CreateFailed(s, sh, d)
  BY <1>1, <1>2, CreateFailsIs
<1>4. PICK q : q = Failed(sh) OBVIOUS
<1>5. /\ q.hand = sh.hand /\ \A e \in Device : e # d => q.ready[e] = sh.ready[e]
  BY <1>2, <1>3, <1>4, FailedFacts
<1>6. shard' = [shard EXCEPT ![s] = q] /\ orphan' = orphan \cup Orphans(Range(sh.ready[d]))
  BY <1>3, <1>4 DEF CreateFailed
<1>7. UNCHANGED <<mailbox, output, call, policy>> BY DEF CreateFails, callVars
<1>8. ASSUME NEW m \in Message, m \in Range(sh.ready[d]), KeyOf(m) \in policy.keys PROVE KeyOf(m) \in orphan'
  <2>1. KeyOf(m) \in Orphans(Range(sh.ready[d])) BY <1>8 DEF Orphans
  <2> QED BY <1>6, <2>1
<1>9. WorkerKeys(s, q)
  <2>1. ASSUME NEW m \in Message, KeyOf(m) \in policy.keys,
               m \in Range(shard[s].hand) \/ m \in Range(shard[s].ready[DeviceOf[m]]) \/ m \in Range(mailbox[s])
        PROVE  \/ KeyOf(m) \in orphan' \/ m \in Range(mailbox'[s])
               \/ m \in Range(q.hand) \/ m \in Range(q.ready[DeviceOf[m]])
    <3>1. CASE m \in Range(mailbox[s]) \/ m \in Range(sh.hand) BY <1>5, <1>7, <3>1
    <3>2. CASE m \in Range(sh.ready[DeviceOf[m]]) /\ DeviceOf[m] # d BY <1>5, <3>2, MessageFacts
    <3>3. CASE m \in Range(sh.ready[DeviceOf[m]]) /\ DeviceOf[m] = d BY <1>8, <2>1, <3>3
    <3> QED BY <1>1, <2>1, <3>1, <3>2, <3>3
  <2> QED BY <1>1, <1>3, <2>1 DEF WorkerKeys
<1> QED BY <1>6, <1>7, <1>9, WorkerStep

LEMMA EmitKeys ==
  ASSUME TypesAndWorkers, KeysInFlight, NEW s \in Shard, Emit(s)
  PROVE  KeysInFlight'
<1>1. PICK q : q = Finished(shard[s]) OBVIOUS
<1>2. q.ready = shard[s].ready BY <1>1, EmitFacts
<1>3. PICK h : h = shard[s].hand OBVIOUS
<1>4. h \in Seq(Item) /\ Len(h) = 1 /\ Head(h) \in Item BY <1>3, EmitFacts
<1>5. Range(h) = {Head(h)} BY <1>4 DEF Range
<1>6. output' = Append(output, Head(h)) /\ output \in Seq(Mail) /\ Head(h) \in Mail
  BY <1>3, <1>4 DEF Emit, TypesAndWorkers, RuntimeTypeOK, QueueTypes, Mail
<1>7. Range(output') = Range(output) \cup {Head(h)} BY <1>6, RangeAppend
<1>8. shard' = [shard EXCEPT ![s] = q] /\ UNCHANGED <<mailbox, orphan, call, policy>> /\ shard[s].pc = "output"
  BY <1>1 DEF Emit, callVars
<1>9. WorkerKeys(s, q) BY <1>2, <1>3, <1>5, <1>7, <1>8 DEF WorkerKeys
<1> QED BY <1>7, <1>8, <1>9, WorkerStep

LEMMA WheelKeys ==
  ASSUME TypesAndWorkers, KeysInFlight, WheelCommand \/ WheelTick
  PROVE  KeysInFlight'
<1> USE DEF TypesAndWorkers, RuntimeTypeOK
<1>1. CASE WheelCommand \/ TakePending \/ TickDone
  <2>1. UNCHANGED <<call, shard, orphan, output, mailbox, policy>>
    BY <1>1, Zenon DEF WheelCommand, TakePending, TickDone, callVars, shardVars
  <2> QED BY <2>1, KeysStay
<1>2. ASSUME NEW t \in Timer, Put(t) \/ UNCHANGED mailbox, UNCHANGED <<call, shard, orphan, output, policy>>
      PROVE  KeysInFlight'
  <2>1. t \in Item BY DEF Item
  <2>2. \A s \in Shard : Range(mailbox[s]) \subseteq Range(mailbox'[s]) BY <1>2, <2>1, PutRange
  <2> QED BY <1>2, <2>2, KeysStay
<1>3. CASE Expire
  <2>1. UNCHANGED <<call, shard, orphan, output, policy>> BY <1>3 DEF Expire, callVars
  <2>2. \E t \in wheel.set : Put(t) \/ UNCHANGED mailbox BY <1>3, Zenon DEF Expire, Dispatch
  <2>3. wheel.set \subseteq Timer BY DEF WheelTypes, WheelState
  <2> QED BY <1>2, <2>1, <2>2, <2>3
<1>4. CASE RetryPending
  <2>1. UNCHANGED <<call, shard, orphan, output, policy>> BY <1>4 DEF RetryPending, callVars
  <2>2. PICK t \in Timer : t = Head(wheel.rest) BY <1>4, RetriedWheel DEF RetryPending
  <2>3. Put(t) \/ UNCHANGED mailbox BY <1>4, <2>2, Zenon DEF RetryPending, Dispatch
  <2> QED BY <1>2, <2>1, <2>3
<1> QED BY <1>1, <1>3, <1>4 DEF WheelTick

LEMMA StopKeys ==
  ASSUME TypesAndWorkers, KeysInFlight, Drain \/ StopWheel \/ StopAgain \/ SendShutdown
  PROVE  KeysInFlight'
<1> USE DEF TypesAndWorkers, RuntimeTypeOK
<1>1. UNCHANGED <<call, shard, orphan, output, policy>>
  <2>1. CASE Drain \/ StopWheel \/ StopAgain BY <2>1 DEF Drain, StopWheel, StopAgain, shardVars, callVars
  <2>2. CASE SendShutdown BY <2>2 DEF SendShutdown, callVars
  <2> QED BY <2>1, <2>2
<1>2. CASE UNCHANGED mailbox BY <1>1, <1>2, KeysStay
<1>3. CASE SendShutdown
  <2>1. PICK s \in Shard : UNCHANGED mailbox \/ mailbox' = [mailbox EXCEPT ![s] = Append(@, Shutdown)]
    BY <1>3, SendShutdownFacts
  <2>2. CASE mailbox' = [mailbox EXCEPT ![s] = Append(@, Shutdown)]
    <3>1. mailbox \in [Shard -> Seq(Mail)] /\ Shutdown \in Mail BY DEF QueueTypes, Mail
    <3>2. mailbox'[s] = Append(mailbox[s], Shutdown) /\ \A u \in Shard : u # s => mailbox'[u] = mailbox[u]
      BY <2>2, <3>1
    <3>3. Range(Append(mailbox[s], Shutdown)) = Range(mailbox[s]) \cup {Shutdown} BY <3>1, RangeAppend
    <3>4. \A u \in Shard : Range(mailbox[u]) \subseteq Range(mailbox'[u]) BY <3>2, <3>3
    <3> QED BY <1>1, <3>4, KeysStay
  <2> QED BY <1>2, <2>1, <2>2
<1>4. CASE Drain \/ StopWheel \/ StopAgain
  <2>1. UNCHANGED mailbox BY <1>4 DEF Drain, StopWheel, StopAgain, shardVars
  <2> QED BY <1>2, <2>1
<1> QED BY <1>3, <1>4

LEMMA ReadOutputKeys ==
  ASSUME TypesAndWorkers, KeysInFlight, ReadOutput
  PROVE  KeysInFlight'
<1>1. policy'.keys = IF Head(output) \in Message THEN policy.keys \ {KeyOf(Head(output))} ELSE policy.keys
  BY ReadOutputFacts
<1>2. output \in Seq(Mail) /\ output # <<>> /\ output' = Tail(output)
  BY DEF TypesAndWorkers, RuntimeTypeOK, QueueTypes, ReadOutput
<1>3. Range(output) = {Head(output)} \cup Range(output') BY <1>2, RangeTail
<1>4. UNCHANGED <<call, shard, mailbox>> /\ orphan' = orphan \cap policy'.keys BY DEF ReadOutput
<1>5. ASSUME NEW m \in Message, Backed(m), KeyOf(m) \in policy'.keys PROVE Backed(m)'
  <2>1. m # Head(output) BY <1>1, <1>5
  <2>2. m \in Range(output) => m \in Range(output') BY <1>3, <2>1
  <2>3. KeyOf(m) \in orphan => KeyOf(m) \in orphan' BY <1>4, <1>5
  <2> QED BY <1>4, <1>5, <2>2, <2>3 DEF Backed, InFlight, Stopped
<1>6. policy'.keys \subseteq policy.keys BY <1>1
<1> QED BY <1>5, <1>6, KeysStep

\* No tracked key is left without a message on its way to the application, but for
\* those that the code gives up: however callers, workers, redrives, the wheel and
\* shutdown interleave, and whatever the capacities are.
THEOREM KeysAccounted == RuntimeSpec => []KeysInFlight
<1> DEFINE Inv == TypesAndWorkers /\ KeysInFlight
<1>1. RuntimeInit => Inv
  <2>1. RuntimeInit => policy.keys = {} BY DEF RuntimeInit, EmptyPolicy
  <2> QED BY <2>1, InitTypes DEF KeysInFlight
<1>2. Inv /\ [RuntimeNext]_runtimeVars => Inv'
  <2> SUFFICES ASSUME TypesAndWorkers, KeysInFlight, [RuntimeNext]_runtimeVars PROVE KeysInFlight'
    BY StepTypes
  <2>1. CASE UNCHANGED runtimeVars BY <2>1 DEF runtimeVars, KeysInFlight, InFlight, Stopped
  <2>2. ASSUME NEW m \in Message, CallerStep(m) PROVE KeysInFlight'
    BY <2>2, OfferKeys, SendKeys, LetterKeys DEF CallerStep
  <2>3. ASSUME NEW s \in Shard, ShardStep(s) PROVE KeysInFlight'
    BY <2>3, ReceiveKeys, ReceivedKeys, HandleKeys, CommandKeys, ReturnKeys, CreateFailsKeys, EmitKeys,
       EvictKeys, ExitKeys DEF ShardStep
  <2> QED BY <2>1, <2>2, <2>3, RedriveKeys, WheelKeys, StopKeys, ReadOutputKeys DEF RuntimeNext
<1>3. Inv => KeysInFlight OBVIOUS
<1> QED BY <1>1, <1>2, <1>3, PTL DEF RuntimeSpec

-----------------------------------------------------------------------------
\* The order in which an actor gets its items.

LEMMA ConcatAppend ==
  ASSUME NEW A, NEW a \in Seq(A), NEW b \in Seq(A), NEW x \in A
  PROVE  a \o Append(b, x) = Append(a \o b, x) /\ a \o b \in Seq(A) /\ Append(b, x) \in Seq(A)
<1>1. a \o b \in Seq(A) /\ Append(b, x) \in Seq(A) /\ <<x>> \in Seq(A) OBVIOUS
<1>2. Append(a \o b, x) = (a \o b) \o <<x>> /\ Append(b, x) = b \o <<x>>
  <2>1. PICK c \in Seq(A) : c = a \o b BY <1>1
  <2>2. Append(c, x) = c \o <<x>> /\ Append(b, x) = b \o <<x>> BY AppendIsConcat
  <2> QED BY <2>1, <2>2
<1>3. (a \o b) \o <<x>> = a \o (b \o <<x>>)
  <2>1. PICK c \in Seq(A) : c = <<x>> BY <1>1
  <2>2. (a \o b) \o c = a \o (b \o c) BY ConcatAssociative
  <2> QED BY <2>1, <2>2
<1> QED BY <1>1, <1>2, <1>3

LEMMA ConcatTail ==
  ASSUME NEW A, NEW a \in Seq(A), NEW b \in Seq(A), a # <<>>
  PROVE  a \o b # <<>> /\ Head(a \o b) = Head(a) /\ Tail(a \o b) = Tail(a) \o b /\ Tail(a) \in Seq(A)
<1> DEFINE c == a \o b
           t == Tail(a)
           u == t \o b
<1>1. c \in Seq(A) /\ Len(c) = Len(a) + Len(b) /\ Len(a) \in Nat /\ Len(a) > 0 /\ Len(b) \in Nat
      /\ \A i \in 1 .. Len(a) + Len(b) : c[i] = IF i <= Len(a) THEN a[i] ELSE b[i - Len(a)]
  OBVIOUS
<1>2. t \in Seq(A) /\ Len(t) = Len(a) - 1 /\ \A i \in 1 .. Len(a) - 1 : t[i] = a[i + 1] BY HeadTailProperties
<1>3. Head(a) = a[1] OBVIOUS
<1> HIDE DEF t
<1>4. u \in Seq(A) /\ Len(u) = Len(t) + Len(b)
      /\ \A i \in 1 .. Len(t) + Len(b) : u[i] = IF i <= Len(t) THEN t[i] ELSE b[i - Len(t)]
  BY <1>2, ConcatProperties
<1> HIDE DEF c, u
<1>5. c # <<>> /\ Head(c) = c[1] /\ Tail(c) \in Seq(A) /\ Len(Tail(c)) = Len(c) - 1
      /\ \A i \in 1 .. Len(c) - 1 : Tail(c)[i] = c[i + 1]
  <2>1. c \in Seq(A) BY <1>1
  <2>2. c # <<>> /\ Head(c) = c[1] BY <1>1
  <2> QED BY <2>1, <2>2, HeadTailProperties
<1>6. c[1] = a[1] BY <1>1
<1>7. ASSUME NEW i \in 1 .. Len(u) PROVE Tail(c)[i] = u[i]
  <2>1. i \in 1 .. Len(c) - 1 /\ i + 1 \in 1 .. Len(a) + Len(b) /\ i \in 1 .. Len(t) + Len(b)
    BY <1>1, <1>2, <1>4
  <2>2. Tail(c)[i] = c[i + 1] BY <1>5, <2>1
  <2>3. c[i + 1] = IF i + 1 <= Len(a) THEN a[i + 1] ELSE b[(i + 1) - Len(a)] BY <1>1, <2>1
  <2>4. u[i] = IF i <= Len(t) THEN t[i] ELSE b[i - Len(t)] BY <1>4, <2>1
  <2>5. CASE i + 1 <= Len(a)
    <3>1. i <= Len(t) /\ i \in 1 .. Len(a) - 1 BY <1>1, <1>2, <2>5
    <3> QED BY <1>2, <2>2, <2>3, <2>4, <2>5, <3>1
  <2>6. CASE ~(i + 1 <= Len(a))
    <3>1. ~(i <= Len(t)) /\ (i + 1) - Len(a) = i - Len(t) BY <1>1, <1>2, <2>6
    <3> QED BY <2>2, <2>3, <2>4, <2>6, <3>1
  <2> QED BY <2>5, <2>6
<1>8. Len(Tail(c)) = Len(u) BY <1>1, <1>2, <1>4, <1>5
<1>9. Tail(c) = u
  <2>1. PICK v \in Seq(A) : v = Tail(c) BY <1>5
  <2>2. u \in Seq(A) /\ Len(v) = Len(u) /\ \A i \in 1 .. Len(v) : v[i] = u[i] BY <1>4, <1>7, <1>8, <2>1
  <2>3. v = u BY <2>2, SeqEqual
  <2> QED BY <2>1, <2>3
<1> QED BY <1>2, <1>3, <1>5, <1>6, <1>9 DEF c, u, t

\* What is kept of two queues, one after the other.
LEMMA KeepConcat ==
  ASSUME NEW A, NEW a \in Seq(A), NEW b \in Seq(A), NEW S
  PROVE  Keep(a \o b, S) = Keep(a, S) \o Keep(b, S)
<1> DEFINE T == {r \in Seq(A) : Keep(a \o r, S) = Keep(a, S) \o Keep(r, S)}
<1>1. Keep(a, S) \in Seq(A) BY KeepType
<1>2. <<>> \in T
  <2>1. a \o <<>> = a BY ConcatEmptySeq
  <2>2. Keep(a, S) \o <<>> = Keep(a, S) BY <1>1, ConcatEmptySeq
  <2>3. Keep(<<>>, S) = <<>> BY KeepEmpty
  <2>4. Keep(a \o <<>>, S) = Keep(a, S) \o Keep(<<>>, S) BY <2>1, <2>2, <2>3
  <2>5. <<>> \in Seq(A) OBVIOUS
  <2> QED BY <2>4, <2>5
<1>3. ASSUME NEW r \in Seq(A), NEW x \in A, r \in T PROVE Append(r, x) \in T
  <2>1. Append(r, x) \in Seq(A) /\ a \o r \in Seq(A) /\ a \o Append(r, x) = Append(a \o r, x)
    BY ConcatAppend
  <2>2. Keep(Append(a \o r, x), S) = IF x \in S THEN Append(Keep(a \o r, S), x) ELSE Keep(a \o r, S)
    BY <2>1, KeepAppend
  <2>3. Keep(Append(r, x), S) = IF x \in S THEN Append(Keep(r, S), x) ELSE Keep(r, S) BY KeepAppend
  <2>4. Keep(r, S) \in Seq(A) BY KeepType
  <2>5. Keep(a, S) \o Append(Keep(r, S), x) = Append(Keep(a, S) \o Keep(r, S), x) BY <1>1, <2>4
  <2>6. Keep(a \o r, S) = Keep(a, S) \o Keep(r, S) BY <1>3
  <2>7. Keep(a \o Append(r, x), S) = Keep(a, S) \o Keep(Append(r, x), S)
    <3>1. CASE x \in S BY <2>1, <2>2, <2>3, <2>5, <2>6, <3>1
    <3>2. CASE x \notin S BY <2>1, <2>2, <2>3, <2>6, <3>2
    <3> QED BY <3>1, <3>2
  <2> QED BY <2>1, <2>7
<1>4. b \in T
  <2> HIDE DEF T
  <2> QED BY <1>2, <1>3, SeqUp, Zenon
<1> QED BY <1>4

LEMMA ForType ==
  ASSUME NEW d, NEW q \in Seq(Mail)
  PROVE  For(d, q) \in Seq(Item)
<1>1. For(d, q) \in Seq({x \in Item : DeviceOf[x] = d}) BY KeepType DEF For
<1> QED BY <1>1, SeqMonotonic

LEMMA ForAppend ==
  ASSUME NEW d, NEW q \in Seq(Mail), NEW x \in Mail, x \in Item
  PROVE  For(d, Append(q, x)) = IF DeviceOf[x] = d THEN Append(For(d, q), x) ELSE For(d, q)
<1>1. PICK S : S = {y \in Item : DeviceOf[y] = d} OBVIOUS
<1>2. x \in S <=> DeviceOf[x] = d BY <1>1
<1>3. Keep(Append(q, x), S) = IF x \in S THEN Append(Keep(q, S), x) ELSE Keep(q, S) BY KeepAppend
<1>4. For(d, Append(q, x)) = Keep(Append(q, x), S) /\ For(d, q) = Keep(q, S) BY <1>1 DEF For
<1> QED BY <1>2, <1>3, <1>4, Zenon

LEMMA ForConcat ==
  ASSUME NEW d, NEW a \in Seq(Mail), NEW b \in Seq(Mail)
  PROVE  For(d, a \o b) = For(d, a) \o For(d, b)
<1>1. PICK S : S = {y \in Item : DeviceOf[y] = d} OBVIOUS
<1>2. Keep(a \o b, S) = Keep(a, S) \o Keep(b, S) BY KeepConcat
<1> QED BY <1>1, <1>2, Zenon DEF For

LEMMA ItemsTail ==
  ASSUME NEW r \in Seq(Item), NEW f \in Seq(Item), r # <<>>
  PROVE  r \o f # <<>> /\ Head(r \o f) = Head(r) /\ Tail(r \o f) = Tail(r) \o f
BY ConcatTail, Zenon

LEMMA ItemsAssociative ==
  ASSUME NEW r \in Seq(Item), NEW c \in Seq(Item), NEW f \in Seq(Item)
  PROVE  (r \o c) \o f = r \o (c \o f)
BY ConcatAssociative

\* What a device is owed, o, with its ready queue r and the mailbox q of its shard.
\* Before the worker receives Shutdown, that is all of r and what of q is in front of
\* the first Shutdown; afterwards it comes first in r.
LineOK(o, r, q, down, d) ==
  IF down THEN IsPrefix(o, r)
  ELSE \E a, b \in Seq(Mail) :
         /\ q = a \o b /\ Shutdown \notin Range(a) /\ (b # <<>> => Head(b) = Shutdown)
         /\ o = r \o For(d, a)

LEMMA PrefixFor ==
  ASSUME NEW d, NEW r \in Seq(Item), NEW a \in Seq(Mail), NEW b \in Seq(Mail)
  PROVE  IsPrefix(r \o For(d, a), r \o For(d, a \o b))
<1>1. PICK f, g \in Seq(Item) : f = For(d, a) /\ g = For(d, b) BY ForType
<1>2. For(d, a \o b) = f \o g BY <1>1, ForConcat, Zenon
<1>3. (r \o f) \o g = r \o (f \o g) BY ItemsAssociative
<1>4. PICK o \in Seq(Item) : o = r \o f BY ConcatProperties
<1>5. IsPrefix(o, o \o g) BY PrefixOfItself, PrefixMore
<1> QED BY <1>1, <1>2, <1>3, <1>4, <1>5

LEMMA LineInOrder ==
  ASSUME NEW d, NEW o \in Seq(Item), NEW r \in Seq(Item), NEW q \in Seq(Mail), NEW down \in BOOLEAN,
         LineOK(o, r, q, down, d)
  PROVE  IsPrefix(o, r \o For(d, q))
<1>1. For(d, q) \in Seq(Item) BY ForType
<1>2. CASE down BY <1>1, <1>2, PrefixMore DEF LineOK
<1>3. CASE ~down
  <2>1. PICK a, b \in Seq(Mail) : q = a \o b /\ o = r \o For(d, a) BY <1>3 DEF LineOK
  <2> QED BY <2>1, PrefixFor
<1> QED BY <1>2, <1>3

LEMMA RangeConcat ==
  ASSUME NEW A, NEW a \in Seq(A), NEW b \in Seq(A)
  PROVE  Range(a \o b) = Range(a) \cup Range(b)
<1> DEFINE T == {r \in Seq(A) : Range(a \o r) = Range(a) \cup Range(r)}
<1>1. <<>> \in T
  <2>1. a \o <<>> = a BY ConcatEmptySeq
  <2> QED BY <2>1, RangeEmpty
<1>2. ASSUME NEW r \in Seq(A), NEW x \in A, r \in T PROVE Append(r, x) \in T
  <2>1. Append(r, x) \in Seq(A) /\ a \o r \in Seq(A) /\ a \o Append(r, x) = Append(a \o r, x)
    BY ConcatAppend
  <2>2. Range(Append(a \o r, x)) = Range(a \o r) \cup {x}
    <3>1. PICK c \in Seq(A) : c = a \o r BY <2>1
    <3>2. Range(Append(c, x)) = Range(c) \cup {x} BY RangeAppend
    <3> QED BY <3>1, <3>2
  <2>3. Range(Append(r, x)) = Range(r) \cup {x} BY RangeAppend
  <2> QED BY <1>2, <2>1, <2>2, <2>3
<1>3. b \in T
  <2> HIDE DEF T
  <2> QED BY <1>1, <1>2, SeqUp, Zenon
<1> QED BY <1>3

\* An item enters the mailbox: it is owed, when it is for the device and Shutdown is
\* not in front of it.
LEMMA LinePut ==
  ASSUME NEW d, NEW o \in Seq(Item), NEW r \in Seq(Item), NEW q \in Seq(Mail), NEW down \in BOOLEAN,
         LineOK(o, r, q, down, d), NEW x \in Item, NEW p,
         p = IF DeviceOf[x] # d \/ down \/ Shutdown \in Range(q) THEN o ELSE Append(o, x)
  PROVE  LineOK(p, r, Append(q, x), down, d)
<1>1. CASE down BY <1>1 DEF LineOK
<1>2. CASE ~down
  <2>1. PICK a, b \in Seq(Mail) : /\ q = a \o b /\ Shutdown \notin Range(a) /\ (b # <<>> => Head(b) = Shutdown)
                                  /\ o = r \o For(d, a)
    BY <1>2 DEF LineOK
  <2>2. x \in Mail /\ x # Shutdown BY ItemFacts
  <2>3. CASE b # <<>>
    <3>1. Append(b, x) \in Seq(Mail) /\ Append(q, x) = a \o Append(b, x) /\ Head(Append(b, x)) = Head(b)
      <4>1. Append(b, x) \in Seq(Mail) /\ a \o Append(b, x) = Append(a \o b, x) BY <2>2, ConcatAppend
      <4>2. Head(Append(b, x)) = Head(b) BY <2>3, HeadTailAppend
      <4> QED BY <2>1, <4>1, <4>2
    <3>2. Shutdown \in Range(q)
      <4>1. Range(b) = {Head(b)} \cup Range(Tail(b)) BY <2>3, RangeTail
      <4>2. Range(q) = Range(a) \cup Range(b) BY <2>1, RangeConcat
      <4> QED BY <2>1, <2>3, <4>1, <4>2
    <3>3. p = o BY <3>2
    <3> QED BY <1>2, <2>1, <2>3, <3>1, <3>3 DEF LineOK
  <2>4. CASE b = <<>>
    <3> DEFINE e == <<>>
    <3>1. q = a /\ e \in Seq(Mail) /\ Append(a, x) \in Seq(Mail) BY <2>1, <2>2, <2>4, ConcatEmptySeq
    <3>2. Append(q, x) = Append(a, x) \o e BY <3>1, ConcatEmptySeq
    <3>3. Shutdown \notin Range(Append(a, x)) BY <2>1, <2>2, RangeAppend
    <3>4. For(d, Append(a, x)) = IF DeviceOf[x] = d THEN Append(For(d, a), x) ELSE For(d, a)
      BY <2>2, ForAppend
    <3>5. p = IF DeviceOf[x] = d THEN Append(o, x) ELSE o BY <1>2, <2>1, <3>1
    <3>6. p = r \o For(d, Append(a, x))
      <4>1. For(d, a) \in Seq(Item) BY ForType
      <4>2. r \o Append(For(d, a), x) = Append(r \o For(d, a), x) BY <4>1, ConcatAppend
      <4>3. CASE DeviceOf[x] = d BY <2>1, <3>4, <3>5, <4>2, <4>3
      <4>4. CASE DeviceOf[x] # d BY <2>1, <3>4, <3>5, <4>4
      <4> QED BY <4>3, <4>4
    <3>7. e # <<>> => Head(e) = Shutdown OBVIOUS
    <3> HIDE DEF e
    <3>8. \E f, g \in Seq(Mail) : /\ Append(q, x) = f \o g /\ Shutdown \notin Range(f)
                                  /\ (g # <<>> => Head(g) = Shutdown) /\ p = r \o For(d, f)
      BY <3>1, <3>2, <3>3, <3>6, <3>7
    <3> QED BY <1>2, <3>8 DEF LineOK
  <2> QED BY <2>3, <2>4
<1> QED BY <1>1, <1>2

LEMMA LineShutdown ==
  ASSUME NEW d, NEW o \in Seq(Item), NEW r \in Seq(Item), NEW q \in Seq(Mail), NEW down \in BOOLEAN,
         LineOK(o, r, q, down, d)
  PROVE  LineOK(o, r, Append(q, Shutdown), down, d)
<1>1. CASE down BY <1>1 DEF LineOK
<1>2. CASE ~down
  <2>1. PICK a, b \in Seq(Mail) : /\ q = a \o b /\ Shutdown \notin Range(a) /\ (b # <<>> => Head(b) = Shutdown)
                                  /\ o = r \o For(d, a)
    BY <1>2 DEF LineOK
  <2>2. Shutdown \in Mail BY DEF Mail
  <2> DEFINE c == Append(b, Shutdown)
  <2>3. c \in Seq(Mail) /\ Append(q, Shutdown) = a \o c BY <2>1, <2>2, ConcatAppend
  <2>4. Head(c) = Shutdown BY <2>1, <2>2, HeadTailAppend
  <2> HIDE DEF c
  <2> QED BY <1>2, <2>1, <2>3, <2>4 DEF LineOK
<1> QED BY <1>1, <1>2

\* The worker receives an item.
LEMMA LineReceive ==
  ASSUME NEW d, NEW o \in Seq(Item), NEW r \in Seq(Item), NEW q \in Seq(Mail), NEW down \in BOOLEAN,
         LineOK(o, r, q, down, d), q # <<>>, NEW x \in Item, x = Head(q), NEW p,
         p = IF DeviceOf[x] = d THEN Append(r, x) ELSE r
  PROVE  LineOK(o, p, Tail(q), down, d)
<1>1. CASE down
  <2>1. Append(r, x) = r \o <<x>> /\ <<x>> \in Seq(Item) BY AppendIsConcat
  <2>2. IsPrefix(o, r) BY <1>1 DEF LineOK
  <2>3. IsPrefix(o, r \o <<x>>) BY <2>1, <2>2, PrefixMore
  <2> QED BY <1>1, <2>1, <2>2, <2>3 DEF LineOK
<1>2. CASE ~down
  <2>1. PICK a, b \in Seq(Mail) : /\ q = a \o b /\ Shutdown \notin Range(a) /\ (b # <<>> => Head(b) = Shutdown)
                                  /\ o = r \o For(d, a)
    BY <1>2 DEF LineOK
  <2>2. x \in Mail /\ x # Shutdown BY ItemFacts
  <2>3. a # <<>>
    <3>1. SUFFICES ASSUME a = <<>> PROVE FALSE OBVIOUS
    <3>2. q = b BY <2>1, <3>1, ConcatEmptySeq
    <3> QED BY <2>1, <2>2, <3>2
  <2>4. Head(a) = x /\ Tail(q) = Tail(a) \o b /\ Tail(a) \in Seq(Mail) BY <2>1, <2>3, ConcatTail
  <2>5. Shutdown \notin Range(Tail(a)) BY <2>1, <2>3, RangeTail
  <2>6. For(d, a) = IF DeviceOf[x] = d THEN <<x>> \o For(d, Tail(a)) ELSE For(d, Tail(a))
    BY <2>3, <2>4, KeepTail DEF For
  <2>7. For(d, Tail(a)) \in Seq(Item) BY <2>4, ForType
  <2>8. o = p \o For(d, Tail(a))
    <3>1. CASE DeviceOf[x] = d
      <4>1. <<x>> \in Seq(Item) /\ Append(r, x) = r \o <<x>> BY AppendIsConcat
      <4>2. r \o (<<x>> \o For(d, Tail(a))) = (r \o <<x>>) \o For(d, Tail(a))
        <5>1. PICK c, f \in Seq(Item) : c = <<x>> /\ f = For(d, Tail(a)) BY <2>7, <4>1
        <5>2. (r \o c) \o f = r \o (c \o f) BY ItemsAssociative
        <5> QED BY <5>1, <5>2
      <4> QED BY <2>1, <2>6, <3>1, <4>1, <4>2
    <3>2. CASE DeviceOf[x] # d BY <2>1, <2>6, <3>2
    <3> QED BY <3>1, <3>2
  <2> QED BY <1>2, <2>1, <2>4, <2>5, <2>8 DEF LineOK
<1> QED BY <1>1, <1>2

LEMMA LineReceiveShutdown ==
  ASSUME NEW d, NEW o \in Seq(Item), NEW r \in Seq(Item), NEW q \in Seq(Mail), NEW down \in BOOLEAN,
         LineOK(o, r, q, down, d), q # <<>>, Head(q) = Shutdown
  PROVE  LineOK(o, r, Tail(q), TRUE, d)
<1>1. CASE down BY <1>1 DEF LineOK
<1>2. CASE ~down
  <2>1. PICK a, b \in Seq(Mail) : q = a \o b /\ Shutdown \notin Range(a) /\ o = r \o For(d, a)
    BY <1>2 DEF LineOK
  <2>2. a = <<>>
    <3>1. SUFFICES ASSUME a # <<>> PROVE FALSE OBVIOUS
    <3>2. Head(a) = Shutdown BY <2>1, <3>1
    <3> QED BY <2>1, <3>1, <3>2, RangeTail
  <2>3. For(d, a) = <<>> BY <2>2, KeepEmpty DEF For
  <2>4. o = r BY <2>1, <2>3, ConcatEmptySeq
  <2> QED BY <2>4, PrefixOfItself DEF LineOK
<1> QED BY <1>1, <1>2

\* The actor gets the first item of its ready queue.
LEMMA LineHandle ==
  ASSUME NEW d, NEW o \in Seq(Item), NEW r \in Seq(Item), NEW q \in Seq(Mail), NEW down \in BOOLEAN,
         LineOK(o, r, q, down, d), r # <<>>, NEW p,
         p = IF o # <<>> /\ Head(o) = Head(r) THEN Tail(o) ELSE o
  PROVE  LineOK(p, Tail(r), q, down, d)
<1>1. Tail(r) \in Seq(Item) OBVIOUS
<1>2. CASE down
  <2>1. CASE o = <<>> BY <1>1, <1>2, <2>1, PrefixOfItself DEF LineOK
  <2>2. CASE o # <<>> BY <1>2, <2>2, PrefixTail DEF LineOK
  <2> QED BY <2>1, <2>2
<1>3. CASE ~down
  <2>1. PICK a, b \in Seq(Mail) : /\ q = a \o b /\ Shutdown \notin Range(a) /\ (b # <<>> => Head(b) = Shutdown)
                                  /\ o = r \o For(d, a)
    BY <1>3 DEF LineOK
  <2>2. For(d, a) \in Seq(Item) BY ForType
  <2>3. o # <<>> /\ Head(o) = Head(r) /\ Tail(o) = Tail(r) \o For(d, a)
    <3>1. PICK f \in Seq(Item) : f = For(d, a) /\ o = r \o f BY <2>1, <2>2
    <3> QED BY <3>1, ItemsTail, Zenon
  <2>4. p = Tail(r) \o For(d, a) BY <2>3
  <2> QED BY <1>3, <2>1, <2>4 DEF LineOK
<1> QED BY <1>2, <1>3

\* The ready queue is dropped.
LEMMA LineDrop ==
  ASSUME NEW d, NEW o \in Seq(Item), NEW r \in Seq(Item), NEW q \in Seq(Mail), NEW down \in BOOLEAN,
         LineOK(o, r, q, down, d)
  PROVE  LineOK(SubSeq(o, Len(r) + 1, Len(o)), <<>>, q, down, d)
<1> DEFINE e == <<>>
<1>1. e \in Seq(Item) /\ r \o e = r BY ConcatEmptySeq
<1>2. CASE down
  <2>1. IsPrefix(o, r \o e) BY <1>1, <1>2 DEF LineOK
  <2> HIDE DEF e
  <2>2. IsPrefix(SubSeq(o, Len(r) + 1, Len(o)), e) BY <1>1, <2>1, PrefixDrop
  <2> QED BY <1>2, <2>2 DEF LineOK, e
<1>3. CASE ~down
  <2>1. PICK a, b \in Seq(Mail) : /\ q = a \o b /\ Shutdown \notin Range(a) /\ (b # <<>> => Head(b) = Shutdown)
                                  /\ o = r \o For(d, a)
    BY <1>3 DEF LineOK
  <2>2. For(d, a) \in Seq(Item) BY ForType
  <2>3. SubSeq(o, Len(r) + 1, Len(o)) = For(d, a) BY <2>1, <2>2, DropAll
  <2>4. e \o For(d, a) = For(d, a) BY <2>2, ConcatEmptySeq
  <2>5. SubSeq(o, Len(r) + 1, Len(o)) = e \o For(d, a) BY <2>3, <2>4
  <2> QED BY <1>3, <2>1, <2>5 DEF LineOK
<1> QED BY <1>2, <1>3

\* The inductive invariant of the order.
LineOf(d) ==
  IF Stopped(Route[d]) THEN owed[d] = <<>>
  ELSE LineOK(owed[d], shard[Route[d]].ready[d], mailbox[Route[d]], shard[Route[d]].down, d)

\* A shard has items of its own devices only.
Routed(s) ==
  /\ \A x \in Item : x \in Range(mailbox[s]) => ShardOf(x) = s
  /\ \A d \in Device : Route[d] # s => shard[s].ready[d] = <<>>

OrderOK == (\A d \in Device : LineOf(d)) /\ (\A s \in Shard : Routed(s))

LEMMA LineTypes ==
  ASSUME TypesAndWorkers, NEW d \in Device
  PROVE  /\ Route[d] \in Shard /\ owed[d] \in Seq(Item) /\ shard[Route[d]] \in ShardState
         /\ shard[Route[d]].ready[d] \in Seq(Item) /\ mailbox[Route[d]] \in Seq(Mail)
         /\ shard[Route[d]].down \in BOOLEAN
<1>1. Route[d] \in Shard BY RuntimeAssumption
<1>2. shard[Route[d]] \in ShardState BY <1>1 DEF TypesAndWorkers, RuntimeTypeOK
<1> QED BY <1>1, <1>2 DEF TypesAndWorkers, RuntimeTypeOK, QueueTypes, ShardState

LEMMA OrderInOrder == TypesAndWorkers /\ OrderOK => InOrder
<1> SUFFICES ASSUME TypesAndWorkers, OrderOK, NEW d \in Device
             PROVE  IF Stopped(Route[d]) THEN owed[d] = <<>>
                    ELSE IsPrefix(owed[d], shard[Route[d]].ready[d] \o For(d, mailbox[Route[d]]))
  BY DEF InOrder
<1>1. LineOf(d) BY DEF OrderOK
<1>2. CASE Stopped(Route[d]) BY <1>1, <1>2 DEF LineOf
<1>3. CASE ~Stopped(Route[d])
  <2>1. PICK o, r \in Seq(Item), q \in Seq(Mail), down \in BOOLEAN :
          /\ o = owed[d] /\ r = shard[Route[d]].ready[d] /\ q = mailbox[Route[d]] /\ down = shard[Route[d]].down
    BY LineTypes
  <2>2. LineOK(o, r, q, down, d) BY <1>1, <1>3, <2>1 DEF LineOf
  <2>3. IsPrefix(o, r \o For(d, q)) BY <2>2, LineInOrder
  <2> QED BY <1>3, <2>1, <2>3
<1> QED BY <1>2, <1>3

\* A step of nobody whom the order concerns.
LEMMA OrderStays ==
  ASSUME OrderOK, UNCHANGED <<owed, shard, mailbox>>
  PROVE  OrderOK'
BY DEF OrderOK, LineOf, Routed, Stopped

\* An item enters the mailbox of a shard that goes on.
LEMMA OrderPut ==
  ASSUME TypesAndWorkers, OrderOK, NEW x \in Item, Put(x), ~Stopped(ShardOf(x)), UNCHANGED shard
  PROVE  OrderOK'
<1>1. QueueTypes BY DEF TypesAndWorkers, RuntimeTypeOK
<1>2. /\ mailbox'[ShardOf(x)] = Append(mailbox[ShardOf(x)], x)
      /\ \A s \in Shard : s # ShardOf(x) => mailbox'[s] = mailbox[s]
      /\ owed'[DeviceOf[x]] = IF Told(ShardOf(x)) THEN owed[DeviceOf[x]] ELSE Append(owed[DeviceOf[x]], x)
      /\ \A d \in Device : d # DeviceOf[x] => owed'[d] = owed[d]
  BY <1>1, PutFacts
<1>3. /\ DeviceOf[x] \in Device /\ ShardOf(x) \in Shard /\ x \in Mail /\ x # Shutdown
      /\ ShardOf(x) = Route[DeviceOf[x]]
  BY ItemFacts
<1>4. ASSUME NEW d \in Device PROVE LineOf(d)'
  <2>1. LineOf(d) /\ Route[d] \in Shard BY LineTypes DEF OrderOK
  <2>2. CASE Route[d] # ShardOf(x)
    <3>1. mailbox'[Route[d]] = mailbox[Route[d]] /\ owed'[d] = owed[d] BY <1>2, <1>3, <2>1, <2>2
    <3> QED BY <2>1, <3>1 DEF LineOf, Stopped
  <2>3. CASE Route[d] = ShardOf(x)
    <3>1. PICK o, r \in Seq(Item), q \in Seq(Mail), down \in BOOLEAN :
            /\ o = owed[d] /\ r = shard[Route[d]].ready[d] /\ q = mailbox[Route[d]] /\ down = shard[Route[d]].down
      BY LineTypes
    <3>2. LineOK(o, r, q, down, d) BY <2>1, <2>3, <3>1 DEF LineOf
    <3>3. PICK p : p = IF DeviceOf[x] # d \/ down \/ Shutdown \in Range(q) THEN o ELSE Append(o, x) OBVIOUS
    <3>4. LineOK(p, r, Append(q, x), down, d) BY <3>2, <3>3, LinePut
    <3>5. owed'[d] = p
      <4>1. CASE DeviceOf[x] # d BY <1>2, <3>1, <3>3, <4>1
      <4>2. CASE DeviceOf[x] = d
        <5>1. Told(ShardOf(x)) <=> down \/ Shutdown \in Range(q) BY <2>3, <3>1 DEF Told
        <5> QED BY <1>2, <3>1, <3>3, <4>2, <5>1
      <4> QED BY <4>1, <4>2
    <3>6. mailbox'[Route[d]] = Append(q, x) BY <1>2, <2>3, <3>1
    <3> QED BY <2>3, <3>1, <3>4, <3>5, <3>6 DEF LineOf, Stopped
  <2> QED BY <2>2, <2>3
<1>5. ASSUME NEW s \in Shard PROVE Routed(s)'
  <2>1. Routed(s) BY DEF OrderOK
  <2>2. ASSUME NEW y \in Item, y \in Range(mailbox'[s]) PROVE ShardOf(y) = s
    <3>1. CASE s # ShardOf(x) BY <1>2, <2>1, <2>2, <3>1 DEF Routed
    <3>2. CASE s = ShardOf(x)
      <4>1. mailbox[s] \in Seq(Mail) BY <1>1 DEF QueueTypes
      <4>2. Range(Append(mailbox[s], x)) = Range(mailbox[s]) \cup {x} BY <1>3, <4>1, RangeAppend
      <4> QED BY <1>2, <2>1, <2>2, <3>2, <4>2 DEF Routed
    <3> QED BY <3>1, <3>2
  <2>3. \A d \in Device : Route[d] # s => shard'[s].ready[d] = <<>> BY <2>1 DEF Routed
  <2> QED BY <2>2, <2>3 DEF Routed
<1> QED BY <1>4, <1>5 DEF OrderOK

LEMMA OrderShutdown ==
  ASSUME TypesAndWorkers, OrderOK, SendShutdown
  PROVE  OrderOK'
<1>1. PICK u \in Shard :
        UNCHANGED mailbox \/ (~Stopped(u) /\ mailbox' = [mailbox EXCEPT ![u] = Append(@, Shutdown)])
  BY SendShutdownFacts
<1>2. UNCHANGED <<shard, owed>> BY DEF SendShutdown
<1>3. CASE UNCHANGED mailbox BY <1>2, <1>3, OrderStays
<1>4. CASE ~Stopped(u) /\ mailbox' = [mailbox EXCEPT ![u] = Append(@, Shutdown)]
  <2>1. mailbox \in [Shard -> Seq(Mail)] /\ Shutdown \in Mail BY DEF TypesAndWorkers, RuntimeTypeOK, QueueTypes, Mail
  <2>2. mailbox'[u] = Append(mailbox[u], Shutdown) /\ \A s \in Shard : s # u => mailbox'[s] = mailbox[s]
    BY <1>4, <2>1
  <2>3. ASSUME NEW d \in Device PROVE LineOf(d)'
    <3>1. LineOf(d) /\ Route[d] \in Shard BY LineTypes DEF OrderOK
    <3>2. CASE Route[d] # u BY <1>2, <2>2, <3>1, <3>2 DEF LineOf, Stopped
    <3>3. CASE Route[d] = u
      <4>1. PICK o, r \in Seq(Item), q \in Seq(Mail), down \in BOOLEAN :
              /\ o = owed[d] /\ r = shard[u].ready[d] /\ q = mailbox[u] /\ down = shard[u].down
        BY <3>3, LineTypes
      <4>2. LineOK(o, r, q, down, d) BY <1>4, <3>1, <3>3, <4>1 DEF LineOf
      <4>3. LineOK(o, r, Append(q, Shutdown), down, d) BY <4>2, LineShutdown
      <4> QED BY <1>2, <1>4, <2>2, <3>3, <4>1, <4>3 DEF LineOf, Stopped
    <3> QED BY <3>2, <3>3
  <2>4. ASSUME NEW s \in Shard PROVE Routed(s)'
    <3>1. Routed(s) BY DEF OrderOK
    <3>2. Range(Append(mailbox[u], Shutdown)) = Range(mailbox[u]) \cup {Shutdown} BY <2>1, RangeAppend
    <3>3. Shutdown \notin Item BY RuntimeAssumption DEF Item
    <3>4. \A x \in Item : x \in Range(mailbox'[s]) => x \in Range(mailbox[s]) BY <2>2, <3>2, <3>3
    <3> QED BY <1>2, <3>1, <3>4 DEF Routed
  <2> QED BY <2>3, <2>4 DEF OrderOK
<1> QED BY <1>1, <1>3, <1>4

\* What a worker that becomes q has to do.
WorkerLine(s, q) ==
  /\ \A d \in Device :
       IF Route[d] = s
       THEN IF q.pc = "stopped" THEN owed'[d] = <<>> ELSE LineOK(owed'[d], q.ready[d], mailbox'[s], q.down, d)
       ELSE owed'[d] = owed[d] /\ q.ready[d] = <<>>
  /\ \A x \in Item : x \in Range(mailbox'[s]) => x \in Range(mailbox[s])

LEMMA OrderWorker ==
  ASSUME TypesAndWorkers, OrderOK, NEW s \in Shard, NEW q, shard' = [shard EXCEPT ![s] = q], WorkerLine(s, q),
         \A u \in Shard : u # s => mailbox'[u] = mailbox[u]
  PROVE  OrderOK'
<1>1. shard'[s] = q /\ \A u \in Shard : u # s => shard'[u] = shard[u] BY DEF TypesAndWorkers, RuntimeTypeOK
<1>2. ASSUME NEW d \in Device PROVE LineOf(d)'
  <2>1. LineOf(d) /\ Route[d] \in Shard BY LineTypes DEF OrderOK
  <2>2. CASE Route[d] # s
    <3>1. /\ shard'[Route[d]] = shard[Route[d]] /\ mailbox'[Route[d]] = mailbox[Route[d]]
          /\ owed'[d] = owed[d]
      BY <1>1, <2>1, <2>2 DEF WorkerLine
    <3> QED BY <2>1, <3>1 DEF LineOf, Stopped
  <2>3. CASE Route[d] = s
    <3>1. IF q.pc = "stopped" THEN owed'[d] = <<>> ELSE LineOK(owed'[d], q.ready[d], mailbox'[s], q.down, d)
      BY <2>3 DEF WorkerLine
    <3> QED BY <1>1, <2>3, <3>1 DEF LineOf, Stopped
  <2> QED BY <2>2, <2>3
<1>3. ASSUME NEW u \in Shard PROVE Routed(u)'
  <2>1. Routed(u) BY DEF OrderOK
  <2>2. CASE u # s BY <1>1, <2>1, <2>2 DEF Routed
  <2>3. CASE u = s
    <3>1. \A d \in Device : Route[d] # s => q.ready[d] = <<>> BY DEF WorkerLine
    <3>2. \A x \in Item : x \in Range(mailbox'[s]) => x \in Range(mailbox[s]) BY DEF WorkerLine
    <3> QED BY <1>1, <2>1, <2>3, <3>1, <3>2 DEF Routed
  <2> QED BY <2>2, <2>3
<1> QED BY <1>2, <1>3 DEF OrderOK

\* The line of a device of a shard that goes on.
LEMMA LineHere ==
  ASSUME TypesAndWorkers, OrderOK, NEW s \in Shard, ~Stopped(s), NEW d \in Device, Route[d] = s
  PROVE  /\ owed[d] \in Seq(Item) /\ shard[s].ready[d] \in Seq(Item) /\ mailbox[s] \in Seq(Mail)
         /\ shard[s].down \in BOOLEAN /\ LineOK(owed[d], shard[s].ready[d], mailbox[s], shard[s].down, d)
<1>1. LineOf(d) BY DEF OrderOK
<1> QED BY <1>1, LineTypes DEF LineOf

LEMMA ReceiveOrder ==
  ASSUME TypesAndWorkers, OrderOK, NEW s \in Shard, Receive(s)
  PROVE  OrderOK'
<1>1. QueueTypes BY DEF TypesAndWorkers, RuntimeTypeOK
<1>2. PICK x \in Mail : x = Head(mailbox[s]) BY <1>1, HeadOfMail DEF Receive
<1>3. PICK q : q = Sort(shard[s], x) OBVIOUS
<1>4. shard[s] \in ShardState /\ WorkerOK(shard[s]) /\ shard[s].pc \in {"recv", "drain"}
  BY DEF TypesAndWorkers, RuntimeTypeOK, WorkersOK, Receive
<1>5. /\ q.pc = "drain"
      /\ x = Shutdown => q.ready = shard[s].ready /\ q.down
      /\ x # Shutdown => /\ q.down = shard[s].down
                         /\ q.ready[DeviceOf[x]] = Append(shard[s].ready[DeviceOf[x]], x)
                         /\ \A d \in Device : d # DeviceOf[x] => q.ready[d] = shard[s].ready[d]
  BY <1>3, <1>4, SortFacts
<1>6. q \in ShardState BY <1>3, <1>4, SortFacts
<1>7. /\ shard' = [shard EXCEPT ![s] = q] /\ UNCHANGED owed /\ ~Stopped(s)
      /\ mailbox' = [mailbox EXCEPT ![s] = Tail(@)] /\ mailbox[s] # <<>>
  BY <1>2, <1>3, <1>4 DEF Receive, Stopped
<1>8. mailbox \in [Shard -> Seq(Mail)] /\ mailbox[s] \in Seq(Mail) BY <1>1 DEF QueueTypes
<1>9. mailbox'[s] = Tail(mailbox[s]) /\ \A u \in Shard : u # s => mailbox'[u] = mailbox[u] BY <1>7, <1>8
<1>10. Range(mailbox[s]) = {x} \cup Range(mailbox'[s])
  <2>1. Range(mailbox[s]) = {Head(mailbox[s])} \cup Range(Tail(mailbox[s])) BY <1>7, <1>8, RangeTail
  <2> QED BY <1>2, <1>9, <2>1
<1>11. Routed(s) BY DEF OrderOK
<1>12. x # Shutdown => x \in Item /\ Route[DeviceOf[x]] = s BY <1>10, <1>11 DEF Routed, Mail, ShardOf
<1>13. ASSUME NEW d \in Device, Route[d] = s PROVE LineOK(owed'[d], q.ready[d], mailbox'[s], q.down, d)
  <2>1. PICK o, r \in Seq(Item), b \in Seq(Mail), down \in BOOLEAN :
          o = owed[d] /\ r = shard[s].ready[d] /\ b = mailbox[s] /\ down = shard[s].down
    BY <1>7, <1>13, LineHere
  <2>2. LineOK(o, r, b, down, d) BY <1>7, <1>13, <2>1, LineHere
  <2>3. b # <<>> /\ x = Head(b) /\ mailbox'[s] = Tail(b) /\ owed'[d] = o BY <1>2, <1>7, <1>9, <2>1
  <2>4. CASE x = Shutdown
    <3>1. LineOK(o, r, Tail(b), TRUE, d) BY <2>2, <2>3, <2>4, LineReceiveShutdown
    <3>2. q.ready[d] = r /\ q.down = TRUE BY <1>5, <1>6, <2>1, <2>4 DEF ShardState
    <3> QED BY <2>3, <3>1, <3>2
  <2>5. CASE x # Shutdown
    <3>1. PICK p : p = IF DeviceOf[x] = d THEN Append(r, x) ELSE r OBVIOUS
    <3>2. LineOK(o, p, Tail(b), down, d) BY <1>12, <2>2, <2>3, <2>5, <3>1, LineReceive
    <3>3. q.ready[d] = p /\ q.down = down BY <1>5, <2>1, <2>5, <3>1
    <3> QED BY <2>3, <3>2, <3>3
  <2> QED BY <2>4, <2>5
<1>14. ASSUME NEW d \in Device, Route[d] # s PROVE owed'[d] = owed[d] /\ q.ready[d] = <<>>
  <2>1. shard[s].ready[d] = <<>> BY <1>11, <1>14 DEF Routed
  <2>2. x # Shutdown => d # DeviceOf[x] BY <1>12, <1>14
  <2> QED BY <1>5, <1>7, <2>1, <2>2
<1>15. WorkerLine(s, q) BY <1>5, <1>10, <1>13, <1>14 DEF WorkerLine
<1> QED BY <1>7, <1>9, <1>15, OrderWorker

\* A worker that keeps its queues.
LEMMA WorkerKeepsLine ==
  ASSUME TypesAndWorkers, OrderOK, NEW s \in Shard, NEW q, shard' = [shard EXCEPT ![s] = q],
         q.ready = shard[s].ready, q.down = shard[s].down, q.pc # "stopped", ~Stopped(s),
         UNCHANGED <<owed, mailbox>>
  PROVE  OrderOK'
<1>1. \A d \in Device : Route[d] = s => LineOK(owed'[d], q.ready[d], mailbox'[s], q.down, d) BY LineHere
<1>2. \A d \in Device : Route[d] # s => owed'[d] = owed[d] /\ q.ready[d] = <<>> BY DEF OrderOK, Routed
<1>3. WorkerLine(s, q) BY <1>1, <1>2 DEF WorkerLine
<1> QED BY <1>3, OrderWorker

LEMMA ReceivedOrder ==
  ASSUME TypesAndWorkers, OrderOK, NEW s \in Shard, Received(s)
  PROVE  OrderOK'
<1>1. PICK q : q = [shard[s] EXCEPT !.pc = "poll"] OBVIOUS
<1>2. shard[s] \in ShardState BY DEF TypesAndWorkers, RuntimeTypeOK
<1>3. q.down = shard[s].down /\ q.ready = shard[s].ready /\ q.pc # "stopped" BY <1>1, <1>2 DEF ShardState
<1>4. shard' = [shard EXCEPT ![s] = q] BY <1>1 DEF Received
<1>5. UNCHANGED <<owed, mailbox>> /\ ~Stopped(s) BY DEF Received, Stopped
<1> QED BY <1>3, <1>4, <1>5, WorkerKeepsLine

LEMMA EvictOrder ==
  ASSUME TypesAndWorkers, OrderOK, NEW s \in Shard, EvictIdle(s) \/ ShutdownActor(s)
  PROVE  OrderOK'
<1>1. ~Stopped(s) /\ UNCHANGED <<owed, mailbox>> /\ (ShutdownActor(s) => shard[s].pc = "closing")
  <2>1. CASE EvictIdle(s)
    <3>1. UNCHANGED <<owed, mailbox>> BY <2>1, Zenon DEF EvictIdle
    <3>2. shard[s].pc = "poll" BY <2>1, Zenon DEF EvictIdle
    <3>3. ShutdownActor(s) => shard[s].pc = "closing" BY Zenon DEF ShutdownActor
    <3> QED BY <3>1, <3>2, <3>3 DEF Stopped
  <2>2. CASE ShutdownActor(s) BY <2>2 DEF ShutdownActor, Stopped
  <2> QED BY <2>1, <2>2
<1>2. PICK q \in ShardState : /\ shard' = [shard EXCEPT ![s] = q] /\ q.ready = shard[s].ready
                              /\ q.down = shard[s].down /\ q.pc # "stopped"
  <2>1. CASE EvictIdle(s) BY <2>1, EvictFacts
  <2>2. CASE ShutdownActor(s) BY <1>1, <2>2, ShutdownActorFacts
  <2> QED BY <2>1, <2>2
<1> QED BY <1>1, <1>2, WorkerKeepsLine

LEMMA EmitOrder ==
  ASSUME TypesAndWorkers, OrderOK, NEW s \in Shard, Emit(s)
  PROVE  OrderOK'
<1>1. PICK q : q = Finished(shard[s]) OBVIOUS
<1>2. q.ready = shard[s].ready /\ q.down = shard[s].down /\ q.pc # "stopped" BY <1>1, EmitFacts
<1>3. shard' = [shard EXCEPT ![s] = q] /\ UNCHANGED <<owed, mailbox>> /\ ~Stopped(s) BY <1>1 DEF Emit, Stopped
<1> QED BY <1>2, <1>3, WorkerKeepsLine

LEMMA ExitOrder ==
  ASSUME TypesAndWorkers, OrderOK, NEW s \in Shard, Exit(s)
  PROVE  OrderOK'
<1>1. PICK q : q = [NewShard EXCEPT !.pc = "stopped"] OBVIOUS
<1>2. q.pc = "stopped" /\ q.ready = [d \in Device |-> <<>>] BY <1>1, NewShardFacts DEF NewShard
<1>3. shard[s] \in ShardState /\ WorkerOK(shard[s]) /\ shard[s].pc = "closing" /\ ~Stopped(s)
  BY DEF TypesAndWorkers, RuntimeTypeOK, WorkersOK, Exit, Stopped
<1>4. shard[s].down /\ \A d \in Device : shard[s].ready[d] = <<>> BY <1>3 DEF WorkerOK
<1>5. UNCHANGED owed BY DEF Exit
<1>6. ASSUME NEW d \in Device, Route[d] = s PROVE owed'[d] = <<>>
  <2>1. owed[d] \in Seq(Item) /\ LineOK(owed[d], shard[s].ready[d], mailbox[s], shard[s].down, d)
    BY <1>3, <1>6, LineHere
  <2>2. IsPrefix(owed[d], <<>>) BY <1>4, <2>1 DEF LineOK
  <2> QED BY <1>5, <2>1, <2>2, PrefixOfItself
<1>7. mailbox' = [mailbox EXCEPT ![s] = <<>>] /\ mailbox \in [Shard -> Seq(Mail)]
  BY DEF Exit, TypesAndWorkers, RuntimeTypeOK, QueueTypes
<1>8. mailbox'[s] = <<>> /\ \A u \in Shard : u # s => mailbox'[u] = mailbox[u] BY <1>7
<1>9. WorkerLine(s, q) BY <1>2, <1>5, <1>6, <1>8, RangeEmpty DEF WorkerLine
<1>10. shard' = [shard EXCEPT ![s] = q] BY <1>1 DEF Exit
<1> QED BY <1>8, <1>9, <1>10, OrderWorker

LEMMA HandleOrder ==
  ASSUME TypesAndWorkers, OrderOK, NEW s \in Shard, Handle(s)
  PROVE  OrderOK'
<1>1. PICK sh : sh = shard[s] OBVIOUS
<1>2. PICK d : d = Min(Turn(sh).round) OBVIOUS
<1>3. sh \in ShardState /\ WorkerOK(sh) /\ Ready(sh) # {} /\ sh.pc = "poll" /\ Handled(s, sh, d)
  BY <1>1, <1>2, HandleIs
<1>4. /\ d \in Device /\ sh.ready[d] # <<>> /\ Taken(sh).ready[d] = Tail(sh.ready[d])
      /\ \A e \in Device : e # d => Taken(sh).ready[e] = sh.ready[e]
  BY <1>2, <1>3, TakenFacts
<1>5. ~Stopped(s) /\ UNCHANGED mailbox BY <1>1, <1>3 DEF Stopped, Handle
<1>6. PICK calls \in Calls(d) : shard' = [shard EXCEPT ![s] = [Taken(sh) EXCEPT !.pc = "handle", !.calls = calls]]
  BY <1>3 DEF Handled
<1>7. PICK q : /\ q = [Taken(sh) EXCEPT !.pc = "handle", !.calls = calls] /\ shard' = [shard EXCEPT ![s] = q]
               /\ q.ready = Taken(sh).ready /\ q.down = sh.down /\ q.pc # "stopped"
  BY <1>3, <1>6, CallsAre, AfterHandle
<1>8. Routed(s) BY DEF OrderOK
<1>9. Route[d] = s BY <1>1, <1>4, <1>8 DEF Routed
<1>10. owed \in [Device -> Seq(Item)] BY DEF TypesAndWorkers, RuntimeTypeOK, QueueTypes
<1>11. /\ owed'[d] = IF owed[d] # <<>> /\ Head(owed[d]) = Head(sh.ready[d]) THEN Tail(owed[d]) ELSE owed[d]
       /\ \A e \in Device : e # d => owed'[e] = owed[e]
  BY <1>3, <1>4, <1>10 DEF Handled
<1>12. ASSUME NEW e \in Device, Route[e] = s PROVE LineOK(owed'[e], q.ready[e], mailbox'[s], q.down, e)
  <2>1. PICK o, r \in Seq(Item), b \in Seq(Mail), down \in BOOLEAN :
          o = owed[e] /\ r = shard[s].ready[e] /\ b = mailbox[s] /\ down = shard[s].down
    BY <1>5, <1>12, LineHere
  <2>2. LineOK(o, r, b, down, e) BY <1>5, <1>12, <2>1, LineHere
  <2>3. CASE e # d BY <1>1, <1>4, <1>5, <1>7, <1>11, <2>1, <2>2, <2>3
  <2>4. CASE e = d
    <3>1. PICK p : p = IF o # <<>> /\ Head(o) = Head(r) THEN Tail(o) ELSE o OBVIOUS
    <3>2. r # <<>> BY <1>1, <1>4, <2>1, <2>4
    <3>3. LineOK(p, Tail(r), b, down, e) BY <2>2, <3>1, <3>2, LineHandle
    <3>4. owed'[e] = p BY <1>1, <1>11, <2>1, <2>4, <3>1
    <3>5. q.ready[e] = Tail(r) BY <1>1, <1>4, <1>7, <2>1, <2>4
    <3> QED BY <1>1, <1>5, <1>7, <2>1, <3>3, <3>4, <3>5
  <2> QED BY <2>3, <2>4
<1>13. ASSUME NEW e \in Device, Route[e] # s PROVE owed'[e] = owed[e] /\ q.ready[e] = <<>>
  <2>1. shard[s].ready[e] = <<>> BY <1>8, <1>13 DEF Routed
  <2> QED BY <1>1, <1>4, <1>7, <1>9, <1>11, <1>13, <2>1
<1>14. WorkerLine(s, q) BY <1>5, <1>7, <1>12, <1>13 DEF WorkerLine
<1> QED BY <1>5, <1>7, <1>14, OrderWorker

LEMMA CommandOrder ==
  ASSUME TypesAndWorkers, OrderOK, NEW s \in Shard, Command(s) \/ Return(s)
  PROVE  OrderOK'
<1>1. PICK q \in ShardState : /\ shard' = [shard EXCEPT ![s] = q] /\ q.ready = shard[s].ready
                              /\ q.down = shard[s].down /\ q.pc # "stopped"
  BY CommandFacts, ReturnFacts
<1>2. UNCHANGED <<owed, mailbox>> /\ ~Stopped(s) BY DEF Command, Return, Stopped
<1> QED BY <1>1, <1>2, WorkerKeepsLine

LEMMA CreateFailsOrder ==
  ASSUME TypesAndWorkers, OrderOK, NEW s \in Shard, CreateFails(s)
  PROVE  OrderOK'
<1>1. PICK sh : sh = shard[s] OBVIOUS
<1>2. PICK d : d = Min(Turn(sh).round) OBVIOUS
<1>3. sh \in ShardState /\ WorkerOK(sh) /\ Ready(sh) # {} /\ sh.pc = "poll" /\ CreateFailed(s, sh, d)
  BY <1>1, <1>2, CreateFailsIs
<1>4. PICK q : q = Failed(sh) OBVIOUS
<1>5. /\ d \in Device /\ q.down = sh.down /\ q.pc = "poll" /\ q.ready[d] = <<>>
      /\ \A e \in Device : e # d => q.ready[e] = sh.ready[e]
  BY <1>2, <1>3, <1>4, FailedFacts
<1>6. ~Stopped(s) /\ UNCHANGED mailbox BY <1>1, <1>3 DEF Stopped, CreateFails
<1>7. shard' = [shard EXCEPT ![s] = q] BY <1>3, <1>4 DEF CreateFailed
<1>8. Routed(s) BY DEF OrderOK
<1>9. Route[d] = s
  <2>1. sh.ready[d] # <<>> BY <1>2, <1>3, TakenFacts
  <2> QED BY <1>1, <1>5, <1>8, <2>1 DEF Routed
<1>10. owed \in [Device -> Seq(Item)] BY DEF TypesAndWorkers, RuntimeTypeOK, QueueTypes
<1>11. /\ owed'[d] = SubSeq(owed[d], Len(sh.ready[d]) + 1, Len(owed[d]))
       /\ \A e \in Device : e # d => owed'[e] = owed[e]
  BY <1>3, <1>5, <1>10 DEF CreateFailed
<1>12. ASSUME NEW e \in Device, Route[e] = s PROVE LineOK(owed'[e], q.ready[e], mailbox'[s], q.down, e)
  <2>1. PICK o, r \in Seq(Item), b \in Seq(Mail), down \in BOOLEAN :
          o = owed[e] /\ r = shard[s].ready[e] /\ b = mailbox[s] /\ down = shard[s].down
    BY <1>6, <1>12, LineHere
  <2>2. LineOK(o, r, b, down, e) BY <1>6, <1>12, <2>1, LineHere
  <2>3. CASE e # d BY <1>1, <1>5, <1>6, <1>11, <2>1, <2>2, <2>3
  <2>4. CASE e = d
    <3>1. LineOK(SubSeq(o, Len(r) + 1, Len(o)), <<>>, b, down, e) BY <2>2, LineDrop
    <3>2. owed'[e] = SubSeq(o, Len(r) + 1, Len(o)) BY <1>1, <1>11, <2>1, <2>4
    <3> QED BY <1>1, <1>5, <1>6, <2>1, <2>4, <3>1, <3>2
  <2> QED BY <2>3, <2>4
<1>13. ASSUME NEW e \in Device, Route[e] # s PROVE owed'[e] = owed[e] /\ q.ready[e] = <<>>
  <2>1. shard[s].ready[e] = <<>> BY <1>8, <1>13 DEF Routed
  <2> QED BY <1>1, <1>5, <1>9, <1>11, <1>13, <2>1
<1>14. WorkerLine(s, q) BY <1>5, <1>6, <1>12, <1>13 DEF WorkerLine
<1> QED BY <1>6, <1>7, <1>14, OrderWorker

LEMMA CallerOrder ==
  ASSUME TypesAndWorkers, OrderOK, NEW m \in Message, CallerStep(m)
  PROVE  OrderOK'
<1>1. CASE Offer(m) \/ Letter(m) BY <1>1, OrderStays DEF Offer, Letter, shardVars
<1>2. CASE Send(m)
  <2>1. m \in Item /\ UNCHANGED shard BY <1>2, MessageFacts DEF Send
  <2>2. (Put(m) /\ ~Stopped(ShardOf(m))) \/ UNCHANGED <<mailbox, owed>> BY <1>2 DEF Send
  <2> QED BY <2>1, <2>2, OrderPut, OrderStays
<1> QED BY <1>1, <1>2 DEF CallerStep

LEMMA RedriveOrder ==
  ASSUME TypesAndWorkers, OrderOK, Redrive \/ RedriveOne
  PROVE  OrderOK'
<1>1. CASE Redrive BY <1>1, OrderStays DEF Redrive, shardVars
<1>2. CASE RedriveOne
  <2>1. PICK m \in Message : m = Head(batch).msg BY <1>2, BatchHead DEF RedriveOne, TypesAndWorkers, RuntimeTypeOK
  <2>2. m \in Item /\ UNCHANGED shard BY <1>2, MessageFacts DEF RedriveOne
  <2>3. (Put(m) /\ ~Stopped(ShardOf(m))) \/ UNCHANGED <<mailbox, owed>> BY <1>2, <2>1 DEF RedriveOne
  <2> QED BY <2>2, <2>3, OrderPut, OrderStays
<1> QED BY <1>1, <1>2

LEMMA WheelOrder ==
  ASSUME TypesAndWorkers, OrderOK, WheelCommand \/ WheelTick
  PROVE  OrderOK'
<1>1. CASE WheelCommand \/ TakePending \/ TickDone
  <2>1. UNCHANGED <<owed, shard, mailbox>> BY <1>1, Zenon DEF WheelCommand, TakePending, TickDone, shardVars
  <2> QED BY <2>1, OrderStays
<1>2. ASSUME NEW t \in Timer, (Put(t) /\ ~Stopped(ShardOf(t))) \/ UNCHANGED <<mailbox, owed>>, UNCHANGED shard
      PROVE  OrderOK'
  <2>1. t \in Item BY DEF Item
  <2> QED BY <1>2, <2>1, OrderPut, OrderStays
<1>3. CASE Expire
  <2>1. UNCHANGED shard BY <1>3, Zenon DEF Expire
  <2>2. PICK t \in wheel.set : (Put(t) /\ ~Stopped(ShardOf(t))) \/ UNCHANGED <<mailbox, owed>>
    BY <1>3, Zenon DEF Expire, Dispatch
  <2>3. wheel.set \subseteq Timer BY DEF TypesAndWorkers, RuntimeTypeOK, WheelTypes, WheelState
  <2> QED BY <1>2, <2>1, <2>2, <2>3
<1>4. CASE RetryPending
  <2>1. UNCHANGED shard BY <1>4, Zenon DEF RetryPending
  <2>2. PICK t \in Timer : t = Head(wheel.rest)
    BY <1>4, RetriedWheel DEF RetryPending, TypesAndWorkers, RuntimeTypeOK
  <2>3. (Put(t) /\ ~Stopped(ShardOf(t))) \/ UNCHANGED <<mailbox, owed>>
    BY <1>4, <2>2, Zenon DEF RetryPending, Dispatch
  <2> QED BY <1>2, <2>1, <2>3
<1> QED BY <1>1, <1>3, <1>4 DEF WheelTick

LEMMA StopOrder ==
  ASSUME TypesAndWorkers, OrderOK, Drain \/ StopWheel \/ StopAgain \/ ReadOutput
  PROVE  OrderOK'
<1>1. UNCHANGED <<owed, shard, mailbox>> BY DEF Drain, StopWheel, StopAgain, ReadOutput, shardVars
<1> QED BY <1>1, OrderStays

LEMMA InitOrder ==
  ASSUME RuntimeInit
  PROVE  OrderOK
<1> DEFINE e == <<>>
<1>1. e \in Seq(Mail) /\ e \in Seq(Item) OBVIOUS
<1>2. \A d : For(d, e) = e BY KeepEmpty DEF For
<1>3. e = e \o e BY <1>1, ConcatEmptySeq
<1>4. Range(e) = {} BY RangeEmpty
<1>5. ASSUME NEW d PROVE LineOK(e, e, e, FALSE, d)
  <2>1. e # <<>> => Head(e) = Shutdown OBVIOUS
  <2> HIDE DEF e
  <2>2. e = e \o For(d, e) BY <1>2, <1>3
  <2> QED BY <1>1, <1>3, <1>4, <2>1, <2>2 DEF LineOK
<1>6. mailbox = [s \in Shard |-> e] /\ owed = [d \in Device |-> e] /\ shard = [s \in Shard |-> NewShard]
  BY DEF RuntimeInit
<1>7. NewShard.pc = "recv" /\ NewShard.ready = [d \in Device |-> e] /\ NewShard.down = FALSE BY NewShardFacts
<1>8. ASSUME NEW d \in Device PROVE LineOf(d)
  <2>1. Route[d] \in Shard BY RuntimeAssumption
  <2>2. owed[d] = e /\ mailbox[Route[d]] = e /\ shard[Route[d]] = NewShard BY <1>6, <2>1
  <2>3. NewShard.ready[d] = e BY <1>7
  <2> HIDE DEF e
  <2> QED BY <1>5, <1>7, <2>2, <2>3 DEF LineOf, Stopped
<1>9. ASSUME NEW s \in Shard PROVE Routed(s)
  <2>1. mailbox[s] = e /\ shard[s] = NewShard BY <1>6
  <2>2. \A d \in Device : NewShard.ready[d] = <<>> BY <1>7
  <2> QED BY <1>4, <2>1, <2>2 DEF Routed
<1> QED BY <1>8, <1>9 DEF OrderOK

\* An actor gets what entered the mailbox for it once and in order, and a worker that
\* stopped has handed on all that came before its Shutdown: for any number of devices
\* and shards, any capacity and any interleaving with callers, redrives and the wheel.
THEOREM ItemsInOrder == RuntimeSpec => []InOrder
<1> DEFINE Inv == TypesAndWorkers /\ OrderOK
<1>1. RuntimeInit => Inv BY InitTypes, InitOrder
<1>2. Inv /\ [RuntimeNext]_runtimeVars => Inv'
  <2> SUFFICES ASSUME TypesAndWorkers, OrderOK, [RuntimeNext]_runtimeVars PROVE OrderOK'
    BY StepTypes
  <2>1. CASE UNCHANGED runtimeVars BY <2>1, OrderStays DEF runtimeVars
  <2>2. ASSUME NEW m \in Message, CallerStep(m) PROVE OrderOK' BY <2>2, CallerOrder
  <2>3. ASSUME NEW s \in Shard, ShardStep(s) PROVE OrderOK'
    BY <2>3, ReceiveOrder, ReceivedOrder, HandleOrder, CommandOrder, CreateFailsOrder, EmitOrder, EvictOrder, ExitOrder
    DEF ShardStep
  <2> QED BY <2>1, <2>2, <2>3, RedriveOrder, WheelOrder, StopOrder, OrderShutdown DEF RuntimeNext
<1>3. Inv => InOrder BY OrderInOrder
<1> QED BY <1>1, <1>2, <1>3, PTL DEF RuntimeSpec

-----------------------------------------------------------------------------
\* Timers.

Sent(t) == Occurs([t |-> t, cancel |-> FALSE], commands)

WaitsIn(w, t) == One(t \in w.set) + Occurs(t, w.pending) + Occurs(t, w.rest)

\* The inductive invariant: of a timer whose cancellation is on its way nothing comes
\* later, a timer that is cancelled was scheduled, and only a tick has timers to try again.
OwedOnce == \A t \in Timer : Occurs(t, owed[DeviceOf[t]]) <= One(t \in fired)

InOnePlace(t) == Sent(t) + WaitsIn(wheel, t) + One(t \in fired) <= One(t \in issued \ cancelled)

CommandsOK ==
  /\ \A i \in 1 .. Len(commands) : commands[i].t \in issued
  /\ \A i, j \in 1 .. Len(commands) :
       i < j /\ commands[i].cancel /\ commands[i].t = commands[j].t => commands[j].cancel

WheelOnce ==
  /\ \A t \in Timer : InOnePlace(t)
  /\ CommandsOK
  /\ cancelled \subseteq issued
  /\ wheel.pc # "retry" => wheel.rest = <<>>

LEMMA OneFacts == \A b : One(b) \in 0 .. 1 /\ (b => One(b) = 1) /\ (~b => One(b) = 0)
BY DEF One

LEMMA TimersAre == OwedOnce /\ WheelOnce => TimersAccounted
<1> SUFFICES ASSUME OwedOnce, WheelOnce PROVE TimersAccounted OBVIOUS
<1>1. ASSUME NEW t \in Timer
      PROVE  /\ Occurs(t, owed[DeviceOf[t]]) <= One(t \in fired)
             /\ Sent(t) + WaitsIn(wheel, t) + One(t \in fired) <= One(t \in issued \ cancelled)
  BY DEF OwedOnce, WheelOnce, InOnePlace
<1> QED BY <1>1, Zenon DEF TimersAccounted, Sent, WaitsIn, One

LEMMA WaitsNat ==
  ASSUME NEW w \in WheelState, NEW t
  PROVE  /\ WaitsIn(w, t) \in Nat /\ Occurs(t, w.pending) \in Nat /\ Occurs(t, w.rest) \in Nat
         /\ w.pending \in Seq(Timer) /\ w.rest \in Seq(Timer)
<1>1. w.pending \in Seq(Timer) /\ w.rest \in Seq(Timer) BY DEF WheelState
<1>2. Occurs(t, w.pending) \in Nat /\ Occurs(t, w.rest) \in Nat BY <1>1, PlacesFinite
<1>3. One(t \in w.set) \in Nat BY OneFacts
<1> QED BY <1>1, <1>2, <1>3 DEF WaitsIn

LEMMA SentNat ==
  ASSUME WheelTypes, NEW t
  PROVE  Sent(t) \in Nat
BY PlacesFinite DEF Sent, WheelTypes

\* An item enters a mailbox: a timer is owed once more when it is that item.
LEMMA OwedPut ==
  ASSUME QueueTypes, NEW x \in Item, Put(x), NEW t \in Timer
  PROVE  /\ Occurs(t, owed'[DeviceOf[t]]) <= Occurs(t, owed[DeviceOf[t]]) + One(x = t)
         /\ Occurs(t, owed[DeviceOf[t]]) \in Nat /\ Occurs(t, owed'[DeviceOf[t]]) \in Nat
<1>1. DeviceOf[t] \in Device /\ DeviceOf[x] \in Device BY ItemFacts DEF Item
<1>2. owed[DeviceOf[t]] \in Seq(Item) /\ owed'[DeviceOf[t]] \in Seq(Item) BY <1>1, PutFacts DEF QueueTypes
<1>3. Occurs(t, owed[DeviceOf[t]]) \in Nat /\ Occurs(t, owed'[DeviceOf[t]]) \in Nat BY <1>2, PlacesFinite
<1>4. One(x = t) \in Nat BY OneFacts
<1>5. CASE owed'[DeviceOf[t]] = owed[DeviceOf[t]]
  <2> DEFINE n == Occurs(t, owed[DeviceOf[t]])
             k == One(x = t)
  <2>1. n \in Nat /\ k \in Nat BY <1>3, <1>4
  <2> HIDE DEF n, k
  <2>2. n <= n + k BY <2>1
  <2> QED BY <1>3, <1>5, <2>2 DEF n, k
<1>6. CASE owed'[DeviceOf[t]] = Append(owed[DeviceOf[t]], x)
  <2>1. Occurs(t, Append(owed[DeviceOf[t]], x)) = Occurs(t, owed[DeviceOf[t]]) + One(x = t)
    BY <1>2, OccursAppend
  <2> QED BY <1>3, <1>6, <2>1
<1>7. owed'[DeviceOf[t]] = owed[DeviceOf[t]] \/ owed'[DeviceOf[t]] = Append(owed[DeviceOf[t]], x)
  <2>1. CASE DeviceOf[t] # DeviceOf[x] BY <1>1, <2>1, PutFacts
  <2>2. CASE DeviceOf[t] = DeviceOf[x] BY <2>2, PutFacts
  <2> QED BY <2>1, <2>2
<1> QED BY <1>5, <1>6, <1>7

\* A message enters a mailbox, or nothing does.
LEMMA OwedMessage ==
  ASSUME QueueTypes, OwedOnce, NEW x \in Message, Put(x) \/ UNCHANGED owed, UNCHANGED fired
  PROVE  OwedOnce'
<1>1. CASE UNCHANGED owed BY <1>1 DEF OwedOnce
<1>2. CASE Put(x)
  <2>1. SUFFICES ASSUME NEW t \in Timer PROVE Occurs(t, owed'[DeviceOf[t]]) <= One(t \in fired')
    BY DEF OwedOnce
  <2>2. x \in Item /\ x # t BY RuntimeAssumption DEF Item
  <2>3. One(x = t) = 0 /\ One(t \in fired) \in Nat BY <2>2 DEF One
  <2>4. /\ Occurs(t, owed'[DeviceOf[t]]) <= Occurs(t, owed[DeviceOf[t]]) + One(x = t)
        /\ Occurs(t, owed[DeviceOf[t]]) \in Nat /\ Occurs(t, owed'[DeviceOf[t]]) \in Nat
    BY <1>2, <2>2, OwedPut
  <2>5. Occurs(t, owed[DeviceOf[t]]) <= One(t \in fired) BY DEF OwedOnce
  <2> DEFINE n == Occurs(t, owed[DeviceOf[t]])
             m == Occurs(t, owed'[DeviceOf[t]])
             k == One(t \in fired)
  <2>6. n \in Nat /\ m \in Nat /\ k \in Nat /\ m <= n + 0 /\ n <= k BY <2>3, <2>4, <2>5
  <2> HIDE DEF n, m, k
  <2>7. m <= k BY <2>6
  <2> QED BY <2>7 DEF m, k
<1> QED BY <1>1, <1>2

\* Something is no longer owed.
LEMMA OwedLess ==
  ASSUME OwedOnce, NEW d \in Device, owed \in [Device -> Seq(Item)], owed' \in [Device -> Seq(Item)],
         \A e \in Device : e # d => owed'[e] = owed[e], UNCHANGED fired,
         \A t \in Timer : Occurs(t, owed'[d]) <= Occurs(t, owed[d])
  PROVE  OwedOnce'
<1> SUFFICES ASSUME NEW t \in Timer PROVE Occurs(t, owed'[DeviceOf[t]]) <= One(t \in fired')
  BY DEF OwedOnce
<1>1. DeviceOf[t] \in Device BY ItemFacts DEF Item
<1>2. Occurs(t, owed[DeviceOf[t]]) <= One(t \in fired) BY DEF OwedOnce
<1>3. CASE DeviceOf[t] # d BY <1>1, <1>2, <1>3
<1>4. CASE DeviceOf[t] = d
  <2>1. Occurs(t, owed[d]) \in Nat /\ Occurs(t, owed'[d]) \in Nat BY PlacesFinite
  <2> DEFINE n == Occurs(t, owed[d])
             m == Occurs(t, owed'[d])
             k == One(t \in fired)
  <2>2. n \in Nat /\ m \in Nat BY <2>1
  <2>3. k \in 0 .. 1 BY OneFacts, Zenon
  <2>4. m <= n OBVIOUS
  <2>5. n <= k BY <1>2, <1>4, Zenon
  <2> HIDE DEF n, m, k
  <2>6. m <= k BY <2>2, <2>3, <2>4, <2>5
  <2> QED BY <1>4, <2>6 DEF m, k
<1> QED BY <1>3, <1>4

\* What a command of an actor adds.
LEMMA CommandsOnce ==
  ASSUME WheelTypes, WheelOnce, NEW t \in Timer, Commanded(t), UNCHANGED <<wheel, fired, cancelled>>
  PROVE  WheelOnce'
<1>1. CASE UNCHANGED <<commands, issued>>
  BY <1>1 DEF WheelOnce, InOnePlace, Sent, CommandsOK
<1>2. CASE /\ commands' = Append(commands, [t |-> t, cancel |-> t \in issued])
           /\ issued' = issued \cup {t}
  <2>1. /\ commands' = Append(commands, [t |-> t, cancel |-> t \in issued])
        /\ issued' = issued \cup {t}
    BY <1>2
  <2>2. PICK c : c = [t |-> t, cancel |-> t \in issued] OBVIOUS
  <2>3. c \in CommandSet /\ c.t = t /\ c.cancel = (t \in issued) BY <2>2 DEF CommandSet
  <2>4. commands \in Seq(CommandSet) /\ wheel \in WheelState BY DEF WheelTypes
  <2>5. commands' = Append(commands, c) BY <2>1, <2>2
  <2>6. ASSUME NEW u \in Timer PROVE InOnePlace(u)'
    <3>1. Sent(u)' = Sent(u) + One(c = [t |-> u, cancel |-> FALSE])
      <4>1. PICK k : k = [t |-> u, cancel |-> FALSE] OBVIOUS
      <4>2. Occurs(k, Append(commands, c)) = Occurs(k, commands) + One(c = k) BY <2>3, <2>4, OccursAppend
      <4>3. Sent(u) = Occurs(k, commands) /\ Sent(u)' = Occurs(k, commands') BY <4>1, Zenon DEF Sent
      <4> QED BY <2>5, <4>1, <4>2, <4>3
    <3>2. Sent(u) \in Nat /\ WaitsIn(wheel, u) \in Nat BY <2>4, SentNat, WaitsNat
    <3>3. WaitsIn(wheel, u)' = WaitsIn(wheel, u) OBVIOUS
    <3>4. InOnePlace(u) BY DEF WheelOnce
    <3>5. CASE u # t \/ t \in issued
      <4>1. c # [t |-> u, cancel |-> FALSE]
        <5>1. SUFFICES ASSUME c = [t |-> u, cancel |-> FALSE] PROVE FALSE OBVIOUS
        <5>2. c.t = u /\ c.cancel = FALSE BY <5>1
        <5>3. u = t /\ t \notin issued BY <2>3, <5>2, Zenon
        <5> QED BY <3>5, <5>3
      <4>2. One(c = [t |-> u, cancel |-> FALSE]) = 0 BY <4>1 DEF One
      <4>3. u \in issued' \ cancelled' <=> u \in issued \ cancelled BY <2>1, <3>5
      <4>4. Sent(u)' = Sent(u) BY <3>1, <3>2, <4>2
      <4> QED BY <3>3, <3>4, <4>3, <4>4 DEF InOnePlace, One
    <3>6. CASE u = t /\ t \notin issued
      <4> DEFINE k == Sent(u)
                 w == WaitsIn(wheel, u)
                 n == One(c = [t |-> u, cancel |-> FALSE])
                 f == One(u \in fired)
      <4>1. u \notin cancelled BY <3>6 DEF WheelOnce
      <4>2. One(u \in issued \ cancelled) = 0 /\ One(u \in fired') = f /\ One(u \in issued' \ cancelled') = 1
        BY <2>1, <3>6, <4>1 DEF One
      <4>3. n \in 0 .. 1 /\ f \in Nat BY DEF One
      <4>4. k \in Nat /\ w \in Nat /\ k + w + f <= 0 BY <3>2, <3>4, <4>2 DEF InOnePlace
      <4>5. Sent(u)' = k + n /\ WaitsIn(wheel, u)' = w BY <3>1, <3>3
      <4> HIDE DEF k, w, n, f
      <4>6. (k + n) + w + f <= 1 BY <4>3, <4>4
      <4> QED BY <4>2, <4>5, <4>6 DEF InOnePlace
    <3> QED BY <3>5, <3>6
  <2>7. CommandsOK'
    <3>1. CommandsOK BY DEF WheelOnce
    <3> DEFINE n == Len(commands)
               q == Append(commands, c)
    <3>2. n \in Nat /\ Len(q) = n + 1 /\ q[n + 1] = c /\ \A i \in 1 .. n : q[i] = commands[i] BY <2>3, <2>4
    <3>3. commands' = q BY <2>5
    <3>4. /\ \A i \in 1 .. n : commands[i].t \in issued
          /\ \A i, j \in 1 .. n : i < j /\ commands[i].cancel /\ commands[i].t = commands[j].t => commands[j].cancel
      BY <3>1 DEF CommandsOK
    <3> HIDE DEF n, q
    <3>5. \A i \in 1 .. n + 1 : i \in 1 .. n \/ i = n + 1 BY <3>2
    <3>6. \A i \in 1 .. n + 1 : q[i].t \in issued' BY <2>1, <2>3, <3>2, <3>4, <3>5
    <3>7. ASSUME NEW i \in 1 .. n + 1, NEW j \in 1 .. n + 1, i < j, q[i].cancel, q[i].t = q[j].t
          PROVE  q[j].cancel
      <4>1. i \in 1 .. n BY <3>2, <3>7
      <4>2. q[i] = commands[i] BY <3>2, <4>1
      <4>3. CASE j \in 1 .. n
        <5>1. q[j] = commands[j] BY <3>2, <4>3
        <5> QED BY <3>4, <3>7, <4>1, <4>2, <4>3, <5>1
      <4>4. CASE j = n + 1
        <5>1. q[j] = c BY <3>2, <4>4
        <5>2. t \in issued BY <2>3, <3>4, <3>7, <4>1, <4>2, <5>1
        <5> QED BY <2>3, <5>1, <5>2
      <4> QED BY <3>5, <4>3, <4>4
    <3>8. Len(commands') = n + 1 BY <3>2, <3>3
    <3> QED BY <3>3, <3>6, <3>7, <3>8 DEF CommandsOK
  <2>8. cancelled' \subseteq issued' BY <2>1 DEF WheelOnce
  <2> QED BY <2>6, <2>7, <2>8 DEF WheelOnce
<1> QED BY <1>1, <1>2 DEF Commanded

\* The commands without the first.
LEMMA CommandsTail ==
  ASSUME WheelTypes, CommandsOK, commands # <<>>, commands' = Tail(commands), UNCHANGED issued
  PROVE  /\ CommandsOK'
         /\ Head(commands).cancel => Occurs([t |-> Head(commands).t, cancel |-> FALSE], Tail(commands)) = 0
<1> DEFINE n == Len(commands)
           q == Tail(commands)
           h == Head(commands)
<1>1. commands \in Seq(CommandSet) BY DEF WheelTypes
<1>2. n \in Nat /\ n > 0 /\ q \in Seq(CommandSet) /\ Len(q) = n - 1 /\ h = commands[1]
      /\ \A i \in 1 .. n - 1 : q[i] = commands[i + 1]
  BY <1>1, HeadTailProperties
<1>3. /\ \A i \in 1 .. n : commands[i].t \in issued
      /\ \A i, j \in 1 .. n : i < j /\ commands[i].cancel /\ commands[i].t = commands[j].t => commands[j].cancel
  BY DEF CommandsOK
<1>4. commands' = q OBVIOUS
<1> HIDE DEF n, q, h
<1>5. \A i \in 1 .. n - 1 : i + 1 \in 1 .. n BY <1>2
<1>6. CommandsOK'
  <2>1. \A i \in 1 .. n - 1 : q[i].t \in issued' BY <1>2, <1>3, <1>5
  <2>2. ASSUME NEW i \in 1 .. n - 1, NEW j \in 1 .. n - 1, i < j, q[i].cancel, q[i].t = q[j].t PROVE q[j].cancel
    <3>1. i + 1 \in 1 .. n /\ j + 1 \in 1 .. n /\ i + 1 < j + 1 BY <1>2, <1>5, <2>2
    <3>2. q[i] = commands[i + 1] /\ q[j] = commands[j + 1] BY <1>2
    <3> QED BY <1>3, <2>2, <3>1, <3>2
  <2> QED BY <1>2, <1>4, <2>1, <2>2 DEF CommandsOK
<1>7. ASSUME h.cancel PROVE Occurs([t |-> h.t, cancel |-> FALSE], q) = 0
  <2>1. ASSUME NEW i \in 1 .. n - 1, q[i] = [t |-> h.t, cancel |-> FALSE] PROVE FALSE
    <3>1. 1 \in 1 .. n /\ i + 1 \in 1 .. n /\ 1 < i + 1 BY <1>2, <1>5
    <3>2. q[i] = commands[i + 1] BY <1>2
    <3>3. commands[i + 1].t = h.t /\ commands[i + 1].cancel = FALSE BY <2>1, <3>2
    <3> QED BY <1>2, <1>3, <1>7, <3>1, <3>3
  <2>2. DOMAIN q = 1 .. n - 1 BY <1>2
  <2>3. [t |-> h.t, cancel |-> FALSE] \notin Range(q) BY <2>1, <2>2 DEF Range
  <2> QED BY <1>2, <2>3, OccursRange
<1> QED BY <1>6, <1>7 DEF h, q

\* The wheel takes a command.
LEMMA WheelCommandOnce ==
  ASSUME WheelTypes, WheelOnce, WheelCommand
  PROVE  WheelOnce'
<1>1. CommandsOK /\ wheel \in WheelState /\ commands \in Seq(CommandSet) BY DEF WheelOnce, WheelTypes
<1>2. PICK t \in Timer : t = Head(commands).t BY CommandHead DEF WheelCommand
<1>3. /\ commands # <<>> /\ commands' = Tail(commands) /\ UNCHANGED <<issued, fired>> /\ wheel.pc = "select"
      /\ \/ /\ Head(commands).cancel /\ wheel' = Cancel(wheel, t)
            /\ cancelled' = IF t \in fired THEN cancelled ELSE cancelled \cup {t}
         \/ ~Head(commands).cancel /\ wheel' = Schedule(wheel, t) /\ UNCHANGED cancelled
  BY <1>2, Zenon DEF WheelCommand
<1>0. cancelled' \subseteq issued'
  <2>1. commands[1].t \in issued /\ Head(commands) = commands[1]
    <3>1. Len(commands) \in Nat /\ Len(commands) > 0 BY <1>1, <1>3
    <3> QED BY <1>1, <3>1 DEF CommandsOK
  <2> QED BY <1>2, <1>3, <2>1 DEF WheelOnce
<1>4. /\ CommandsOK'
      /\ Head(commands).cancel => Occurs([t |-> t, cancel |-> FALSE], Tail(commands)) = 0
  BY <1>1, <1>2, <1>3, CommandsTail
<1>5. Head(commands) \in CommandSet BY <1>3, CommandHead
<1>6. ASSUME NEW u \in Timer
      PROVE  /\ Sent(u) = One(Head(commands) = [t |-> u, cancel |-> FALSE]) + Sent(u)'
             /\ Sent(u)' \in Nat
  BY <1>1, <1>3, OccursTail DEF Sent
<1>7. CASE Head(commands).cancel
  <2>1. wheel' = Cancel(wheel, t) /\ cancelled' = IF t \in fired THEN cancelled ELSE cancelled \cup {t} BY <1>3, <1>7
  <2>2. /\ wheel' \in WheelState /\ wheel'.set = wheel.set \ {t} /\ wheel'.rest = wheel.rest /\ wheel'.pc = wheel.pc
        /\ wheel'.pending = EnforceLimit(Keep(wheel.pending, Timer \ {t}))
    BY <1>1, <2>1, CancelFacts
  <2>3. wheel.rest = <<>> BY <1>3 DEF WheelOnce
  <2>4. ASSUME NEW u \in Timer
        PROVE  /\ WaitsIn(wheel', u) \in Nat /\ WaitsIn(wheel', u) <= WaitsIn(wheel, u)
               /\ u = t => WaitsIn(wheel', u) = 0
    <3> DEFINE k == Keep(wheel.pending, Timer \ {t})
    <3>1. k \in Seq(Timer) /\ Occurs(u, k) \in Nat /\ Occurs(u, k) <= Occurs(u, wheel.pending)
          /\ (u = t => Occurs(u, k) = 0)
      BY <1>1, WaitsNat, OccursKeep
    <3> HIDE DEF k
    <3>2. Occurs(u, EnforceLimit(k)) \in Nat /\ Occurs(u, EnforceLimit(k)) <= Occurs(u, k) BY <3>1, OccursLimit
    <3> DEFINE a == One(u \in wheel.set)
               b == One(u \in wheel'.set)
               p == Occurs(u, wheel.pending)
               r == Occurs(u, EnforceLimit(k))
               z == Occurs(u, k)
    <3>3. a \in Nat /\ b \in Nat /\ b <= a /\ (u = t => b = 0) BY <2>2 DEF One
    <3>4. Occurs(u, wheel.rest) = 0 /\ Occurs(u, wheel'.rest) = 0 BY <2>2, <2>3, OccursEmpty
    <3>5. p \in Nat /\ r \in Nat /\ z \in Nat /\ r <= z /\ z <= p /\ (u = t => z = 0) BY <1>1, <3>1, <3>2, WaitsNat
    <3>6. WaitsIn(wheel, u) = a + p + 0 /\ WaitsIn(wheel', u) = b + r + 0 BY <2>2, <3>4 DEF WaitsIn, k
    <3> HIDE DEF a, b, p, r, z
    <3> QED BY <3>3, <3>5, <3>6
  <2>5. ASSUME NEW u \in Timer PROVE InOnePlace(u)'
    <3>1. InOnePlace(u) BY DEF WheelOnce
    <3> DEFINE k == Sent(u)
               l == Sent(u)'
               v == WaitsIn(wheel, u)
               w == WaitsIn(wheel', u)
               f == One(u \in fired)
               g == One(u \in issued \ cancelled)
               h == One(u \in issued' \ cancelled')
    <3>2. Head(commands) # [t |-> u, cancel |-> FALSE] BY <1>7
    <3>3. One(Head(commands) = [t |-> u, cancel |-> FALSE]) = 0 BY <3>2 DEF One
    <3>4. l \in Nat /\ k = 0 + l BY <1>6, <3>3
    <3>5. v \in Nat /\ w \in Nat /\ w <= v BY <1>1, <2>4, WaitsNat
    <3>6. f \in Nat /\ g \in Nat /\ h \in Nat BY DEF One
    <3>7. k + v + f <= g BY <3>1 DEF InOnePlace
    <3>8. CASE u # t \/ t \in fired
      <4>1. h = g BY <1>3, <2>1, <3>8 DEF One
      <4> HIDE DEF k, l, v, w, f, g, h
      <4>2. l + w + f <= h BY <3>4, <3>5, <3>6, <3>7, <4>1
      <4> QED BY <1>3, <4>2 DEF InOnePlace, l, w, f, h
    <3>9. CASE u = t /\ t \notin fired
      <4>1. l = 0 BY <1>3, <1>4, <1>7, <3>9 DEF Sent
      <4>2. w = 0 BY <2>4, <3>9
      <4>3. f = 0 BY <3>9 DEF One
      <4> HIDE DEF k, l, v, w, f, g, h
      <4>4. l + w + f <= h BY <3>6, <4>1, <4>2, <4>3
      <4> QED BY <1>3, <4>4 DEF InOnePlace, l, w, f, h
    <3> QED BY <3>8, <3>9
  <2> QED BY <1>0, <1>4, <2>2, <2>3, <2>5 DEF WheelOnce
<1>8. CASE ~Head(commands).cancel
  <2>1. wheel' = Schedule(wheel, t) /\ UNCHANGED cancelled BY <1>3, <1>8
  <2>2. /\ wheel' \in WheelState /\ wheel'.set = wheel.set \cup {t} /\ wheel'.rest = wheel.rest
        /\ wheel'.pc = wheel.pc /\ wheel'.pending = wheel.pending
    BY <1>1, <2>1, ScheduleFacts
  <2>3. ASSUME NEW u \in Timer PROVE InOnePlace(u)'
    <3>1. InOnePlace(u) BY DEF WheelOnce
    <3> DEFINE k == Sent(u)
               l == Sent(u)'
               v == WaitsIn(wheel, u)
               w == WaitsIn(wheel', u)
               f == One(u \in fired)
               g == One(u \in issued \ cancelled)
               a == One(u \in wheel.set)
               b == One(u \in wheel'.set)
               e == One(u = t)
               p == Occurs(u, wheel.pending)
               r == Occurs(u, wheel.rest)
    <3>2. One(Head(commands) = [t |-> u, cancel |-> FALSE]) = e
      <4>1. Head(commands) = [t |-> t, cancel |-> FALSE] BY <1>2, <1>5, <1>8 DEF CommandSet
      <4>2. (Head(commands) = [t |-> u, cancel |-> FALSE]) <=> u = t BY <4>1
      <4> QED BY <4>2 DEF One
    <3>3. l \in Nat /\ k = e + l BY <1>6, <3>2
    <3>4. p \in Nat /\ r \in Nat /\ v = a + p + r /\ w = b + p + r BY <1>1, <2>2, WaitsNat DEF WaitsIn
    <3>5. a \in Nat /\ b \in Nat /\ e \in Nat /\ f \in Nat /\ g \in Nat /\ b <= a + e BY <2>2 DEF One
    <3>6. k + v + f <= g BY <3>1 DEF InOnePlace
    <3> HIDE DEF k, l, v, w, f, g, a, b, e, p, r
    <3>7. l + w + f <= g BY <3>3, <3>4, <3>5, <3>6
    <3> QED BY <1>3, <2>1, <3>7 DEF InOnePlace, l, w, f, g
  <2> QED BY <1>0, <1>3, <1>4, <2>2, <2>3 DEF WheelOnce
<1> QED BY <1>7, <1>8

\* A timer leaves the wheel, which is then w: it is in one place less, and in p when
\* it waits.
Leaves(t, w, p) ==
  /\ w.rest = <<>> \/ w.pc = "retry"
  /\ \A u \in Timer : WaitsIn(w, u) + One(u = t) <= WaitsIn(wheel, u)
  /\ \A u \in Timer : One(u \in w.set) + Occurs(u, p) + Occurs(u, w.rest) <= WaitsIn(wheel, u)

LEMMA DispatchOnce ==
  ASSUME QueueTypes, WheelTypes, WheelOnce, OwedOnce, NEW t \in Timer, NEW w \in WheelState, NEW p \in Seq(Timer),
         Dispatch(t, w, p), Leaves(t, w, p), UNCHANGED <<commands, issued, cancelled>>
  PROVE  WheelOnce' /\ OwedOnce'
<1>1. CommandsOK' /\ cancelled' \subseteq issued' BY DEF WheelOnce, CommandsOK
<1>2. PICK x : x = [w EXCEPT !.pending = p] OBVIOUS
<1>3. x \in WheelState /\ x.set = w.set /\ x.rest = w.rest /\ x.pending = p /\ x.pc = w.pc BY <1>2 DEF WheelState
<1>4. \/ wheel' = w /\ UNCHANGED <<owed, fired>>
      \/ wheel' = x /\ UNCHANGED <<owed, fired>>
      \/ wheel' = w /\ Put(t) /\ fired' = fired \cup {t}
  BY <1>2, Zenon DEF Dispatch
<1>5. wheel'.pc # "retry" => wheel'.rest = <<>> BY <1>3, <1>4 DEF Leaves
<1>6. ASSUME NEW u \in Timer
      PROVE  /\ WaitsIn(w, u) \in Nat /\ WaitsIn(x, u) \in Nat /\ WaitsIn(wheel, u) \in Nat /\ Sent(u) \in Nat
             /\ WaitsIn(w, u) + One(u = t) <= WaitsIn(wheel, u) /\ WaitsIn(x, u) <= WaitsIn(wheel, u)
             /\ Sent(u)' = Sent(u) /\ Sent(u) + WaitsIn(wheel, u) + One(u \in fired) <= One(u \in issued \ cancelled)
  <2>1. wheel \in WheelState BY DEF WheelTypes
  <2>2. WaitsIn(x, u) <= WaitsIn(wheel, u) BY <1>3 DEF WaitsIn, Leaves
  <2> QED BY <1>3, <2>1, <2>2, WaitsNat, SentNat DEF Leaves, Sent, WheelOnce, InOnePlace
<1>7. CASE UNCHANGED <<owed, fired>> /\ (wheel' = w \/ wheel' = x)
  <2>1. OwedOnce' BY <1>7 DEF OwedOnce
  <2>2. ASSUME NEW u \in Timer PROVE InOnePlace(u)'
    <3> DEFINE k == Sent(u)
               v == WaitsIn(wheel, u)
               y == WaitsIn(wheel', u)
               n == WaitsIn(w, u)
               e == One(u = t)
               f == One(u \in fired)
               g == One(u \in issued \ cancelled)
    <3>1. k \in Nat /\ v \in Nat /\ n \in Nat /\ n + e <= v /\ k + v + f <= g BY <1>6
    <3>2. e \in Nat /\ f \in Nat /\ g \in Nat BY DEF One
    <3>3. y \in Nat /\ (y = n \/ y <= v) BY <1>6, <1>7
    <3> HIDE DEF k, v, y, n, e, f, g
    <3>4. k + y + f <= g BY <3>1, <3>2, <3>3
    <3> QED BY <1>6, <1>7, <3>4 DEF InOnePlace, k, y, f, g
  <2> QED BY <1>1, <1>5, <2>1, <2>2 DEF WheelOnce
<1>8. CASE wheel' = w /\ Put(t) /\ fired' = fired \cup {t}
  <2>1. ASSUME NEW u \in Timer PROVE InOnePlace(u)' /\ Occurs(u, owed'[DeviceOf[u]]) <= One(u \in fired')
    <3> DEFINE k == Sent(u)
               v == WaitsIn(wheel, u)
               n == WaitsIn(w, u)
               e == One(u = t)
               f == One(u \in fired)
               h == One(u \in fired')
               g == One(u \in issued \ cancelled)
               a == Occurs(u, owed[DeviceOf[u]])
               b == Occurs(u, owed'[DeviceOf[u]])
    <3>1. k \in Nat /\ v \in Nat /\ n \in Nat /\ n + e <= v /\ k + v + f <= g BY <1>6
    <3>2. e \in Nat /\ f \in Nat /\ g \in 0 .. 1 /\ h <= f + e /\ h \in Nat /\ e <= h /\ f <= h BY <1>8 DEF One
    <3>3. One(t = u) = e BY DEF One
    <3>4. a \in Nat /\ b \in Nat /\ b <= a + e
      <4>1. t \in Item BY DEF Item
      <4>2. b <= a + One(t = u) /\ a \in Nat /\ b \in Nat BY <1>8, <4>1, OwedPut
      <4> QED BY <3>3, <4>2
    <3>5. a <= f BY DEF OwedOnce
    <3> HIDE DEF k, v, n, e, f, g, h, a, b
    <3>6. k + n + h <= g BY <3>1, <3>2
    <3>7. f + e <= 1 BY <3>1, <3>2
    <3>8. b <= h
      <4>1. b <= f + e BY <3>2, <3>4, <3>5
      <4>2. f + e <= h BY <3>2, <3>7
      <4> QED BY <3>2, <3>4, <4>1, <4>2
    <3>9. InOnePlace(u)' BY <1>6, <1>8, <3>6 DEF InOnePlace, k, n, h, g
    <3> QED BY <3>8, <3>9 DEF b, h
  <2>2. OwedOnce' BY <2>1 DEF OwedOnce
  <2> QED BY <1>1, <1>5, <2>1, <2>2 DEF WheelOnce
<1> QED BY <1>4, <1>7, <1>8

LEMMA ExpireOnce ==
  ASSUME QueueTypes, WheelTypes, WheelOnce, OwedOnce, Expire
  PROVE  WheelOnce' /\ OwedOnce'
<1>1. PICK t \in wheel.set :
        Dispatch(t, [wheel EXCEPT !.pc = "expire", !.set = @ \ {t}], EnforceLimit(Append(wheel.pending, t)))
  BY Zenon DEF Expire
<1>2. PICK w, p : w = [wheel EXCEPT !.pc = "expire", !.set = @ \ {t}] /\ p = EnforceLimit(Append(wheel.pending, t))
  OBVIOUS
<1>3. /\ t \in Timer /\ w \in WheelState /\ p \in Seq(Timer)
      /\ w.set = wheel.set \ {t} /\ w.pending = wheel.pending /\ w.rest = wheel.rest /\ w.pc = "expire"
  BY <1>2, ExpiredWheel, Zenon
<1>4. wheel.rest = <<>> /\ wheel \in WheelState BY DEF WheelOnce, WheelTypes, Expire
<1>5. ASSUME NEW u \in Timer
      PROVE  /\ WaitsIn(w, u) + One(u = t) <= WaitsIn(wheel, u)
             /\ One(u \in w.set) + Occurs(u, p) + Occurs(u, w.rest) <= WaitsIn(wheel, u)
  <2> DEFINE a == One(u \in wheel.set)
             b == One(u \in w.set)
             e == One(u = t)
             n == Occurs(u, wheel.pending)
             r == Occurs(u, wheel.rest)
             m == Occurs(u, p)
             k == Occurs(u, Append(wheel.pending, t))
  <2>1. a \in Nat /\ b \in Nat /\ e \in Nat /\ b + e = a BY <1>3 DEF One
  <2>2. n \in Nat /\ r \in Nat /\ wheel.pending \in Seq(Timer) BY <1>4, WaitsNat
  <2>3. k = n + e
    <3>1. Occurs(u, Append(wheel.pending, t)) = Occurs(u, wheel.pending) + One(t = u) BY <1>3, <2>2, OccursAppend
    <3>2. One(t = u) = One(u = t) BY DEF One
    <3> QED BY <3>1, <3>2
  <2>4. m \in Nat /\ m <= k
    <3>1. PICK q \in Seq(Timer) : q = Append(wheel.pending, t) BY <1>3, <2>2, AppendProperties
    <3>2. Occurs(u, EnforceLimit(q)) \in Nat /\ Occurs(u, EnforceLimit(q)) <= Occurs(u, q) BY OccursLimit
    <3> QED BY <1>2, <3>1, <3>2
  <2>5. WaitsIn(w, u) = b + n + r /\ WaitsIn(wheel, u) = a + n + r BY <1>3 DEF WaitsIn
  <2>6. Occurs(u, w.rest) = r BY <1>3
  <2> HIDE DEF a, b, e, n, r, m, k
  <2>7. (b + n + r) + e <= a + n + r /\ b + m + r <= a + n + r BY <2>1, <2>2, <2>3, <2>4
  <2> QED BY <2>5, <2>6, <2>7 DEF b, e, m
<1>6. Leaves(t, w, p) BY <1>3, <1>4, <1>5 DEF Leaves
<1>7. UNCHANGED <<commands, issued, cancelled>> BY Zenon DEF Expire
<1> QED BY <1>1, <1>2, <1>3, <1>6, <1>7, DispatchOnce

LEMMA RetryOnce ==
  ASSUME QueueTypes, WheelTypes, WheelOnce, OwedOnce, RetryPending
  PROVE  WheelOnce' /\ OwedOnce'
<1>1. wheel.rest # <<>> /\ wheel.pc = "retry" /\ wheel \in WheelState BY DEF RetryPending, WheelTypes
<1>2. PICK t, w, p : /\ t = Head(wheel.rest) /\ w = [wheel EXCEPT !.rest = Tail(@)]
                     /\ p = Append(wheel.pending, Head(wheel.rest))
  OBVIOUS
<1>3. /\ t \in Timer /\ w \in WheelState /\ p \in Seq(Timer)
      /\ w.set = wheel.set /\ w.pending = wheel.pending /\ w.rest = Tail(wheel.rest) /\ w.pc = wheel.pc
  BY <1>1, <1>2, RetriedWheel
<1>4. Dispatch(t, w, p) BY <1>2, Zenon DEF RetryPending
<1>5. ASSUME NEW u \in Timer
      PROVE  /\ WaitsIn(w, u) + One(u = t) <= WaitsIn(wheel, u)
             /\ One(u \in w.set) + Occurs(u, p) + Occurs(u, w.rest) <= WaitsIn(wheel, u)
  <2> DEFINE a == One(u \in wheel.set)
             e == One(u = t)
             n == Occurs(u, wheel.pending)
             r == Occurs(u, wheel.rest)
             l == Occurs(u, Tail(wheel.rest))
             m == Occurs(u, p)
  <2>1. a \in Nat /\ e \in Nat BY DEF One
  <2>2. n \in Nat /\ r \in Nat /\ wheel.pending \in Seq(Timer) /\ wheel.rest \in Seq(Timer) BY <1>1, WaitsNat
  <2>3. One(t = u) = e BY DEF One
  <2>4. m = n + e
    <3>1. Occurs(u, Append(wheel.pending, t)) = Occurs(u, wheel.pending) + One(t = u) BY <1>3, <2>2, OccursAppend
    <3> QED BY <1>2, <2>3, <3>1
  <2>5. r = e + l /\ l \in Nat
    <3>1. Occurs(u, wheel.rest) = One(Head(wheel.rest) = u) + Occurs(u, Tail(wheel.rest)) /\ l \in Nat
      BY <1>1, <2>2, OccursTail
    <3> QED BY <1>2, <2>3, <3>1
  <2>6. /\ WaitsIn(w, u) = a + n + l /\ WaitsIn(wheel, u) = a + n + r
        /\ One(u \in w.set) + Occurs(u, p) + Occurs(u, w.rest) = a + m + l
    BY <1>3 DEF WaitsIn
  <2> HIDE DEF a, e, n, r, l, m
  <2>7. (a + n + l) + e <= a + n + r /\ a + m + l <= a + n + r BY <2>1, <2>2, <2>4, <2>5
  <2> QED BY <2>6, <2>7 DEF e
<1>6. Leaves(t, w, p) BY <1>1, <1>3, <1>5 DEF Leaves
<1>7. UNCHANGED <<commands, issued, cancelled>> BY Zenon DEF RetryPending
<1> QED BY <1>3, <1>4, <1>6, <1>7, DispatchOnce

\* The rest of a tick, and the end of the wheel.
LEMMA TickOnce ==
  ASSUME WheelTypes, WheelOnce, TakePending \/ TickDone \/ StopWheel
  PROVE  WheelOnce'
<1>1. UNCHANGED <<issued, fired, cancelled>> BY DEF TakePending, TickDone, StopWheel
<1>2. wheel \in WheelState /\ wheel' \in WheelState
  BY TakePendingFacts, TickDoneFacts, StopWheelFacts DEF WheelTypes
<1>3. CommandsOK'
  <2>1. CASE TakePending \/ TickDone
    <3>1. UNCHANGED <<commands, issued>> BY <2>1 DEF TakePending, TickDone
    <3> QED BY <3>1 DEF WheelOnce, CommandsOK
  <2>2. CASE StopWheel
    <3>1. Len(commands') = 0 BY <2>2 DEF StopWheel
    <3>2. 1 .. 0 = {} OBVIOUS
    <3> QED BY <3>1, <3>2 DEF CommandsOK
  <2> QED BY <2>1, <2>2
<1>4. wheel'.pc # "retry" => wheel'.rest = <<>> BY TakePendingFacts, TickDoneFacts, StopWheelFacts
<1>5. ASSUME NEW u \in Timer
      PROVE  Sent(u)' \in Nat /\ Sent(u)' <= Sent(u) /\ WaitsIn(wheel', u) <= WaitsIn(wheel, u)
  <2> DEFINE a == One(u \in wheel.set)
             n == Occurs(u, wheel.pending)
             r == Occurs(u, wheel.rest)
             m == Occurs(u, EnforceLimit(wheel.pending))
  <2>1. a \in Nat BY DEF One
  <2>2. n \in Nat /\ r \in Nat /\ wheel.pending \in Seq(Timer) BY <1>2, WaitsNat
  <2>3. m \in Nat /\ m <= n BY <2>2, OccursLimit
  <2>4. WaitsIn(wheel, u) = a + n + r BY DEF WaitsIn
  <2>5. Sent(u) \in Nat BY SentNat
  <2>6. CASE TakePending
    <3>1. /\ wheel'.set = wheel.set /\ wheel'.pending = <<>> /\ wheel'.rest = wheel.pending
      BY <2>6, TakePendingFacts
    <3>2. wheel.rest = <<>> BY <2>6 DEF TakePending, WheelOnce
    <3>3. r = 0 /\ Occurs(u, <<>>) = 0 BY <3>2, OccursEmpty
    <3>4. WaitsIn(wheel', u) = a + 0 + n BY <3>1, <3>3 DEF WaitsIn
    <3>5. Sent(u)' = Sent(u) BY <2>6 DEF Sent, TakePending
    <3> HIDE DEF a, n, r
    <3> QED BY <2>1, <2>2, <2>4, <2>5, <3>3, <3>4, <3>5
  <2>7. CASE TickDone
    <3>1. /\ wheel'.set = wheel.set /\ wheel'.pending = EnforceLimit(wheel.pending) /\ wheel'.rest = wheel.rest
      BY <2>7, TickDoneFacts
    <3>2. WaitsIn(wheel', u) = a + m + r BY <3>1 DEF WaitsIn
    <3>3. Sent(u)' = Sent(u) BY <2>7 DEF Sent, TickDone
    <3> HIDE DEF a, n, r, m
    <3> QED BY <2>1, <2>2, <2>3, <2>4, <2>5, <3>2, <3>3
  <2>8. CASE StopWheel
    <3>1. /\ wheel'.set = {} /\ wheel'.pending = <<>> /\ wheel'.rest = <<>> /\ commands' = <<>>
      BY <2>8, StopWheelFacts
    <3>2. One(u \in wheel'.set) = 0 BY <3>1 DEF One
    <3>3. WaitsIn(wheel', u) = 0 + 0 + 0 BY <3>1, <3>2, OccursEmpty DEF WaitsIn
    <3>4. Sent(u)' = 0 BY <3>1, OccursEmpty DEF Sent
    <3> HIDE DEF a, n, r
    <3> QED BY <2>1, <2>2, <2>4, <2>5, <3>3, <3>4
  <2> QED BY <2>6, <2>7, <2>8
<1>6. ASSUME NEW u \in Timer PROVE InOnePlace(u)'
  <2> DEFINE k == Sent(u)
             l == Sent(u)'
             v == WaitsIn(wheel, u)
             w == WaitsIn(wheel', u)
             f == One(u \in fired)
             g == One(u \in issued \ cancelled)
  <2>1. k \in Nat /\ l \in Nat /\ v \in Nat /\ w \in Nat /\ l <= k /\ w <= v BY <1>2, <1>5, SentNat, WaitsNat
  <2>2. f \in Nat /\ g \in Nat BY DEF One
  <2>3. k + v + f <= g BY DEF WheelOnce, InOnePlace
  <2> HIDE DEF k, l, v, w, f, g
  <2>4. l + w + f <= g BY <2>1, <2>2, <2>3
  <2> QED BY <1>1, <2>4 DEF InOnePlace, l, w, f, g
<1>7. cancelled' \subseteq issued' BY <1>1 DEF WheelOnce
<1> QED BY <1>3, <1>4, <1>6, <1>7 DEF WheelOnce

\* Steps that do not concern timers.
LEMMA WheelStays ==
  ASSUME WheelOnce, UNCHANGED wheelVars
  PROVE  WheelOnce'
BY DEF WheelOnce, InOnePlace, Sent, CommandsOK, wheelVars

LEMMA CallerTimers ==
  ASSUME TypesAndWorkers, WheelOnce, OwedOnce,
         (\E m \in Message : CallerStep(m)) \/ Redrive \/ RedriveOne
  PROVE  WheelOnce' /\ OwedOnce'
<1>1. QueueTypes /\ CallerTypes BY DEF TypesAndWorkers, RuntimeTypeOK
<1>2. ASSUME NEW m \in Message, CallerStep(m) PROVE WheelOnce' /\ OwedOnce'
  <2>1. UNCHANGED wheelVars BY <1>2 DEF CallerStep, Offer, Send, Letter
  <2>2. UNCHANGED fired BY <2>1 DEF wheelVars
  <2>3. Put(m) \/ UNCHANGED owed BY <1>2 DEF CallerStep, Offer, Send, Letter, shardVars
  <2> QED BY <1>1, <2>1, <2>2, <2>3, OwedMessage, WheelStays
<1>3. CASE Redrive
  <2>1. UNCHANGED wheelVars /\ UNCHANGED owed /\ UNCHANGED fired BY <1>3 DEF Redrive, shardVars, wheelVars
  <2> QED BY <2>1, WheelStays DEF OwedOnce
<1>4. CASE RedriveOne
  <2>1. PICK m \in Message : m = Head(batch).msg BY <1>1, <1>4, BatchHead DEF RedriveOne
  <2>2. UNCHANGED wheelVars /\ UNCHANGED fired BY <1>4 DEF RedriveOne, wheelVars
  <2>3. Put(m) \/ UNCHANGED owed BY <1>4, <2>1 DEF RedriveOne
  <2> QED BY <1>1, <2>2, <2>3, OwedMessage, WheelStays
<1> QED BY <1>2, <1>3, <1>4

LEMMA HandleTimers ==
  ASSUME TypesAndWorkers, WheelOnce, OwedOnce, NEW s \in Shard, Handle(s)
  PROVE  WheelOnce' /\ OwedOnce'
<1>1. PICK sh : sh = shard[s] OBVIOUS
<1>2. PICK d : d = Min(Turn(sh).round) OBVIOUS
<1>3. sh \in ShardState /\ WorkerOK(sh) /\ Ready(sh) # {} /\ Handled(s, sh, d) BY <1>1, <1>2, HandleIs
<1>4. d \in Device BY <1>2, <1>3, TakenFacts
<1>5. WheelTypes /\ owed \in [Device -> Seq(Item)] BY DEF TypesAndWorkers, RuntimeTypeOK, QueueTypes
<1>6. UNCHANGED wheelVars /\ UNCHANGED fired BY DEF Handle, wheelVars
<1>7. owed' = [owed EXCEPT ![d] = IF @ # <<>> /\ Head(@) = Head(sh.ready[d]) THEN Tail(@) ELSE @]
  BY <1>3 DEF Handled
<1>8. WheelOnce' BY <1>6, WheelStays
<1>9. \A e \in Device : e # d => owed'[e] = owed[e] BY <1>4, <1>5, <1>7
<1>10. owed'[d] = owed[d] \/ (owed[d] # <<>> /\ owed'[d] = Tail(owed[d])) BY <1>4, <1>5, <1>7
<1>11. owed[d] \in Seq(Item) /\ owed'[d] \in Seq(Item)
  <2>1. owed[d] \in Seq(Item) BY <1>4, <1>5
  <2>2. owed[d] # <<>> => Tail(owed[d]) \in Seq(Item) BY <2>1, HeadTailProperties
  <2> QED BY <1>10, <2>1, <2>2
<1>12. owed' \in [Device -> Seq(Item)] BY <1>5, <1>7, <1>11
<1>13. ASSUME NEW t \in Timer PROVE Occurs(t, owed'[d]) <= Occurs(t, owed[d])
  <2> DEFINE n == Occurs(t, owed[d])
             k == Occurs(t, Tail(owed[d]))
             e == One(Head(owed[d]) = t)
  <2>1. n \in Nat /\ e \in Nat BY <1>11, PlacesFinite DEF One
  <2>2. owed[d] # <<>> => n = e + k /\ k \in Nat BY <1>11, OccursTail
  <2>3. Occurs(t, owed'[d]) = n \/ (owed[d] # <<>> /\ Occurs(t, owed'[d]) = k) BY <1>10
  <2> HIDE DEF n, k, e
  <2>4. Occurs(t, owed'[d]) <= n BY <2>1, <2>2, <2>3
  <2> QED BY <2>4 DEF n
<1>14. OwedOnce' BY <1>4, <1>5, <1>6, <1>9, <1>12, <1>13, OwedLess
<1> QED BY <1>8, <1>14

LEMMA CommandTimers ==
  ASSUME TypesAndWorkers, WheelOnce, OwedOnce, NEW s \in Shard, Command(s)
  PROVE  WheelOnce' /\ OwedOnce'
<1>1. PICK t \in Timer : Commanded(t) BY CommandFacts
<1>2. UNCHANGED <<wheel, fired, cancelled, owed>> BY DEF Command
<1>3. WheelTypes BY DEF TypesAndWorkers, RuntimeTypeOK
<1>4. WheelOnce' BY <1>1, <1>2, <1>3, CommandsOnce
<1>5. OwedOnce' BY <1>2 DEF OwedOnce
<1> QED BY <1>4, <1>5

LEMMA CreateFailsTimers ==
  ASSUME TypesAndWorkers, WheelOnce, OwedOnce, NEW s \in Shard, CreateFails(s)
  PROVE  WheelOnce' /\ OwedOnce'
<1>1. PICK sh : sh = shard[s] OBVIOUS
<1>2. PICK d : d = Min(Turn(sh).round) OBVIOUS
<1>3. sh \in ShardState /\ WorkerOK(sh) /\ Ready(sh) # {} /\ sh.pc = "poll" /\ CreateFailed(s, sh, d)
  BY <1>1, <1>2, CreateFailsIs
<1>4. d \in Device BY <1>2, <1>3, FailedFacts
<1>5. owed \in [Device -> Seq(Item)] BY DEF TypesAndWorkers, RuntimeTypeOK, QueueTypes
<1>6. UNCHANGED wheelVars /\ UNCHANGED fired BY DEF CreateFails, wheelVars
<1>7. PICK n \in Nat : n = Len(sh.ready[d]) BY <1>3, <1>4 DEF ShardState
<1>8. owed' = [owed EXCEPT ![d] = SubSeq(@, n + 1, Len(@))] BY <1>3, <1>7 DEF CreateFailed
<1>9. /\ SubSeq(owed[d], n + 1, Len(owed[d])) \in Seq(Item)
      /\ \A t \in Timer : Occurs(t, SubSeq(owed[d], n + 1, Len(owed[d]))) <= Occurs(t, owed[d])
  BY <1>4, <1>5, OccursEnd
<1>10. /\ owed'[d] = SubSeq(owed[d], n + 1, Len(owed[d])) /\ owed' \in [Device -> Seq(Item)]
       /\ \A e \in Device : e # d => owed'[e] = owed[e]
  BY <1>4, <1>5, <1>8, <1>9
<1>11. OwedOnce' BY <1>4, <1>5, <1>6, <1>9, <1>10, OwedLess
<1> QED BY <1>6, <1>11, WheelStays

LEMMA ShardTimers ==
  ASSUME TypesAndWorkers, WheelOnce, OwedOnce, NEW s \in Shard, ShardStep(s)
  PROVE  WheelOnce' /\ OwedOnce'
<1>1. CASE Receive(s) \/ Received(s) \/ Return(s) \/ Emit(s) \/ EvictIdle(s) \/ ShutdownActor(s) \/ Exit(s)
  <2>1. UNCHANGED wheelVars /\ UNCHANGED owed
    BY <1>1, Zenon DEF Receive, Received, Return, Emit, EvictIdle, ShutdownActor, Exit
  <2>2. UNCHANGED fired BY <2>1 DEF wheelVars
  <2> QED BY <2>1, <2>2, WheelStays DEF OwedOnce
<1> QED BY <1>1, HandleTimers, CommandTimers, CreateFailsTimers DEF ShardStep

LEMMA WheelTimers ==
  ASSUME TypesAndWorkers, WheelOnce, OwedOnce, WheelCommand \/ WheelTick \/ StopWheel
  PROVE  WheelOnce' /\ OwedOnce'
<1>1. QueueTypes /\ WheelTypes BY DEF TypesAndWorkers, RuntimeTypeOK
<1>2. CASE WheelCommand \/ TakePending \/ TickDone \/ StopWheel
  <2>1. UNCHANGED <<owed, fired>> BY <1>2, Zenon DEF WheelCommand, TakePending, TickDone, StopWheel, shardVars
  <2> QED BY <1>1, <1>2, <2>1, WheelCommandOnce, TickOnce DEF OwedOnce
<1> QED BY <1>1, <1>2, ExpireOnce, RetryOnce DEF WheelTick

LEMMA OtherTimers ==
  ASSUME WheelOnce, OwedOnce, Drain \/ SendShutdown \/ StopAgain \/ ReadOutput \/ UNCHANGED runtimeVars
  PROVE  WheelOnce' /\ OwedOnce'
<1>1. UNCHANGED wheelVars /\ UNCHANGED owed
  BY Zenon DEF Drain, SendShutdown, StopAgain, ReadOutput, runtimeVars, shardVars, wheelVars
<1>2. UNCHANGED fired BY <1>1 DEF wheelVars
<1> QED BY <1>1, <1>2, WheelStays DEF OwedOnce

LEMMA InitTimers ==
  ASSUME RuntimeInit
  PROVE  WheelOnce /\ OwedOnce
<1>1. /\ wheel.set = {} /\ wheel.pending = <<>> /\ wheel.rest = <<>> /\ commands = <<>> /\ fired = {}
      /\ owed = [d \in Device |-> <<>>]
  BY DEF RuntimeInit, EmptyWheel
<1>2. ASSUME NEW t \in Timer PROVE Occurs(t, owed[DeviceOf[t]]) = 0 /\ DeviceOf[t] \in Device
  <2>1. DeviceOf[t] \in Device BY ItemFacts DEF Item
  <2>2. owed[DeviceOf[t]] = <<>> BY <1>1, <2>1
  <2> QED BY <2>1, <2>2, OccursEmpty
<1>3. OwedOnce BY <1>1, <1>2 DEF OwedOnce, One
<1>4. ASSUME NEW t \in Timer PROVE InOnePlace(t)
  <2>1. Sent(t) = 0 /\ Occurs(t, wheel.pending) = 0 /\ Occurs(t, wheel.rest) = 0 BY <1>1, OccursEmpty DEF Sent
  <2>2. One(t \in wheel.set) = 0 /\ One(t \in fired) = 0 /\ One(t \in issued \ cancelled) \in Nat BY <1>1 DEF One
  <2>3. WaitsIn(wheel, t) = 0 + 0 + 0 BY <2>1, <2>2 DEF WaitsIn
  <2> QED BY <2>1, <2>2, <2>3 DEF InOnePlace
<1>5. CommandsOK
  <2>1. Len(commands) = 0 /\ 1 .. 0 = {} BY <1>1
  <2> QED BY <2>1 DEF CommandsOK
<1>6. cancelled \subseteq issued BY DEF RuntimeInit
<1> QED BY <1>1, <1>3, <1>4, <1>5, <1>6 DEF WheelOnce

\* A timer is in one place at most, is owed to its actor once at most, and is nowhere
\* once the wheel was told to cancel it before it entered a mailbox: for any number of
\* timers and workers, any capacity and limit, also when the wheel is in a tick.
THEOREM TimersOnce == RuntimeSpec => []TimersAccounted
<1> DEFINE Inv == TypesAndWorkers /\ WheelOnce /\ OwedOnce
<1>1. RuntimeInit => Inv BY InitTypes, InitTimers
<1>2. Inv /\ [RuntimeNext]_runtimeVars => Inv'
  <2> SUFFICES ASSUME TypesAndWorkers, WheelOnce, OwedOnce, [RuntimeNext]_runtimeVars PROVE WheelOnce' /\ OwedOnce'
    BY StepTypes
  <2>1. ASSUME NEW s \in Shard, ShardStep(s) PROVE WheelOnce' /\ OwedOnce' BY <2>1, ShardTimers
  <2> QED BY <2>1, CallerTimers, WheelTimers, OtherTimers DEF RuntimeNext
<1>3. Inv => TimersAccounted BY TimersAre
<1> QED BY <1>1, <1>2, <1>3, PTL DEF RuntimeSpec
=============================================================================
