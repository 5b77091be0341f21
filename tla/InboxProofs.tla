---------------------------- MODULE InboxProofs ----------------------------
(***************************************************************************)
(* The command inbox, for every number of nodes, workers and copies: only  *)
(* the owner a command was issued for executes it, no command is lost      *)
(* between its copies, and a recorded command is not repeated.             *)
(***************************************************************************)
EXTENDS CommandInbox, TLAPS

\* The epoch of the command was held by one node only: the row has left it
\* behind or still is the owner of that time, and a cache that holds it names
\* the same node.
EpochIssuedOnce ==
  /\ owner.epoch >= issued.epoch
  /\ owner.epoch = issued.epoch => owner.node = issued.node
  /\ \A p \in Proc : cache[p] # NoOwner /\ cache[p].epoch = issued.epoch
                       => cache[p].node = issued.node

\* A worker that has decided to process the command is on that node.
ProcessingAtIssued ==
  \A p \in Proc : work[p].pc \in {"begin", "handle"} => NodeOf[p] = issued.node

\* A worker past the insert holds the only open transaction on the record, and
\* the record is not committed.
Exclusive ==
  \A p \in Proc : work[p].pc \in {"handle", "commit"} => holder = p /\ ~rec

\* The copy a worker is busy with has been on the bus.
CopiesInHand ==
  \A p \in Proc : work[p].pc # "idle" =>
    work[p].copy \in Copy /\ copies[work[p].copy].state # "free"

\* Copy k is on the bus and nobody is about to acknowledge it.
Safe(k) ==
  /\ copies[k].state = "live"
  /\ \A p \in Proc : work[p].pc = "ack" => work[p].copy # k

\* Until the command is recorded, refused or lost to deduplication, there is such
\* a copy.
SafeCopyLeft ==
  (\E k \in Copy : copies[k].state # "free") /\ ~rec /\ ~refused /\ ~dropped
    => \E k \in Copy : Safe(k)

InboxInv ==
  /\ InboxTypeOK
  /\ EpochIssuedOnce
  /\ ProcessingAtIssued
  /\ Exclusive
  /\ CopiesInHand
  /\ SafeCopyLeft
  /\ OnlyIssuedOwnerExecutes

-----------------------------------------------------------------------------
\* What the helpers of the actions change.
LEMMA RestFacts ==
  ASSUME InboxTypeOK, NEW p \in Proc, Rest(p)
  PROVE  /\ work' \in [Proc -> Work]
         /\ work'[p].pc = "idle"
         /\ \A q \in Proc \ {p} : work'[q] = work[q]
  <1>1. work[p] \in Work /\ work \in [Proc -> Work]
    BY DEF InboxTypeOK
  <1>2. [work[p] EXCEPT !.pc = "idle", !.copy = NoCopy] \in Work
    BY <1>1 DEF Work
  <1>3. work' = [work EXCEPT ![p] = [work[p] EXCEPT !.pc = "idle", !.copy = NoCopy]]
    BY <1>1 DEF Rest, Work
  <1> QED
    BY <1>1, <1>2, <1>3 DEF Work

LEMMA GotoFacts ==
  ASSUME InboxTypeOK, NEW p \in Proc,
         NEW pc \in {"begin", "forward", "handle", "commit", "ack"}, Goto(p, pc)
  PROVE  /\ work' \in [Proc -> Work]
         /\ work'[p].pc = pc
         /\ work'[p].copy = work[p].copy
         /\ \A q \in Proc \ {p} : work'[q] = work[q]
  <1>1. work[p] \in Work /\ work \in [Proc -> Work]
    BY DEF InboxTypeOK
  <1>2. [work[p] EXCEPT !.pc = pc] \in Work
    BY <1>1 DEF Work
  <1> QED
    BY <1>1, <1>2 DEF Goto, Work

LEMMA PutFacts ==
  ASSUME InboxTypeOK, NEW k \in Copy, NEW n \in Node, Put(k, n)
  PROVE  /\ copies' \in [Copy -> Slot]
         /\ copies[k].state = "free"
         /\ copies'[k].state = "live"
         /\ \A j \in Copy \ {k} : copies'[j] = copies[j]
  <1>1. copies[k] \in Slot /\ copies \in [Copy -> Slot]
    BY DEF InboxTypeOK
  <1>2. [copies[k] EXCEPT !.state = "live", !.at = n] \in Slot
    BY <1>1 DEF Slot
  <1>3. copies' = [copies EXCEPT ![k] = [copies[k] EXCEPT !.state = "live", !.at = n]]
    BY <1>1 DEF Put, Slot
  <1> QED
    BY <1>1, <1>2, <1>3 DEF Put, Slot

LEMMA AckFacts ==
  ASSUME InboxTypeOK, NEW k \in Copy, Ack(k)
  PROVE  /\ copies' \in [Copy -> Slot]
         /\ copies'[k].state = "acked"
         /\ \A j \in Copy \ {k} : copies'[j] = copies[j]
  <1>1. copies[k] \in Slot /\ copies \in [Copy -> Slot]
    BY DEF InboxTypeOK
  <1>2. [copies[k] EXCEPT !.state = "acked"] \in Slot
    BY <1>1 DEF Slot
  <1> QED
    BY <1>1, <1>2 DEF Ack, Slot

\* The resolver returns an owner, and the node of the issued epoch with it; the
\* cache keeps its type and what is known of the issued epoch.
LEMMA ResolveFacts ==
  ASSUME InboxInv, NEW p \in Proc
  PROVE  /\ Resolved(p) \in Owner
         /\ Resolved(p).epoch = issued.epoch => Resolved(p).node = issued.node
         /\ Resolve(p) /\ UNCHANGED <<owner, issued>> =>
              cache' \in [Proc -> Owner \cup {NoOwner}] /\ EpochIssuedOnce'
  <1>1. cache \in [Proc -> Owner \cup {NoOwner}] /\ owner \in Owner
    BY DEF InboxInv, InboxTypeOK
  <1>2. Resolved(p) \in Owner
    BY <1>1 DEF Resolved
  <1>3. Resolved(p).epoch = issued.epoch => Resolved(p).node = issued.node
    BY <1>1 DEF Resolved, InboxInv, EpochIssuedOnce
  <1>4. ASSUME Resolve(p), UNCHANGED <<owner, issued>>
        PROVE  cache' \in [Proc -> Owner \cup {NoOwner}] /\ EpochIssuedOnce'
    <2>1. cache' = [cache EXCEPT ![p] = Resolved(p)]
      BY <1>4 DEF Resolve
    <2>2. cache' \in [Proc -> Owner \cup {NoOwner}]
      BY <1>1, <1>2, <2>1
    <2>3. \A q \in Proc : cache'[q] = IF q = p THEN Resolved(p) ELSE cache[q]
      BY <1>1, <2>1
    <2> QED
      BY <1>3, <1>4, <2>2, <2>3 DEF InboxInv, EpochIssuedOnce
  <1> QED
    BY <1>2, <1>3, <1>4

-----------------------------------------------------------------------------
\* The initial state.
LEMMA InboxInitInv == InboxInit => InboxInv
  <1> SUFFICES ASSUME InboxInit PROVE InboxInv
    OBVIOUS
  <1>1. owner \in Owner /\ issued = owner
    BY DEF InboxInit, Owner
  <1>2. /\ copies \in [Copy -> Slot]
        /\ \A k \in Copy : copies[k].state = "free"
    BY <1>1 DEF InboxInit, Slot, Owner
  <1>3. /\ work \in [Proc -> Work]
        /\ \A p \in Proc : work[p].pc = "idle"
    BY InboxAssumption DEF InboxInit, Work
  <1>4. InboxTypeOK
    BY <1>1, <1>2, <1>3 DEF InboxInit, InboxTypeOK
  <1>5. EpochIssuedOnce
    BY <1>1 DEF InboxInit, EpochIssuedOnce, Owner
  <1>6. ProcessingAtIssued /\ Exclusive /\ CopiesInHand
    BY <1>3 DEF ProcessingAtIssued, Exclusive, CopiesInHand
  <1>7. SafeCopyLeft /\ OnlyIssuedOwnerExecutes
    BY <1>2 DEF InboxInit, SafeCopyLeft, OnlyIssuedOwnerExecutes
  <1> QED
    BY <1>4, <1>5, <1>6, <1>7 DEF InboxInv

\* A change of the owner leaves the issued epoch behind.
LEMMA ChangeOwnerInv ==
  ASSUME InboxInv, NEW n \in Node, ChangeOwner(n)
  PROVE  InboxInv'
  <1>1. /\ owner' \in Owner
        /\ owner'.epoch = owner.epoch + 1
        /\ owner.epoch \in Nat /\ issued.epoch \in Nat
    BY DEF ChangeOwner, InboxInv, InboxTypeOK, Owner
  <1>2. UNCHANGED <<cache, issued, copies, window, over, work, holder, rec, done, runs, refused,
                    dropped, crashes>>
    BY DEF ChangeOwner
  <1>3. InboxTypeOK'
    BY <1>1, <1>2 DEF InboxInv, InboxTypeOK
  <1>4. EpochIssuedOnce'
    BY <1>1, <1>2 DEF InboxInv, EpochIssuedOnce
  <1> QED
    BY <1>2, <1>3, <1>4
       DEF InboxInv, ProcessingAtIssued, Exclusive, CopiesInHand, SafeCopyLeft, Safe,
           OnlyIssuedOwnerExecutes

\* A cache entry disappears.
LEMMA ExpireInv ==
  ASSUME InboxInv, NEW p \in Proc, Expire(p)
  PROVE  InboxInv'
  <1>1. cache' = [cache EXCEPT ![p] = NoOwner] /\ cache \in [Proc -> Owner \cup {NoOwner}]
    BY DEF Expire, InboxInv, InboxTypeOK
  <1>2. UNCHANGED <<owner, issued, copies, window, over, work, holder, rec, done, runs, refused,
                    dropped, crashes>>
    BY DEF Expire
  <1>3. InboxTypeOK'
    BY <1>1, <1>2 DEF InboxInv, InboxTypeOK
  <1>4. EpochIssuedOnce'
    BY <1>1, <1>2 DEF InboxInv, EpochIssuedOnce
  <1> QED
    BY <1>2, <1>3, <1>4
       DEF InboxInv, ProcessingAtIssued, Exclusive, CopiesInHand, SafeCopyLeft, Safe,
           OnlyIssuedOwnerExecutes

\* A new copy on the bus is in nobody's hands: it is safe, and the others stay
\* as they are.
LEMMA FreshCopy ==
  ASSUME InboxInv, NEW k \in Copy, NEW n \in Node, Put(k, n)
  PROVE  /\ \A p \in Proc : work[p].pc # "idle" => work[p].copy # k
         /\ \A j \in Copy : copies[j].state # "free" => copies'[j].state = copies[j].state
         /\ copies' \in [Copy -> Slot] /\ copies'[k].state = "live"
  BY PutFacts DEF InboxInv, CopiesInHand

\* A publish stores such a copy, or is a duplicate and changes nothing.
LEMMA PublishFacts ==
  ASSUME InboxInv, NEW n \in Node, Publish(n)
  PROVE  /\ window' \in BOOLEAN
         /\ copies' \in [Copy -> Slot]
         /\ \A j \in Copy : copies[j].state # "free" => copies'[j].state = copies[j].state
         /\ \/ window /\ copies' = copies
            \/ /\ ~window
               /\ \E k \in Copy : /\ copies'[k].state = "live"
                                  /\ \A p \in Proc : work[p].pc # "idle" => work[p].copy # k
  <1>1. window \in BOOLEAN /\ copies \in [Copy -> Slot]
    BY DEF InboxInv, InboxTypeOK
  <1>2. CASE window /\ UNCHANGED <<copies, window>>
    BY <1>1, <1>2
  <1>3. CASE ~window /\ window' = TRUE /\ \E k \in Copy : Put(k, n)
    <2>1. PICK k \in Copy : Put(k, n)
      BY <1>3
    <2>2. /\ \A p \in Proc : work[p].pc # "idle" => work[p].copy # k
          /\ \A j \in Copy : copies[j].state # "free" => copies'[j].state = copies[j].state
          /\ copies' \in [Copy -> Slot] /\ copies'[k].state = "live"
      BY <2>1, FreshCopy
    <2> QED
      BY <1>3, <2>2
  <1> QED
    BY <1>2, <1>3 DEF Publish

\* A send of the dispatcher.
LEMMA SendCommandInv ==
  ASSUME InboxInv, NEW p \in Proc, SendCommand(p)
  PROVE  InboxInv'
  <1>1. UNCHANGED <<owner, issued, over, work, holder, rec, done, runs, refused, dropped, crashes>>
    BY DEF SendCommand
  <1>2. cache' \in [Proc -> Owner \cup {NoOwner}] /\ EpochIssuedOnce'
    BY <1>1, ResolveFacts DEF SendCommand
  <1>3. /\ window' \in BOOLEAN
        /\ copies' \in [Copy -> Slot]
        /\ \A j \in Copy : copies[j].state # "free" => copies'[j].state = copies[j].state
        /\ \/ window /\ copies' = copies
           \/ /\ ~window
              /\ \E k \in Copy : /\ copies'[k].state = "live"
                                 /\ \A q \in Proc : work[q].pc # "idle" => work[q].copy # k
    <2>1. Resolved(p).node \in Node
      BY ResolveFacts DEF Owner
    <2> QED
      BY <2>1, PublishFacts DEF SendCommand
  <1>4. InboxTypeOK'
    BY <1>1, <1>2, <1>3 DEF InboxInv, InboxTypeOK
  <1>5. CopiesInHand'
    BY <1>1, <1>3 DEF InboxInv, CopiesInHand
  <1>6. SafeCopyLeft'
    BY <1>1, <1>3 DEF InboxInv, SafeCopyLeft, Safe
  <1> QED
    BY <1>1, <1>2, <1>4, <1>5, <1>6
       DEF InboxInv, ProcessingAtIssued, Exclusive, OnlyIssuedOwnerExecutes

\* The bus forgets the id of the command, or a worker ends.
LEMMA BusInv ==
  ASSUME InboxInv, WindowPasses \/ \E p \in Proc : WorkerEnds(p)
  PROVE  InboxInv'
  <1>1. /\ UNCHANGED <<owner, cache, issued, copies, work, holder, rec, done, runs, refused, dropped>>
        /\ window' \in BOOLEAN /\ over' \subseteq Proc
        /\ crashes' = crashes \/ crashes' = crashes + 1
    BY DEF WindowPasses, WorkerEnds, InboxInv, InboxTypeOK
  <1>2. InboxTypeOK'
    BY <1>1 DEF InboxInv, InboxTypeOK
  <1> QED
    BY <1>1, <1>2
       DEF InboxInv, EpochIssuedOnce, ProcessingAtIssued, Exclusive, CopiesInHand, SafeCopyLeft,
           Safe, OnlyIssuedOwnerExecutes

\* A delivery that ends without an effect, its transaction with it: a nak or a
\* worker that stops.
LEMMA RestInv ==
  ASSUME InboxInv, NEW p \in Proc, Rest(p),
         UNCHANGED <<owner, cache, issued, copies, window, over, rec, done, runs, refused, dropped>>,
         crashes' \in Nat,
         holder' = holder \/ (holder' = NoProc /\ \A q \in Proc \ {p} : holder # q)
  PROVE  InboxInv'
  <1>1. /\ work' \in [Proc -> Work]
        /\ work'[p].pc = "idle"
        /\ \A q \in Proc \ {p} : work'[q] = work[q]
    BY RestFacts DEF InboxInv
  <1>2. InboxTypeOK'
    BY <1>1 DEF InboxInv, InboxTypeOK
  <1>3. EpochIssuedOnce' /\ OnlyIssuedOwnerExecutes'
    BY DEF InboxInv, EpochIssuedOnce, OnlyIssuedOwnerExecutes
  <1>4. ProcessingAtIssued'
    BY <1>1 DEF InboxInv, ProcessingAtIssued
  <1>5. Exclusive'
    BY <1>1 DEF InboxInv, Exclusive
  <1>6. CopiesInHand'
    BY <1>1 DEF InboxInv, CopiesInHand
  <1>7. SafeCopyLeft'
    BY <1>1 DEF InboxInv, SafeCopyLeft, Safe
  <1> QED
    BY <1>2, <1>3, <1>4, <1>5, <1>6, <1>7 DEF InboxInv

\* The decision of handle_delivery: process, forward, terminate or nak.
LEMMA ReceiveInv ==
  ASSUME InboxInv, NEW p \in Proc, NEW k \in Copy, Receive(p, k)
  PROVE  InboxInv'
  <1> DEFINE o == Resolved(p)
             mine == o.node = NodeOf[p]
             stale == mine /\ o.epoch # issued.epoch
             seen == [copies EXCEPT ![k].count = @ + 1]
  <1>1. /\ UNCHANGED <<owner, issued, window, over, holder, rec, done, runs, dropped, crashes>>
        /\ work[p].pc = "idle" /\ copies[k].state = "live"
    BY DEF Receive
  <1>2. copies \in [Copy -> Slot] /\ work \in [Proc -> Work] /\ refused \in BOOLEAN
    BY DEF InboxInv, InboxTypeOK
  <1>3. seen \in [Copy -> Slot] /\ \A j \in Copy : seen[j].state = copies[j].state
    <2>1. copies[k] \in Slot /\ copies[k].count + 1 \in Nat
      BY <1>2 DEF Slot
    <2>2. [copies[k] EXCEPT !.count = copies[k].count + 1] \in Slot
      BY <2>1 DEF Slot
    <2>3. seen = [copies EXCEPT ![k] = [copies[k] EXCEPT !.count = copies[k].count + 1]]
      OBVIOUS
    <2>4. [copies[k] EXCEPT !.count = copies[k].count + 1].state = copies[k].state
      BY <2>1 DEF Slot
    <2> HIDE DEF seen
    <2> QED
      BY <1>2, <2>2, <2>3, <2>4
  <1>4. o \in Owner /\ (o.epoch = issued.epoch => o.node = issued.node)
    BY ResolveFacts
  <1>5. CASE copies' = seen /\ UNCHANGED <<cache, refused, work>>
    <2>1. InboxTypeOK'
      BY <1>1, <1>3, <1>5 DEF InboxInv, InboxTypeOK
    <2>2. CopiesInHand' /\ SafeCopyLeft'
      BY <1>1, <1>3, <1>5 DEF InboxInv, CopiesInHand, SafeCopyLeft, Safe
    <2> QED
      BY <1>1, <1>5, <2>1, <2>2
         DEF InboxInv, EpochIssuedOnce, ProcessingAtIssued, Exclusive, OnlyIssuedOwnerExecutes
  <1>6. CASE /\ Resolve(p) /\ stale
             /\ copies' = [seen EXCEPT ![k].state = "acked"]
             /\ refused' = TRUE /\ work' = work
    <2>1. cache' \in [Proc -> Owner \cup {NoOwner}] /\ EpochIssuedOnce'
      BY <1>1, <1>6, ResolveFacts
    <2>2. /\ copies' \in [Copy -> Slot]
          /\ \A j \in Copy : copies[j].state # "free" => copies'[j].state # "free"
      <3>1. [seen[k] EXCEPT !.state = "acked"] \in Slot
        BY <1>3 DEF Slot
      <3>2. [seen[k] EXCEPT !.state = "acked"].state = "acked"
        BY <1>3 DEF Slot
      <3> HIDE DEF seen
      <3> QED
        BY <1>3, <1>6, <3>1, <3>2
    <2>3. InboxTypeOK'
      BY <1>1, <1>6, <2>1, <2>2 DEF InboxInv, InboxTypeOK
    <2>4. CopiesInHand' /\ SafeCopyLeft'
      BY <1>1, <1>6, <2>2 DEF InboxInv, CopiesInHand, SafeCopyLeft
    <2> QED
      BY <1>1, <1>6, <2>1, <2>3, <2>4
         DEF InboxInv, ProcessingAtIssued, Exclusive, OnlyIssuedOwnerExecutes
  <1>7. CASE /\ Resolve(p) /\ ~stale
             /\ copies' = seen
             /\ refused' = refused
             /\ work' = [work EXCEPT ![p] = [pc |-> IF mine THEN "begin" ELSE "forward",
                                             copy |-> k, to |-> o.node]]
    <2>1. cache' \in [Proc -> Owner \cup {NoOwner}] /\ EpochIssuedOnce'
      BY <1>1, <1>7, ResolveFacts
    <2>2. /\ work' \in [Proc -> Work]
          /\ work'[p].pc = (IF mine THEN "begin" ELSE "forward") /\ work'[p].copy = k
          /\ \A q \in Proc \ {p} : work'[q] = work[q]
      <3>1. [pc |-> IF mine THEN "begin" ELSE "forward", copy |-> k, to |-> o.node] \in Work
        BY <1>4 DEF Work, Owner
      <3> HIDE DEF o, mine
      <3> QED
        BY <1>2, <1>7, <3>1
    <2>3. InboxTypeOK'
      BY <1>1, <1>3, <1>7, <2>1, <2>2 DEF InboxInv, InboxTypeOK
    <2>4. ProcessingAtIssued'
      BY <1>1, <1>4, <1>7, <2>2 DEF InboxInv, ProcessingAtIssued
    <2> HIDE DEF o, mine, stale, seen
    <2>5. Exclusive' /\ CopiesInHand'
      BY <1>1, <1>3, <1>7, <2>2 DEF InboxInv, Exclusive, CopiesInHand
    <2>6. SafeCopyLeft'
      BY <1>1, <1>3, <1>7, <2>2 DEF InboxInv, SafeCopyLeft, Safe
    <2> QED
      BY <1>1, <2>1, <2>3, <2>4, <2>5, <2>6 DEF InboxInv, OnlyIssuedOwnerExecutes
  <1> QED
    BY <1>2, <1>5, <1>6, <1>7 DEF Receive

\* Forwarding puts a new copy on the bus before the old one is given up, or the
\* bus takes it for a duplicate, which is remembered when the old one is given up.
LEMMA ForwardInv ==
  ASSUME InboxInv, NEW p \in Proc, Forward(p)
  PROVE  InboxInv'
  <1>1. /\ UNCHANGED <<owner, cache, issued, over, holder, rec, done, runs, refused, crashes>>
        /\ work[p].pc = "forward"
    BY DEF Forward
  <1>2. crashes' \in Nat /\ window \in BOOLEAN /\ dropped \in BOOLEAN
    BY <1>1 DEF InboxInv, InboxTypeOK
  <1>3. CASE Rest(p) /\ UNCHANGED <<copies, window, dropped>>
    BY <1>1, <1>2, <1>3, RestInv
  <1>4. CASE /\ Publish(work[p].to)
             /\ \/ Goto(p, "ack") /\ dropped' = (dropped \/ window)
                \/ Rest(p) /\ UNCHANGED dropped
    <2>1. work[p].to \in Node
      BY DEF InboxInv, InboxTypeOK, Work
    <2>2. /\ window' \in BOOLEAN
          /\ copies' \in [Copy -> Slot]
          /\ \A j \in Copy : copies[j].state # "free" => copies'[j].state = copies[j].state
          /\ \/ window /\ copies' = copies
             \/ /\ ~window
                /\ \E k \in Copy : /\ copies'[k].state = "live"
                                   /\ \A q \in Proc : work[q].pc # "idle" => work[q].copy # k
      BY <1>4, <2>1, PublishFacts
    <2>3. /\ work' \in [Proc -> Work]
          /\ work'[p].pc = "idle" \/ (work'[p].pc = "ack" /\ work'[p].copy = work[p].copy)
          /\ \A q \in Proc \ {p} : work'[q] = work[q]
      BY <1>4, GotoFacts, RestFacts DEF InboxInv
    <2>3a. dropped' \in BOOLEAN /\ (~dropped' => ~dropped)
      <3>1. CASE dropped' = (dropped \/ window)
        <4>1. dropped' \in BOOLEAN
          BY <3>1, Zenon
        <4>2. dropped => dropped'
          BY <3>1, Zenon
        <4> QED
          BY <4>1, <4>2
      <3>2. CASE dropped' = dropped
        BY <1>2, <3>2
      <3> QED
        BY <1>4, <3>1, <3>2
    <2>3b. work'[p].pc = "ack" /\ window => dropped'
      <3>1. CASE Rest(p)
        BY <3>1, RestFacts DEF InboxInv
      <3>2. CASE dropped' = (dropped \/ window)
        BY <3>2, Zenon
      <3> QED
        BY <1>4, <3>1, <3>2
    <2>4. InboxTypeOK'
      BY <1>1, <2>2, <2>3, <2>3a DEF InboxInv, InboxTypeOK
    <2>5. ProcessingAtIssued' /\ Exclusive'
      BY <1>1, <2>3 DEF InboxInv, ProcessingAtIssued, Exclusive
    <2>6. CopiesInHand'
      BY <1>1, <2>2, <2>3 DEF InboxInv, CopiesInHand
    <2>7. SafeCopyLeft'
      <3>1. CASE ~window
        <4>1. PICK k \in Copy : /\ copies'[k].state = "live"
                                /\ \A q \in Proc : work[q].pc # "idle" => work[q].copy # k
          BY <2>2, <3>1
        <4>2. Safe(k)'
          BY <1>1, <2>3, <4>1 DEF Safe
        <4> QED
          BY <4>2 DEF SafeCopyLeft
      <3>2. CASE window
        <4>1. copies' = copies /\ (dropped' \/ work'[p].pc # "ack")
          BY <2>2, <2>3b, <3>2
        <4> QED
          BY <1>1, <2>3, <2>3a, <4>1 DEF InboxInv, SafeCopyLeft, Safe
      <3> QED
        BY <3>1, <3>2
    <2> QED
      BY <1>1, <2>4, <2>5, <2>6, <2>7
         DEF InboxInv, EpochIssuedOnce, OnlyIssuedOwnerExecutes
  <1> QED
    BY <1>3, <1>4 DEF Forward

\* get_or_insert: a committed record is a duplicate, otherwise the transaction
\* of this worker is the only one.
LEMMA InsertInv ==
  ASSUME InboxInv, NEW p \in Proc, Insert(p)
  PROVE  InboxInv'
  <1>1. /\ UNCHANGED <<owner, cache, issued, copies, window, over, rec, done, runs, refused,
                       dropped, crashes>>
        /\ work[p].pc = "begin"
    BY DEF Insert
  <1>2. crashes' \in Nat
    BY <1>1 DEF InboxInv, InboxTypeOK
  <1>3. CASE Rest(p) /\ UNCHANGED holder
    BY <1>1, <1>2, <1>3, RestInv
  <1>4. CASE \/ holder = NoProc /\ rec /\ Goto(p, "ack") /\ UNCHANGED holder
             \/ holder = NoProc /\ ~rec /\ Goto(p, "handle") /\ holder' = p
    <2>1. /\ work' \in [Proc -> Work]
          /\ work'[p].copy = work[p].copy
          /\ \A q \in Proc \ {p} : work'[q] = work[q]
          /\ \/ work'[p].pc = "ack" /\ rec /\ holder' = holder
             \/ work'[p].pc = "handle" /\ ~rec /\ holder' = p
      BY <1>4, GotoFacts DEF InboxInv
    <2>2. InboxTypeOK'
      BY <1>1, <2>1 DEF InboxInv, InboxTypeOK
    <2>3. ProcessingAtIssued'
      BY <1>1, <2>1 DEF InboxInv, ProcessingAtIssued
    <2>4. Exclusive'
      BY <1>1, <1>4, <2>1, InboxAssumption DEF InboxInv, Exclusive
    <2>5. CopiesInHand'
      BY <1>1, <2>1 DEF InboxInv, CopiesInHand
    <2>6. SafeCopyLeft'
      BY <1>1, <2>1 DEF InboxInv, SafeCopyLeft, Safe
    <2> QED
      BY <1>1, <2>2, <2>3, <2>4, <2>5, <2>6
         DEF InboxInv, EpochIssuedOnce, OnlyIssuedOwnerExecutes
  <1> QED
    BY <1>3, <1>4 DEF Insert

\* The handler runs on the node of the issued epoch.
LEMMA HandleInv ==
  ASSUME InboxInv, NEW p \in Proc, Handle(p)
  PROVE  InboxInv'
  <1>1. /\ UNCHANGED <<owner, cache, issued, copies, window, over, rec, refused, dropped, crashes>>
        /\ work[p].pc = "handle" /\ holder = p /\ NodeOf[p] = issued.node
    BY DEF Handle, InboxInv, Exclusive, ProcessingAtIssued
  <1>2. crashes' \in Nat
    BY <1>1 DEF InboxInv, InboxTypeOK
  <1>3. CASE Rest(p) /\ holder' = NoProc /\ UNCHANGED <<done, runs>>
    BY <1>1, <1>2, <1>3, RestInv
  <1>4. CASE /\ Goto(p, "commit") /\ UNCHANGED holder
             /\ \/ done' = done \cup {NodeOf[p]} /\ runs' = runs + 1
                \/ UNCHANGED <<done, runs>>
    <2>1. /\ work' \in [Proc -> Work]
          /\ work'[p].pc = "commit" /\ work'[p].copy = work[p].copy
          /\ \A q \in Proc \ {p} : work'[q] = work[q]
      BY <1>4, GotoFacts DEF InboxInv
    <2>2. done' \subseteq Node /\ runs' \in Nat
      BY <1>1, <1>4, InboxAssumption DEF InboxInv, InboxTypeOK
    <2>3. InboxTypeOK'
      BY <1>1, <1>4, <2>1, <2>2 DEF InboxInv, InboxTypeOK
    <2>4. OnlyIssuedOwnerExecutes'
      BY <1>1, <1>4 DEF InboxInv, OnlyIssuedOwnerExecutes
    <2>5. ProcessingAtIssued' /\ Exclusive'
      BY <1>1, <1>4, <2>1 DEF InboxInv, ProcessingAtIssued, Exclusive
    <2>6. CopiesInHand' /\ SafeCopyLeft'
      BY <1>1, <2>1 DEF InboxInv, CopiesInHand, SafeCopyLeft, Safe
    <2> QED
      BY <1>1, <2>3, <2>4, <2>5, <2>6 DEF InboxInv, EpochIssuedOnce
  <1> QED
    BY <1>3, <1>4 DEF Handle

\* The commit makes the record visible and ends the only transaction.
LEMMA CommitInv ==
  ASSUME InboxInv, NEW p \in Proc, Commit(p)
  PROVE  InboxInv'
  <1>1. /\ UNCHANGED <<owner, cache, issued, copies, window, over, done, runs, refused, dropped,
                       crashes>>
        /\ work[p].pc = "commit" /\ holder = p /\ holder' = NoProc
    BY DEF Commit, InboxInv, Exclusive
  <1>2. crashes' \in Nat
    BY <1>1 DEF InboxInv, InboxTypeOK
  <1>3. CASE Rest(p) /\ UNCHANGED rec
    BY <1>1, <1>2, <1>3, RestInv
  <1>4. CASE rec' = TRUE /\ Goto(p, "ack")
    <2>1. /\ work' \in [Proc -> Work]
          /\ work'[p].pc = "ack" /\ work'[p].copy = work[p].copy
          /\ \A q \in Proc \ {p} : work'[q] = work[q]
      BY <1>4, GotoFacts DEF InboxInv
    <2>2. InboxTypeOK'
      BY <1>1, <1>4, <2>1 DEF InboxInv, InboxTypeOK
    <2>3. ProcessingAtIssued' /\ Exclusive'
      BY <1>1, <2>1 DEF InboxInv, ProcessingAtIssued, Exclusive
    <2>4. CopiesInHand'
      BY <1>1, <2>1 DEF InboxInv, CopiesInHand
    <2>5. SafeCopyLeft'
      BY <1>4 DEF SafeCopyLeft
    <2> QED
      BY <1>1, <2>2, <2>3, <2>4, <2>5 DEF InboxInv, EpochIssuedOnce, OnlyIssuedOwnerExecutes
  <1> QED
    BY <1>3, <1>4 DEF Commit

\* What is acknowledged is never the safe copy.
LEMMA AcknowledgeInv ==
  ASSUME InboxInv, NEW p \in Proc, Acknowledge(p)
  PROVE  InboxInv'
  <1>1. /\ UNCHANGED <<owner, cache, issued, window, over, holder, rec, done, runs, refused,
                       dropped, crashes>>
        /\ work[p].pc = "ack" /\ Ack(work[p].copy) /\ Rest(p)
        /\ work[p].copy \in Copy /\ copies[work[p].copy].state # "free"
    BY DEF Acknowledge, InboxInv, CopiesInHand
  <1>2. /\ work' \in [Proc -> Work]
        /\ work'[p].pc = "idle"
        /\ \A q \in Proc \ {p} : work'[q] = work[q]
    BY <1>1, RestFacts DEF InboxInv
  <1>3. /\ copies' \in [Copy -> Slot]
        /\ copies'[work[p].copy].state = "acked"
        /\ \A j \in Copy \ {work[p].copy} : copies'[j] = copies[j]
    BY <1>1, AckFacts DEF InboxInv
  <1>4. InboxTypeOK'
    BY <1>1, <1>2, <1>3 DEF InboxInv, InboxTypeOK
  <1>5. ProcessingAtIssued' /\ Exclusive'
    BY <1>1, <1>2 DEF InboxInv, ProcessingAtIssued, Exclusive
  <1>6. CopiesInHand'
    BY <1>1, <1>2, <1>3 DEF InboxInv, CopiesInHand
  <1>7. SafeCopyLeft'
    <2>1. ASSUME NEW k \in Copy, Safe(k) PROVE Safe(k)'
      BY <1>1, <1>2, <1>3, <2>1 DEF Safe
    <2>2. (\E k \in Copy : copies'[k].state # "free") => \E k \in Copy : copies[k].state # "free"
      BY <1>1, <1>3
    <2> QED
      BY <1>1, <2>1, <2>2 DEF InboxInv, SafeCopyLeft
  <1> QED
    BY <1>1, <1>4, <1>5, <1>6, <1>7 DEF InboxInv, EpochIssuedOnce, OnlyIssuedOwnerExecutes

\* Every step of the specification preserves the invariant.
LEMMA InboxNextInv == InboxInv /\ [InboxNext]_inboxVars => InboxInv'
  <1> SUFFICES ASSUME InboxInv, [InboxNext]_inboxVars PROVE InboxInv'
    OBVIOUS
  <1>1. CASE UNCHANGED inboxVars
    BY <1>1 DEF inboxVars, InboxInv, InboxTypeOK, EpochIssuedOnce, ProcessingAtIssued,
                Exclusive, CopiesInHand, SafeCopyLeft, Safe, OnlyIssuedOwnerExecutes
  <1>2. ASSUME NEW p \in Proc, Crash(p) PROVE InboxInv'
    <2>1. /\ Rest(p)
          /\ UNCHANGED <<owner, cache, issued, copies, window, over, rec, done, runs, refused,
                         dropped>>
          /\ holder' = holder \/ (holder' = NoProc /\ \A q \in Proc \ {p} : holder # q)
      BY <1>2 DEF Crash
    <2>2. crashes' \in Nat
      BY <1>2 DEF Crash, InboxInv, InboxTypeOK
    <2> QED
      BY <2>1, <2>2, RestInv
  <1>3. ASSUME NEW p \in Proc, InboxStep(p) PROVE InboxInv'
    BY <1>3, ForwardInv, InsertInv, HandleInv, CommitInv, AcknowledgeInv DEF InboxStep
  <1> QED
    BY <1>1, <1>2, <1>3, ChangeOwnerInv, ExpireInv, SendCommandInv, ReceiveInv, BusInv
       DEF InboxNext

-----------------------------------------------------------------------------
\* The invariant holds in every behaviour of the inbox.
THEOREM InboxInvariance == InboxSpec => []InboxInv
  BY InboxInitInv, InboxNextInv, PTL DEF InboxSpec

\* Fencing by epoch: only the node that held the epoch of the command hands it to
\* the driver, however old the caches of resolvers and inboxes are.
THEOREM InboxFencing == InboxSpec => []OnlyIssuedOwnerExecutes
  <1>1. InboxInv => OnlyIssuedOwnerExecutes
    BY DEF InboxInv
  <1> QED
    BY <1>1, InboxInvariance, PTL

\* At least once: a command that was sent stays on the bus until it is recorded or
\* refused, through forwards, duplicates and workers that stop, unless it was given up
\* for a forward that the bus had taken for a duplicate.
THEOREM InboxKeeps == InboxSpec => []NoLostCommand
  <1>1. InboxInv => NoLostCommand
    BY DEF InboxInv, SafeCopyLeft, Safe, NoLostCommand
  <1> QED
    BY <1>1, InboxInvariance, PTL

\* At most once after the commit: with the record in place no worker is in a
\* position to hand the command to the driver.
THEOREM InboxRecorded == InboxSpec => RecordedNotRepeated
  <1>1. InboxInv /\ [InboxNext]_inboxVars => [rec => runs' = runs]_inboxVars
    <2> SUFFICES ASSUME InboxInv, [InboxNext]_inboxVars, rec PROVE runs' = runs
      OBVIOUS
    <2>1. \A p \in Proc : ~Handle(p)
      BY DEF Handle, InboxInv, Exclusive
    <2> QED
      BY <2>1 DEF inboxVars, InboxNext, InboxStep, ChangeOwner, Expire, Crash, SendCommand,
                  Receive, Forward, Insert, Commit, Acknowledge, WindowPasses, WorkerEnds
  <1> QED
    BY <1>1, InboxInvariance, PTL DEF InboxSpec, RecordedNotRepeated
=============================================================================
