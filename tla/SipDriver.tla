----------------------------- MODULE SipDriver -----------------------------
(***************************************************************************)
(* The GB28181 driver between the network and the access machine: receive  *)
(* loops of sockets and connections that share the transaction tables, the *)
(* dialog table and the access machine, each behind a lock of its own; the *)
(* command consumer; the ticker. Every section under a lock is a step, so  *)
(* the loops interleave between them. Time passes between messages, not    *)
(* while one is handled: a handler awaits nothing.                         *)
(*                                                                         *)
(* Outside are the access machine, which may answer a request as its trait *)
(* allows, and the peers. A peer sends copies of a request until the       *)
(* request times out or a final response is heard; copies on their way     *)
(* arrive for T4 more. Of a request whose first copy was faster than its   *)
(* last one, copies arrive after timers H and J, which run from the first. *)
(* A response is heard soon after it was sent, or it is lost.              *)
(***************************************************************************)
EXTENDS SipTransactions, SipDialogs

CONSTANTS
  Request,          \* the requests peers send; those of a call have one INVITE
  Header,           \* their methods, CSeq, branch, transport, and what they follow
  Command,          \* the requests that commands of the application send
  Outbound,         \* their methods
  NoRequest,
  Loop,             \* receive loops
  MaxTransactions,  \* transactions each table holds in each role
  MaxTags,          \* bound on dialogs that are offered to peers
  MaxEvicted,       \* bound on transactions that are evicted
  MaxStarted        \* bound on requests and commands of a behaviour

VARIABLES
  server,    \* server transactions
  client,    \* client transactions
  dialogs,   \* the dialog table
  loop,      \* what each loop is doing
  tags,      \* tags that the access machine has used
  peer,      \* for each request, for how long copies arrive, the time since
             \* the first one arrived, and its To tag
  air,       \* responses on their way to a peer
  finals,    \* history: final responses that were sent
  handed,    \* history: how often a request was handed to the access machine
  late,      \* history: requests with a copy more than Timeout after the first
  issued,    \* history: commands that were given
  evicted    \* history: transactions that were evicted

tables == <<server, client, dialogs>>

history == <<finals, handed, late, issued, evicted>>

sipVars == <<server, client, dialogs, loop, tags, peer, air, finals, handed, late, issued, evicted>>

\* TransactionKey::for_message: branch and CSeq method; the branch stands for
\* the Call-ID too, and no two transports share one. The tables of UDP and TCP
\* are one function.
KeyOf(m) == <<Header[m].branch, Header[m].cseqm>>

Key == {KeyOf(m) : m \in Request}

TcpKey == {KeyOf(m) : m \in {n \in Request : Header[n].tcp}}

KeysOf(tcp) == IF tcp THEN TcpKey ELSE Key \ TcpKey

\* The method of the CSeq is the one of the request line.
Conforming(m) == Header[m].method = Header[m].cseqm

NoWork == [pc |-> "idle", m |-> NoRequest, replies |-> <<>>]

Unsent == [left |-> -1, age |-> -1, tag |-> 0]

SipInit ==
  /\ server = [k \in Key |-> NoTransaction] /\ client = [c \in Command |-> NoTransaction]
  /\ dialogs = [t \in 1 .. MaxTags |-> NoDialog]
  /\ loop = [l \in Loop |-> NoWork] /\ tags = 0
  /\ peer = [m \in Request |-> Unsent] /\ air = [k \in Key |-> {}]
  /\ finals = [k \in Key |-> {}] /\ handed = [m \in Request |-> 0]
  /\ late = {} /\ issued = {} /\ evicted = {}

-----------------------------------------------------------------------------
\* Peers.

Sent(m) == peer[m].left # -1

\* The bound on a behaviour. Server and client transactions have nothing in
\* common but the ticker, so it has requests or commands.
MoreRequests == issued = {} /\ Cardinality({m \in Request : Sent(m)}) < MaxStarted

MoreCommands == (\A m \in Request : ~Sent(m)) /\ Cardinality(issued) < MaxStarted

\* The INVITE of the call of m.
InviteOf(m) == CHOOSE i \in Request : Header[i].method = "INVITE" /\ Header[i].needs = "none" /\ Header[i].call = Header[m].call

\* n is the ACK of a failure of the INVITE m.
Acknowledges(n, m) ==
  /\ Header[n].method = "ACK" /\ Header[n].needs = "failure"
  /\ m = InviteOf(n) /\ Header[m].method = "INVITE" /\ Conforming(m)
  /\ Header[n].tcp = Header[m].tcp /\ Header[n].keyed = Header[m].keyed

\* Peers give every request a branch of its own, but for ACKs.
ASSUME SipAssumption ==
  /\ {MaxTransactions, MaxTags, MaxEvicted, MaxStarted} \subseteq Nat /\ NoRequest \notin Request
  /\ Header \in [Request -> [method : STRING, cseqm : STRING, branch : Nat, cseq : Nat,
                             needs : STRING, call : Nat, tcp : BOOLEAN, keyed : BOOLEAN]]
  /\ \A m \in Request : Header[m].needs # "none" => InviteOf(m) \in Request
  /\ \A m, n \in Request :
       KeyOf(m) = KeyOf(n) /\ m # n /\ Header[m].method # "ACK" => Acknowledges(n, m)

\* The peer stops sending copies.
Quiet(p) == [p EXCEPT !.left = IF @ > T4 THEN T4 ELSE @]

PeerHears(m) ==
  /\ peer[m].left > T4 /\ \E r \in air[KeyOf(m)] : ~Provisional(r)
  /\ peer' = [peer EXCEPT ![m] = Quiet(@)]
  /\ UNCHANGED <<tables, loop, tags, air, history>>

PeerBegins(m) ==
  /\ ~Sent(m) /\ MoreRequests /\ Header[m].needs = "none"
  /\ peer' = [peer EXCEPT ![m].left = Timeout + T4]
  /\ UNCHANGED <<tables, loop, tags, air, history>>

\* CANCEL follows the INVITE, the ACK of a failure and requests in a dialog
\* follow its final response.
PeerFollows(m) ==
  /\ ~Sent(m) /\ MoreRequests /\ Header[m].needs # "none"
  /\ IF Header[m].needs = "INVITE"
     THEN Sent(InviteOf(m)) /\ peer' = [peer EXCEPT ![m].left = Timeout + T4]
     ELSE \E r \in air[KeyOf(InviteOf(m))] :
            /\ r.code = Header[m].needs
            /\ peer' = [i \in Request |-> IF i = m THEN [left |-> Timeout + T4, age |-> -1, tag |-> r.tag]
                                            ELSE IF i = InviteOf(m) THEN Quiet(peer[i]) ELSE peer[i]]
  /\ UNCHANGED <<tables, loop, tags, air, history>>

-----------------------------------------------------------------------------
\* Receive loops.

Says(k, rs) ==
  /\ air' = [air EXCEPT ![k] = @ \cup rs]
  /\ finals' = [finals EXCEPT ![k] = @ \cup {r \in rs : ~Provisional(r)}]

\* RequestRoute::delivers_to_tu and is_dialog: where a request goes that the
\* transaction layer delivers.
Onward(m, deliver) ==
  IF ~deliver \/ Header[m].method = "ACK" THEN NoWork
  ELSE [pc |-> IF Header[m].method \in {"INVITE", "BYE", "INFO"} THEN "dialog" ELSE "access",
        m |-> m, replies |-> <<>>]

\* A copy is taken: the first one, or another one. A connection delivers a
\* request once.
Heard(m) ==
  LET p == peer[m] IN
  [p EXCEPT !.left = IF Header[m].tcp THEN 0 ELSE p.left, !.age = IF p.age = -1 THEN 0 ELSE p.age]

Arrives(l, m) ==
  /\ loop[l].pc = "idle" /\ peer[m].left > 0
  /\ peer' = [peer EXCEPT ![m] = Heard(m)]
  /\ late' = IF peer[m].age = Timeout THEN late \cup {m} ELSE late

\* TransactionManager::handle_request, the transaction exists.
HandleCopy(l, m) ==
  /\ Header[m].keyed /\ Arrives(l, m) /\ Present(server[KeyOf(m)])
  /\ LET s == ServerRequest(server[KeyOf(m)], Header[m].method, Header[m].tcp) IN
       /\ server' = [server EXCEPT ![KeyOf(m)] = Absorb(s.tx)]
       /\ Says(KeyOf(m), s.send)
       /\ loop' = [loop EXCEPT ![l] = Onward(m, s.deliver)]
  /\ UNCHANGED <<client, dialogs, tags, handed, evicted, issued>>

\* handle_request of a new request: an ACK starts no transaction.
HandleNew(l, m) ==
  /\ Header[m].keyed /\ Header[m].method # "ACK" /\ Arrives(l, m) /\ ~Present(server[KeyOf(m)])
  /\ LET victims == Victims(server, KeysOf(Header[m].tcp), MaxTransactions) IN
     \E v \in IF victims = {} THEN {{}} ELSE {{k} : k \in victims} :
       /\ server' = [k \in Key |-> CASE k = KeyOf(m) -> NewServer(Header[m].method)
                                     [] k \in v -> NoTransaction
                                     [] OTHER -> server[k]]
       /\ evicted' = evicted \cup v /\ Cardinality(evicted') <= MaxEvicted
  /\ loop' = [loop EXCEPT ![l] = Onward(m, TRUE)]
  /\ UNCHANGED <<client, dialogs, tags, air, finals, handed, issued>>

\* handle_request of a request without a usable key, or of an ACK for which
\* there is no transaction.
HandleStateless(l, m) ==
  /\ \/ ~Header[m].keyed
     \/ Header[m].method = "ACK" /\ ~Present(server[KeyOf(m)])
  /\ Arrives(l, m)
  /\ loop' = [loop EXCEPT ![l] = Onward(m, TRUE)]
  /\ UNCHANGED <<tables, tags, air, finals, handed, issued, evicted>>

\* The dialog layer, for INVITE, BYE and INFO.
RouteDialog(l) ==
  LET m == loop[l].m
      t == peer[m].tag
      known == t # 0 /\ dialogs[t].on
      r == Route(dialogs, t, Header[m].method, Header[m].cseq) IN
  /\ loop[l].pc = "dialog"
  /\ dialogs' = IF known THEN r.dialogs ELSE dialogs
  /\ loop' = [loop EXCEPT ![l] = IF known /\ ~r.deliver THEN NoWork ELSE [@ EXCEPT !.pc = "access"]]
  /\ UNCHANGED <<server, client, tags, peer, air, history>>

\* What the access machine answers: nothing, also when it fails; a failure; or
\* a provisional response, a success, or both, which have the tag of the request or
\* a new one if it is an INVITE.
Answers(m) ==
  LET tag == IF Header[m].method # "INVITE" THEN 0
             ELSE IF peer[m].tag # 0 THEN peer[m].tag ELSE tags + 1
      trying == [code |-> "1xx", tag |-> tag]
      ok == [code |-> "2xx", tag |-> tag]
      no == [code |-> "failure", tag |-> 0]
  IN  {<<>>, <<no>>} \cup IF tag <= MaxTags THEN {<<trying>>, <<ok>>, <<trying, ok>>} ELSE {}

UsesTag(rs) == \E i \in DOMAIN rs : rs[i].tag > tags

\* Mutant: a dialog needs no success.
EstablishesEarly(m, r) == Header[m].method = "INVITE" /\ r.code # "failure"

\* establish_invite, is_success_response and response_to_tag.
Establishes(m, r) == Header[m].method = "INVITE" /\ Success(r)

Replying(m, rs) ==
  IF rs = <<>> THEN NoWork
  ELSE [pc |-> IF Establishes(m, Head(rs)) THEN "establish" ELSE "provide", m |-> m, replies |-> rs]

\* process_access.
Access(l) ==
  /\ loop[l].pc = "access"
  /\ \E rs \in Answers(loop[l].m) :
       /\ loop' = [loop EXCEPT ![l] = Replying(loop[l].m, rs)]
       /\ tags' = IF UsesTag(rs) THEN tags + 1 ELSE tags
  /\ handed' = [handed EXCEPT ![loop[l].m] = IF @ < 2 THEN @ + 1 ELSE @]
  /\ UNCHANGED <<tables, peer, air, finals, late, evicted, issued>>

\* The dialog is established before the response is sent.
Establish(l) ==
  LET m == loop[l].m
      victims == DialogVictims(dialogs) IN
  /\ loop[l].pc = "establish"
  /\ \E v \in IF victims = {} THEN {{}} ELSE {{t} : t \in victims} :
       dialogs' = EstablishUas(dialogs, v, Head(loop[l].replies).tag, Header[m].cseq)
  /\ loop' = [loop EXCEPT ![l].pc = "provide"]
  /\ UNCHANGED <<server, client, tags, peer, air, history>>

\* provide_response, or the response is sent without a transaction. One for a
\* transaction that is gone is dropped.
Provide(l) ==
  LET m == loop[l].m
      r == Head(loop[l].replies)
      s == ServerResponse(server[KeyOf(m)], r, Header[m].tcp) IN
  /\ loop[l].pc = "provide"
  /\ loop' = [loop EXCEPT ![l] = Replying(m, Tail(loop[l].replies))]
  /\ IF Header[m].keyed /\ Present(server[KeyOf(m)])
     THEN /\ server' = [server EXCEPT ![KeyOf(m)] = Absorb(s.tx)]
          /\ Says(KeyOf(m), s.send)
     ELSE /\ Says(KeyOf(m), IF Header[m].keyed THEN {} ELSE {r})
          /\ UNCHANGED server
  /\ UNCHANGED <<client, dialogs, tags, peer, handed, late, evicted, issued>>

-----------------------------------------------------------------------------
\* Commands, which go out over UDP, and the responses to them.

\* handle_command and start_client_transaction.
HandleCommand(c) ==
  /\ MoreCommands /\ c \notin issued
  /\ LET victims == Victims(client, Command, MaxTransactions) IN
     \E v \in IF victims = {} THEN {{}} ELSE {{d} : d \in victims} :
       /\ client' = [d \in Command |-> CASE d = c -> NewClient(Outbound[c], FALSE)
                                         [] d \in v -> NoTransaction
                                         [] OTHER -> client[d]]
       /\ evicted' = evicted \cup v /\ Cardinality(evicted') <= MaxEvicted
  /\ issued' = issued \cup {c}
  /\ UNCHANGED <<server, dialogs, loop, tags, peer, air, finals, handed, late>>

\* handle_incoming_response, with handle_response; the access machine ignores
\* what it gets. Without a transaction the response is dropped.
HandleResponse(c, r) ==
  /\ Present(client[c])
  /\ client' = [client EXCEPT ![c] = Absorb(ClientResponse(@, r, FALSE))]
  /\ UNCHANGED <<server, dialogs, loop, tags, peer, air, history>>

-----------------------------------------------------------------------------
\* The ticker. tick_transactions takes the locks of the dialogs and of the two
\* transaction tables one after the other; here each is ticked when it likes.

TickDialogs ==
  /\ UNCHANGED <<server, client, loop, tags, peer, air, history>>
  /\ dialogs' = ReclaimDialogs(dialogs)

\* TransactionManager::tick for the server transactions.
TickTable(tcp) ==
  /\ server' = [k \in Key |-> IF Present(server[k]) /\ (k \in TcpKey) = tcp
                              THEN Reclaim(TickServer(server[k], tcp).tx) ELSE server[k]]
  /\ air' = [k \in Key |-> IF Present(server[k]) /\ (k \in TcpKey) = tcp
                           THEN air[k] \cup TickServer(server[k], tcp).send ELSE air[k]]

\* The failure of a client transaction that timed out is logged.
TickUdp ==
  /\ UNCHANGED <<dialogs, loop, tags, peer, history>>
  /\ TickTable(FALSE)
  /\ client' = [c \in Command |-> IF Present(client[c]) THEN Reclaim(TickClient(client[c], FALSE))
                                 ELSE client[c]]

TickTcp ==
  /\ UNCHANGED <<client, dialogs, loop, tags, peer, history>>
  /\ TickTable(TRUE)

\* Nothing is being handled.
Pause == \A l \in Loop : loop[l].pc = "idle"

\* The age of a request of which no copies arrive any more does not matter.
Older(p) ==
  IF p.left <= 1
  THEN [p EXCEPT !.left = IF p.left = 1 THEN 0 ELSE p.left, !.age = IF p.age = -1 THEN -1 ELSE Timeout]
  ELSE [p EXCEPT !.left = p.left - 1, !.age = IF p.age \in {-1, Timeout} THEN p.age ELSE p.age + 1]

\* Time passes; responses that nobody heard are lost.
Advance ==
  /\ Pause
  /\ UNCHANGED <<loop, tags, history>>
  /\ air' = [k \in Key |-> {}]
  /\ peer' = [m \in Request |-> Older(peer[m])]
  /\ dialogs' = DialogsLater(dialogs)
  /\ server' = [k \in Key |-> Later(server[k])] /\ client' = [c \in Command |-> Later(client[c])]

-----------------------------------------------------------------------------
LoopStep(l) == RouteDialog(l) \/ Access(l) \/ Establish(l) \/ Provide(l)

SipNext ==
  \/ \E m \in Request : PeerBegins(m) \/ PeerFollows(m) \/ PeerHears(m)
  \/ \E l \in Loop, m \in Request : HandleCopy(l, m) \/ HandleNew(l, m) \/ HandleStateless(l, m)
  \/ \E l \in Loop : LoopStep(l)
  \/ \E c \in Command : HandleCommand(c)
  \/ \E c \in Command, r \in {"1xx", "2xx", "failure"} : HandleResponse(c, [code |-> r, tag |-> 0])
  \/ TickDialogs \/ TickUdp \/ TickTcp
  \/ Advance

\* Handlers go on and the ticker ticks. A finite number of messages arrives in a
\* finite time, so there are pauses, and time passes in them.
SipFairness ==
  /\ \A l \in Loop : WF_sipVars(LoopStep(l))
  /\ WF_sipVars(TickDialogs) /\ WF_sipVars(TickUdp) /\ WF_sipVars(TickTcp)
  /\ []<>Pause /\ SF_sipVars(Advance)

SipSpec == SipInit /\ [][SipNext]_sipVars /\ SipFairness

-----------------------------------------------------------------------------
\* A success to the INVITE was sent, which ends its transaction.
Accepted(m) == Header[m].method = "INVITE" /\ \E r \in finals[KeyOf(m)] : Success(r)

\* The request has a transaction that nothing pushed out of the table.
Tracked(m) == Header[m].keyed /\ Conforming(m) /\ KeyOf(m) \notin evicted

\* However often a request is sent, and in whichever loops its copies arrive, it
\* is handed to the access machine once. Excepted are an INVITE that was accepted,
\* of which another copy starts a new transaction, requests without a usable key,
\* transactions that were evicted, and requests of which a copy came more than
\* Timeout after the first one: handle_request, timers H and J and the time after
\* which idle entries go must outlast every other copy.
HandedOverOnce ==
  \A m \in Request : Tracked(m) /\ ~Accepted(m) /\ m \notin late => handed[m] <= 1

\* A copy of a request that was answered finally is answered with that response
\* again, so that a peer to whom it got lost hears it: what provide_response
\* keeps is still there when handle_request looks for it. A confirmed INVITE
\* needs it no more, and a copy more than Timeout after the first finds nothing.
CopiesReplayed ==
  [][\A m \in Request :
       /\ Tracked(m) /\ m \notin late' /\ finals[KeyOf(m)] # {} /\ ~Accepted(m)
       /\ server[KeyOf(m)].st # "Confirmed"
       /\ \E l \in Loop : HandleCopy(l, m) \/ HandleNew(l, m)
       => finals[KeyOf(m)] \subseteq air'[KeyOf(m)]]_sipVars

\* A dialog in the table is one that its peer was offered: the 2xx with its tag
\* was sent, or is about to be. handle_incoming_request establishes the dialog in
\* one section and sends the response in another; only an eviction in between may
\* leave a dialog that the peer never hears of.
DialogBacked ==
  \A t \in Up(dialogs) :
    \/ \E k \in Key : [code |-> "2xx", tag |-> t] \in finals[k]
    \/ \E l \in Loop : loop[l].pc = "provide" /\ Head(loop[l].replies).tag = t
    \/ \E m \in Request : Header[m].method = "INVITE" /\ KeyOf(m) \in evicted

\* When the peers have stopped the tables empty, whatever was lost, whichever
\* answers the access machine did not give and whichever responses to a command
\* never came: timers end a transaction, and what has no timer (a request that
\* waits for its answer, a dialog without a BYE) the idle times of tick.
SipSettles ==
  <>[](/\ \A k \in Key : ~Present(server[k])
       /\ Up(dialogs) = {}
       /\ \A c \in Command : ~Present(client[c]))
=============================================================================
