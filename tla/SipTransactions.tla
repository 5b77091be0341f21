--------------------------- MODULE SipTransactions ---------------------------
(***************************************************************************)
(* The client and server transactions of RFC 3261 as the SIP core has      *)
(* them, and the bounded tables that hold them. A timer is the time that   *)
(* is left until it is due, 0 when it is. What is sent is a response that  *)
(* the transaction user gave; requests that a client transaction sends,    *)
(* its ACKs included, have no effect here and are left out. So are the     *)
(* cancelled flag, which nothing reads, transport errors, which the driver *)
(* does not report, and what a client transaction tells its user, which    *)
(* the driver at most logs.                                                *)
(***************************************************************************)
EXTENDS Integers, FiniteSets, SequencesExt

CONSTANTS
  T1, T2, T4,       \* the base intervals of the timers
  Timeout,          \* timers B, F, H, J and D: 64 * T1
  TransactionTtl    \* idle entries are reclaimed after this time

ASSUME TransactionAssumption ==
  /\ {T1, T2, T4, Timeout, TransactionTtl} \subseteq Nat \ {0}
  /\ T1 <= T2 /\ T4 < Timeout /\ Timeout < TransactionTtl

Response == [code : {"1xx", "2xx", "failure"}, tag : Nat]

Provisional(r) == r.code = "1xx"

Success(r) == r.code = "2xx"

\* One record for both roles: the state, at most one provisional and one final
\* response, the retransmissions, the armed timers, the time since its use.
NoTransaction ==
  [st |-> "none", method |-> "none", prov |-> {}, final |-> {}, n |-> 0,
   timers |-> <<>>, idle |-> 0]

Present(e) == e.st # "none"

Invite(e) == e.method = "INVITE"

-----------------------------------------------------------------------------
\* TransactionConfig. Reliable transports have no intervals and wait for nothing.

Factor(n) == IF 2 ^ n < T2 \div T1 THEN 2 ^ n ELSE T2 \div T1

\* timer_a, timer_e and timer_g.
Interval(reliable, n) == IF reliable THEN 0 ELSE T1 * Factor(n)

\* Retransmissions beyond the one with the longest interval are not counted.
CountUp(n) == IF 2 ^ n < T2 \div T1 THEN n + 1 ELSE n

TimerJ(reliable) == IF reliable THEN 0 ELSE Timeout

TimerD(reliable) == IF reliable THEN 0 ELSE Timeout

\* timer_i and timer_k.
TimerIK(reliable) == IF reliable THEN 0 ELSE T4

Arm(e, k, t) == [e EXCEPT !.timers = [j \in DOMAIN @ \cup {k} |-> IF j = k THEN t ELSE @[j]]]

Disarm(e, ks) == [e EXCEPT !.timers = RestrictDomain(@, LAMBDA k : k \notin ks)]

Armed(e, k) == k \in DOMAIN e.timers

Enter(e, st) == [e EXCEPT !.st = st]

\* Where an absorption timer is zero the transaction ends at once.
Wait(e, k, t) == IF t = 0 THEN Enter(e, "Terminated") ELSE Arm(e, k, t)

-----------------------------------------------------------------------------
\* Server transactions. A step gives the transaction, what is sent, and
\* whether the request goes to the transaction user.

Stays(e) == [tx |-> e, send |-> {}, deliver |-> FALSE]

Sends(e, rs) == [tx |-> e, send |-> rs, deliver |-> FALSE]

Delivers(e) == [tx |-> e, send |-> {}, deliver |-> TRUE]

NewServer(method) ==
  [NoTransaction EXCEPT !.method = method,
                        !.st = IF method = "INVITE" THEN "Proceeding" ELSE "Trying"]

OnInviteRequest(e, method) ==
  IF method = "INVITE" THEN Sends(e, e.prov)
  ELSE IF method \in {"ACK", "CANCEL"} THEN Delivers(e) ELSE Stays(e)

\* on_invite_ack.
Confirm(e, reliable) ==
  Delivers(Wait(Enter(Disarm(e, {"G", "H"}), "Confirmed"), "I", TimerIK(reliable)))

OnInviteRequestCompleted(e, method, reliable) ==
  IF method = "INVITE" THEN
    Sends(IF reliable THEN e
          ELSE Arm([e EXCEPT !.n = CountUp(@)], "G", Interval(reliable, CountUp(e.n))), e.final)
  ELSE IF method = "ACK" THEN Confirm(e, reliable)
  ELSE IF method = "CANCEL" THEN Delivers(e) ELSE Stays(e)

\* Mutant: what has no answer yet is given to the transaction user again.
RedeliverNonInvite(e, method) ==
  IF method # e.method \/ e.st = "Trying" THEN Delivers(e) ELSE Sends(e, e.prov \cup e.final)

\* on_non_invite_request_trying, _proceeding and _completed.
OnNonInviteRequest(e, method) ==
  IF method # e.method THEN Delivers(e)
  ELSE Sends(e, CASE e.st = "Proceeding" -> e.prov
                  [] e.st = "Completed" -> e.final
                  [] OTHER -> {})

\* ServerTransaction::process of a request.
ServerRequest(e, method, reliable) ==
  IF ~Invite(e) THEN OnNonInviteRequest(e, method)
  ELSE CASE e.st = "Proceeding" -> OnInviteRequest(e, method)
         [] e.st = "Completed" -> OnInviteRequestCompleted(e, method, reliable)
         [] e.st = "Confirmed" /\ method = "ACK" -> Delivers(e)
         [] OTHER -> Stays(e)

\* Mutant: a failure is sent and not kept.
UnkeptInviteTuResponse(e, r, reliable) ==
  IF Provisional(r) THEN Sends([e EXCEPT !.prov = {r}], {r})
  ELSE Sends(Arm(Enter(e, IF Success(r) THEN "Terminated" ELSE "Completed"), "H", Timeout), {r})

OnInviteTuResponse(e, r, reliable) ==
  IF Provisional(r) THEN Sends([e EXCEPT !.prov = {r}], {r})
  ELSE IF Success(r) THEN Sends(Enter(e, "Terminated"), {r})
  ELSE LET c == Arm(Enter([e EXCEPT !.final = {r}], "Completed"), "H", Timeout)
       IN  Sends(IF reliable THEN c ELSE Arm(c, "G", Interval(reliable, 0)), {r})

OnNonInviteTuResponse(e, r, reliable) ==
  IF Provisional(r) THEN Sends(Enter([e EXCEPT !.prov = {r}], "Proceeding"), {r})
  ELSE Sends(Wait(Enter([e EXCEPT !.final = {r}], "Completed"), "J", TimerJ(reliable)), {r})

\* ServerTransaction::process of a response of the transaction user.
ServerResponse(e, r, reliable) ==
  CASE Invite(e) /\ e.st = "Proceeding" -> OnInviteTuResponse(e, r, reliable)
    [] ~Invite(e) /\ e.st \in {"Trying", "Proceeding"} -> OnNonInviteTuResponse(e, r, reliable)
    [] OTHER -> Stays(e)

\* ServerTransaction::process of a timer.
ServerTimer(e, k, reliable) ==
  CASE k = "G" /\ Invite(e) /\ e.final # {} /\ e.st = "Completed" ->
         Sends(Arm([e EXCEPT !.n = CountUp(@)], "G", Interval(reliable, CountUp(e.n))), e.final)
    [] k = "H" /\ Invite(e) /\ e.st = "Completed" -> Stays(Enter(e, "Terminated"))
    [] k = "I" /\ Invite(e) /\ e.st = "Confirmed" -> Stays(Enter(e, "Terminated"))
    [] k = "J" /\ ~Invite(e) /\ e.st = "Completed" -> Stays(Enter(e, "Terminated"))
    [] OTHER -> Stays(e)

-----------------------------------------------------------------------------
\* Client transactions. A step gives the transaction.

\* new and bootstrap.
NewClient(method, reliable) ==
  LET e == [NoTransaction EXCEPT !.method = method] IN
  IF method = "INVITE"
  THEN Arm(Arm(Enter(e, "Calling"), "A", Interval(reliable, 0)), "B", Timeout)
  ELSE Arm(Arm(Enter(e, "Trying"), "E", Interval(reliable, 0)), "F", Timeout)

OnInviteResponse(e, r, reliable) ==
  IF Provisional(r) THEN Enter(Disarm(e, {"A"}), "Proceeding")
  ELSE IF Success(r) THEN Enter(Disarm(e, {"A", "B"}), "Terminated")
  ELSE Wait(Enter([Disarm(e, {"A", "B"}) EXCEPT !.final = {r}], "Completed"),
                 "D", TimerD(reliable))

OnNonInviteResponse(e, r, reliable) ==
  IF Provisional(r) THEN Arm(Enter(e, "Proceeding"), "E", T2)
  ELSE Wait(Enter(Disarm(e, {"E", "F"}), "Completed"), "K", TimerIK(reliable))

\* ClientTransaction::process of a response. In Completed an INVITE is
\* acknowledged again.
ClientResponse(e, r, reliable) ==
  CASE Invite(e) /\ e.st \in {"Calling", "Proceeding"} -> OnInviteResponse(e, r, reliable)
    [] ~Invite(e) /\ e.st \in {"Trying", "Proceeding"} -> OnNonInviteResponse(e, r, reliable)
    [] OTHER -> e

Again(e, k, reliable) == Arm([e EXCEPT !.n = CountUp(@)], k, Interval(reliable, CountUp(e.n)))

\* ClientTransaction::process of a timer.
ClientTimer(e, k, reliable) ==
  CASE k = "A" /\ Invite(e) /\ e.st = "Calling" -> Again(e, "A", reliable)
    [] k = "B" /\ Invite(e) /\ e.st \in {"Calling", "Proceeding"} -> Enter(e, "Terminated")
    [] k = "D" /\ Invite(e) /\ e.st = "Completed" -> Enter(e, "Terminated")
    [] k = "E" /\ ~Invite(e) /\ e.st = "Trying" -> Again(e, "E", reliable)
    [] k = "E" /\ ~Invite(e) /\ e.st = "Proceeding" -> Arm(e, "E", T2)
    [] k = "F" /\ ~Invite(e) /\ e.st \in {"Trying", "Proceeding"} -> Enter(e, "Terminated")
    [] k = "K" /\ ~Invite(e) /\ e.st = "Completed" -> Enter(e, "Terminated")
    [] OTHER -> e

-----------------------------------------------------------------------------
\* The entries of a table.

\* Entry::absorb, and the removal of a transaction that has ended.
Absorb(e) == IF e.st = "Terminated" THEN NoTransaction ELSE [e EXCEPT !.idle = 0]

\* due_timers.
Due(e) == {k \in DOMAIN e.timers : e.timers[k] = 0}

\* Mutant: only the timers end a transaction.
ReclaimTimed(e) == e

\* The end of tick_map: an entry that was touched is kept, an idle one is not.
Reclaim(e) == IF e.idle >= TransactionTtl THEN NoTransaction ELSE e

\* The loop of tick_map for one of the timers that were due when it began, after
\* those before it. A timer that is not armed any more does nothing.
FireServer(acc, k, due, reliable) ==
  IF k \notin due \/ ~Present(acc.tx) \/ ~Armed(acc.tx, k) THEN acc
  ELSE LET s == ServerTimer(Disarm(acc.tx, {k}), k, reliable)
       IN  [tx |-> Absorb(s.tx), send |-> acc.send \cup s.send]

FireClient(acc, k, due, reliable) ==
  IF k \notin due \/ ~Present(acc) \/ ~Armed(acc, k) THEN acc
  ELSE Absorb(ClientTimer(Disarm(acc, {k}), k, reliable))

\* The loop over the timers of one entry: those the role arms, in the order of
\* TimerKind.
TickServer(e, reliable) ==
  LET Fire(acc, k) == FireServer(acc, k, Due(e), reliable)
  IN  Fire(Fire(Fire(Fire([tx |-> e, send |-> {}], "G"), "H"), "I"), "J")

TickClient(e, reliable) ==
  LET Fire(acc, k) == FireClient(acc, k, Due(e), reliable)
  IN  Fire(Fire(Fire(Fire(Fire(Fire(e, "A"), "B"), "F"), "D"), "E"), "K")

\* ensure_capacity: the entries of which one is evicted when the table is full.
\* No entry of a table is terminated, so the least recently active one goes.
Victims(table, keys, max) ==
  LET live == {k \in keys : Present(table[k])}
  IN  IF Cardinality(live) < max THEN {}
      ELSE {k \in live : \A j \in live : table[j].idle <= table[k].idle}

\* Time passes.
Later(e) ==
  IF ~Present(e) THEN e
  ELSE [e EXCEPT !.timers = [k \in DOMAIN @ |-> IF @[k] > 0 THEN @[k] - 1 ELSE 0],
                 !.idle = IF @ < TransactionTtl THEN @ + 1 ELSE @]
=============================================================================
