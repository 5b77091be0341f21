----------------------------- MODULE SipDialogs -----------------------------
(***************************************************************************)
(* Dialogs of the UAS side and the bounded table that holds them. The      *)
(* local tag, which the 2xx carries, stands for the whole dialog id. Route *)
(* sets and remote targets are left out; so are dialogs of the UAC side,   *)
(* responses within a dialog and its timer event, which the driver has no  *)
(* use for.                                                                *)
(***************************************************************************)
EXTENDS Integers, FiniteSets

CONSTANTS
  DialogTtl,    \* idle dialogs are reclaimed after this time
  MaxDialogs    \* dialogs the table holds

ASSUME DialogAssumption == {DialogTtl, MaxDialogs} \subseteq Nat \ {0}

\* Whether there is one, the highest CSeq of the peer, the time since its use.
Dialog == [on : BOOLEAN, cseq : Nat, idle : 0 .. DialogTtl]

NoDialog == [on |-> FALSE, cseq |-> 0, idle |-> 0]

Up(ds) == {t \in DOMAIN ds : ds[t].on}

\* Dialog::on_request: ACK and CANCEL have the CSeq of an INVITE.
Fresh(d, method, cseq) == method \in {"ACK", "CANCEL"} \/ cseq > d.cseq

\* DialogManager::route, when the dialog is there: the table, and whether the
\* request goes on to the transaction user.
Route(ds, t, method, cseq) ==
  IF ~Fresh(ds[t], method, cseq)
  THEN [dialogs |-> [ds EXCEPT ![t].idle = 0], deliver |-> FALSE]
  ELSE [dialogs |-> [ds EXCEPT ![t] =
                       CASE method = "BYE" -> NoDialog
                         [] method \in {"ACK", "CANCEL"} -> [@ EXCEPT !.idle = 0]
                         [] OTHER -> [@ EXCEPT !.cseq = cseq, !.idle = 0]],
        deliver |-> TRUE]

\* ensure_capacity, which does not ask whether the dialog is there already: the
\* dialogs of which one is evicted.
DialogVictims(ds) ==
  IF Cardinality(Up(ds)) < MaxDialogs THEN {}
  ELSE {t \in Up(ds) : \A u \in Up(ds) : ds[u].idle <= ds[t].idle}

\* establish_uas, after ensure_capacity removed the victims.
EstablishUas(ds, victims, t, cseq) ==
  [u \in DOMAIN ds |->
     IF u = t THEN [on |-> TRUE, cseq |-> cseq, idle |-> 0]
     ELSE IF u \in victims THEN NoDialog ELSE ds[u]]

\* DialogManager::tick.
ReclaimDialogs(ds) == [t \in DOMAIN ds |-> IF ds[t].idle >= DialogTtl THEN NoDialog ELSE ds[t]]

\* Time passes.
DialogsLater(ds) ==
  [t \in DOMAIN ds |->
     IF ds[t].on /\ ds[t].idle < DialogTtl THEN [ds[t] EXCEPT !.idle = @ + 1] ELSE ds[t]]
=============================================================================
