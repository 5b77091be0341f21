---------------------------- MODULE AtLeastOnce ----------------------------
(***************************************************************************)
(* What the delivery workers promise: an item that is reported delivered   *)
(* has reached its receiver, perhaps several times. An item that was given *)
(* up may be taken up again; only for the items in Final is "delivered"    *)
(* the end.                                                                *)
(***************************************************************************)
CONSTANTS Item, Final

VARIABLES
  status,   \* of every item
  received  \* items that have reached their receiver

abstractVars == <<status, received>>

AbstractInit == status = [i \in Item |-> "none"] /\ received = {}

\* The receiver gets an item, which says nothing of what the sender learns.
Reach(i) == status[i] # "none" /\ received' = received \cup {i} /\ UNCHANGED status

\* What a sender may write about an item: that it is accepted, delivered, given
\* up, or taken up again.
MayMove(i, from, to) ==
  LET undone == IF i \in Final THEN {} ELSE {"delivered"}
  IN  \/ from = to
      \/ from = "none" /\ to = "waiting"
      \/ from \in {"waiting", "dropped"} /\ to = "delivered" /\ i \in received
      \/ from \in {"waiting"} \cup undone /\ to = "dropped"
      \/ from \in {"dropped"} \cup undone /\ to = "waiting"

\* A transaction of a sender writes about any number of items.
Write ==
  /\ status' \in [Item -> {"none", "waiting", "delivered", "dropped"}]
  /\ \A i \in Item : MayMove(i, status[i], status'[i])
  /\ UNCHANGED received

AbstractNext == Write \/ \E i \in Item : Reach(i)

AbstractSpec == AbstractInit /\ [][AbstractNext]_abstractVars
=============================================================================
