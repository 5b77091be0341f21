----------------------------- MODULE MCCascade -----------------------------
(***************************************************************************)
(* One link; two bridges at the same time, one of them of a call whose BYE *)
(* cannot be built; two subscriptions of one call for one place, one retry *)
(* of the registration, and an alarm and a snapshot for one place.         *)
(***************************************************************************)
EXTENDS Cascade

CONSTANTS s1, s2

MCSub == {s1, s2}

MCSubCall == [s \in MCSub |-> "call"]
=============================================================================
