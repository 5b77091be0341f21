---------------------------- MODULE MCOwnership ----------------------------
(***************************************************************************)
(* A small cluster: node n1 has two incarnations (a restart, during which  *)
(* the old process may still run), node n2 has one.                        *)
(***************************************************************************)
EXTENDS Ownership, TLC

CONSTANTS n1, n2, p1, p2, p3

MCNodeOf == [p \in Proc |-> IF p = p3 THEN n2 ELSE n1]

\* The two processes of n1 start alike and are treated alike.
Incarnations == Permutations({p1, p2})
=============================================================================
