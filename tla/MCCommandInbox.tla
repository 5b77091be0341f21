--------------------------- MODULE MCCommandInbox ---------------------------
(***************************************************************************)
(* Node n1 with two overlapping processes, node n2 with one; a command,    *)
(* and one more copy of it from a forward or a second send.                *)
(***************************************************************************)
EXTENDS CommandInbox

CONSTANTS n1, n2, p1, p2, p3, k1, k2

MCNodeOf == [p \in Proc |-> IF p = p3 THEN n2 ELSE n1]
=============================================================================
