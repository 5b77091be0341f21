---------------------------- MODULE MCGbPresence ----------------------------
(***************************************************************************)
(* One device behind one TCP connection and the ticker.                    *)
(***************************************************************************)
EXTENDS GbPresence

CONSTANTS c1, ticker

MCConn == {c1}
=============================================================================
