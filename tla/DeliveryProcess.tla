--------------------------- MODULE DeliveryProcess ---------------------------
(***************************************************************************)
(* The processes that deliver: each runs one outbox relay and one webhook  *)
(* worker, over the same database. What may fail is bounded for all of     *)
(* them together.                                                          *)
(***************************************************************************)
EXTENDS Naturals

CONSTANTS
  Process,    \* processes
  MaxFaults   \* bound on faults

ASSUME ProcessAssumption == MaxFaults \in Nat

VARIABLE faults   \* stops, failed transactions and skipped saves so far

Fault == faults < MaxFaults /\ faults' = faults + 1
=============================================================================
