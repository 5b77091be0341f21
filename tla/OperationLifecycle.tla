------------------------- MODULE OperationLifecycle -------------------------
(***************************************************************************)
(* What the operation aggregate promises its readers: one life cycle, told *)
(* once. The status moves from Pending to Running to one terminal status   *)
(* and stays there; every change publishes exactly one event, in the order *)
(* of the changes.                                                         *)
(***************************************************************************)
EXTENDS Sequences

VARIABLES
  status,   \* the status a reader of the operation sees
  told      \* the statuses announced by its events, oldest first

Terminal == {"Succeeded", "Failed", "Cancelled", "TimedOut"}

\* A transition of the status and the event that announces it.
Move(to) == status' = to /\ told' = Append(told, to)

\* Operation::new.
LifeNew == status = "none" /\ Move("Pending")

\* Operation::start.
LifeStart == status = "Pending" /\ Move("Running")

\* Operation::complete, which needs a running operation.
LifeComplete(to) ==
  /\ status = "Running"
  /\ to \in {"Succeeded", "Failed"}
  /\ Move(to)

\* Operation::cancel, fail, timeout and expire.
LifeAbort(to) ==
  /\ status \in {"Pending", "Running"}
  /\ to \in {"Cancelled", "Failed", "TimedOut"}
  /\ Move(to)

LifeInit == status = "none" /\ told = <<>>

LifeNext ==
  LifeNew \/ LifeStart \/ \E to \in Terminal : LifeComplete(to) \/ LifeAbort(to)

LifeSpec == LifeInit /\ [][LifeNext]_<<status, told>>
=============================================================================
