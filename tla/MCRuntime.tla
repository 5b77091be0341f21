----------------------------- MODULE MCRuntime -----------------------------
(***************************************************************************)
(* One shard with two devices: two keepalives of the first device, which   *)
(* have one coalescing key, a timer that its actor may schedule and        *)
(* cancel, and a command for the second.                                   *)
(***************************************************************************)
EXTENDS DeviceRuntime

CONSTANTS k1, k2, c, t1

MCDeviceOf == (k1 :> 1) @@ (k2 :> 1) @@ (c :> 2) @@ (t1 :> 1)

MCRoute == [d \in Device |-> 1]

MCClass == (k1 :> "Keepalive") @@ (k2 :> "Keepalive") @@ (c :> "Command")

\* The keepalives are alike: the caller of one of them is the first.
MCEarlier == (k1 :> {}) @@ (k2 :> {k1}) @@ (c :> {})
=============================================================================
