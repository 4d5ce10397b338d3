------------------------ MODULE MCCheckpointRestore -------------------------
(***************************************************************************)
(* CheckpointRestore with a device that holds two allocations.  Of the two *)
(* addresses each process hands out, the next one hands out one again.     *)
(***************************************************************************)
EXTENDS CheckpointRestore

SharedAddresses == [r \in 0 .. MaxRestarts |-> {r + 1, r + 2}]
=============================================================================
