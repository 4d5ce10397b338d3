---------------------------- MODULE MCHostMemory ----------------------------
(* Two clients share the server's table of three entries.                     *)
EXTENDS HostMemory, TLC

CONSTANTS c1, c2

MCClients == {c1, c2}
ClientSymmetry == Permutations(MCClients)
=============================================================================
