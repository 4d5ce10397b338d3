----------------------------- MODULE MCMtMemcpy -----------------------------
(* One client copies to the device, another from it: copies of five cells in *)
(* two chunks, the second one longer.                                        *)
EXTENDS MtMemcpy

CONSTANTS c1, c2

MCClients == {c1, c2}
MCUses    == {<<c1, "htod">>, <<c2, "dtoh">>}
=============================================================================
