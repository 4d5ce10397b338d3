-------------------------- MODULE MCModuleRegistry --------------------------
(* Two programs of two binaries that both have a kernel k.                   *)
EXTENDS ModuleRegistry

CONSTANTS c1, c2, b1, b2, k, l, v

MCClients   == {c1, c2}
MCBinaries  == {b1, b2}
MCKernelsOf == (b1 :> {k, l}) @@ (b2 :> {k})
MCVarsOf    == (b1 :> {v}) @@ (b2 :> {})
ClientSymmetry == Permutations(MCClients)
=============================================================================
