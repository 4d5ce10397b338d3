---------------------------- MODULE MCResourceMg ----------------------------
(***************************************************************************)
(* ResourceMg with five client addresses, below and above every entry, and *)
(* two device addresses.                                                   *)
(***************************************************************************)
EXTENDS ResourceMg
=============================================================================
