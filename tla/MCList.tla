------------------------------- MODULE MCList -------------------------------
(***************************************************************************)
(* CList with two values and an initial capacity of 2 instead of 4, so     *)
(* that two doublings happen within five elements.                         *)
(***************************************************************************)
EXTENDS CList
=============================================================================
