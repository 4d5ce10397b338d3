------------------------- MODULE MCInferenceReplay --------------------------
(***************************************************************************)
(* InferenceReplay with one single-threaded client process, and with two.  *)
(***************************************************************************)
EXTENDS InferenceReplay

OneThread == [t \in {"t1"} |-> "p1"]
TwoProcs == [t \in {"t1", "t2"} |-> IF t = "t1" THEN "p1" ELSE "p2"]

AnyTargets == <<>>
TwoTargets == <<1, 2>>
=============================================================================
