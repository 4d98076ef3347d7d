----------------------------- MODULE MCHashMap -----------------------------
(***************************************************************************)
(* Model values and bounds for checking HashMap with TLC.  Values: one     *)
(* number and one non-numeric string, so that Incr both succeeds and       *)
(* fails; IntBits = 3 keeps Go's int64 wrap-around reachable.              *)
(***************************************************************************)
EXTENDS HashMap, TLC

MCSetVals == {1, NonNumeric}
MCAmounts == {1}

(* Request goroutines are interchangeable. *)
ClientSymmetry == Permutations(Clients)
=============================================================================
