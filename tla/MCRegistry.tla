----------------------------- MODULE MCRegistry -----------------------------
(* TLC instance of Registry: handler goroutines are interchangeable. *)
EXTENDS Registry, TLC

GoroutineSymmetry == Permutations(Goroutines)

=============================================================================
