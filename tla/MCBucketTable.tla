--------------------------- MODULE MCBucketTable ---------------------------
EXTENDS BucketTable, TLC

CONSTANTS k1, k2, k3

(* k1 and k2 share basket 0 of 2 and split at 4 baskets; k3 is in basket 1. *)
(* The two goroutines run the same code: interchangeable. *)
MCClientSymmetry == Permutations(Clients)

(* basketLockNum as NewHashMap computes it for a CPU request of 2. *)
MCLockNum == LowerPowerOfTwo(2)

MCKeyHash == (k1 :> 0) @@ (k2 :> 2) @@ (k3 :> 1)

=============================================================================
