------------------------------ MODULE KeySet ------------------------------
(***************************************************************************)
(* What the sharded table of a HashMap promises about its keys: a key is  *)
(* in the table from the Set or Incr that inserted it until the Del that   *)
(* removed it, each of these one atomic step, and nothing else adds or   *)
(* drops a key.  Updates in place, lookups and resizing change nothing    *)
(* here.  BucketTable is checked to implement this specification.        *)
(***************************************************************************)
CONSTANT Keys

VARIABLE present   \* the keys the table holds

Init == present = {}

Insert(k) == /\ k \notin present
             /\ present' = present \cup {k}

Remove(k) == /\ k \in present
             /\ present' = present \ {k}

Next == \E k \in Keys : Insert(k) \/ Remove(k)

Spec == Init /\ [][Next]_present

=============================================================================
