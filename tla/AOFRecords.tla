----------------------------- MODULE AOFRecords -----------------------------
(***************************************************************************)
(* The in-memory key/value semantics of one HydraKV database and the       *)
(* append-only-file (AOF) records that log them.                           *)
(*                                                                         *)
(* A table maps every key to its value or to NoValue.  A value is either   *)
(* an integer (a string that strconv.ParseInt accepts, represented by the  *)
(* integer it parses to) or NonNumeric (any other string).  The three      *)
(* mutating operations of HashMap (Set, Incr, Del) are defined here once,  *)
(* as pure operators, because the code runs the very same methods for a   *)
(* client request and for a record read back by ReplayAOF.                 *)
(***************************************************************************)
EXTENDS Integers, Sequences, FiniteSets, SequencesExt

CONSTANTS
  Keys,        \* keys clients use
  NoValue,     \* model value: key absent from the table
  NonNumeric,  \* model value: a stored string that is not a decimal int64
  IntBits      \* width of Go's int64, scaled down so TLC can wrap it

ASSUME IntBits \in Nat \ {0}

(* The record written by writeFrame: action, key and value.  Ttl is      *)
(* always 0 in the modules that use this one (TTL is modelled apart).    *)
Record(act, k, v) == [act |-> act, key |-> k, val |-> v]

EmptyTable == [k \in Keys |-> NoValue]

(* Go's int64 addition wraps in two's complement. *)
Wrap(x) ==
  LET m == 2^IntBits
      h == 2^(IntBits - 1)
  IN  ((x + h) % m) - h

(* checkIsNumber: strconv.ParseInt(s, 10, 64) succeeds. *)
IsNumber(v) == v \in Int

(* HashMap.Set on table t: update in place or insert. *)
SetIn(t, k, v) == [t EXCEPT ![k] = v]

(* HashMap.Incr on table t: a present key must hold a number and the     *)
(* amount must be a number; an absent key receives the amount verbatim, *)
(* without checking it.                                                   *)
IncrOk(t, k, a) == t[k] = NoValue \/ (IsNumber(t[k]) /\ IsNumber(a))

IncrIn(t, k, a) ==
  IF t[k] = NoValue THEN [t EXCEPT ![k] = a]
  ELSE IF IncrOk(t, k, a) THEN [t EXCEPT ![k] = Wrap(t[k] + a)]
  ELSE t

(* HashMap.Del on table t. *)
DelIn(t, k) == [t EXCEPT ![k] = NoValue]

(* ReplayAOF: one record applied the way the replay loop's switch does; *)
(* an unknown action is ignored.                                          *)
ApplyRecord(t, r) ==
  CASE r.act = "set"  -> SetIn(t, r.key, r.val)
    [] r.act = "del"  -> DelIn(t, r.key)
    [] r.act = "incr" -> IncrIn(t, r.key, r.val)
    [] OTHER          -> t

(* The table ReplayAOF rebuilds from a file holding the records rs. *)
Replay(rs) == FoldLeft(ApplyRecord, EmptyTable, rs)

(* The live entries of a table (GetAllEntriesAndCompress) and the file  *)
(* createCompressedAOF writes for them: one "set" record per entry.      *)
LiveKeys(t) == {k \in Keys : t[k] # NoValue}

SnapshotRecords(t) ==
  [i \in 1..Cardinality(LiveKeys(t)) |->
     LET k == SetToSeq(LiveKeys(t))[i] IN Record("set", k, t[k])]

=============================================================================
