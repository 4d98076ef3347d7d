----------------------------- MODULE PowerOfTwo -----------------------------
(***************************************************************************)
(* TTLManager.LowerPowerOfTwo (hashMap/ttl_manager.go), with which         *)
(* NewTTLManager sizes its shard list and NewHashMap its basket lock array *)
(* (basketLockNum), both from runtime.NumCPU() * CPU_MULTIPLIER.  Both     *)
(* select by hash & (n - 1), which reaches every slot only when n is a     *)
(* power of two.                                                           *)
(***************************************************************************)
EXTENDS Naturals

RECURSIVE BitLen(_)
(* bits.Len64: the number of bits needed to write x. *)
BitLen(x) == IF x = 0 THEN 0 ELSE 1 + BitLen(x \div 2)

(* Mutant: shifts by bits.Len64(shards) instead of bits.Len64(shards - 1). *)
LowerPowerOfTwoNoDecrement(shards) ==
  IF shards <= 2 THEN 2 ELSE 2 ^ BitLen(shards)

(* 2 for up to 2, else 1 << bits.Len64(shards - 1). *)
LowerPowerOfTwo(shards) ==
  IF shards <= 2 THEN 2 ELSE 2 ^ BitLen(shards - 1)

(* The values of runtime.NumCPU() * CPU_MULTIPLIER the check covers: the
   floor of 2, and each power of two up to 8 with the value just past it. *)
ShardRequests == 0..9

(* LowerPowerOfTwo(n) is the least power of two that is at least 2 and  *)
(* at least n, for every n in ShardRequests.                            *)
IsLeastPowerOfTwo ==
  \A n \in ShardRequests :
    LET s == LowerPowerOfTwo(n) IN
    /\ \E i \in 1..BitLen(s) : s = 2 ^ i
    /\ s >= n /\ s >= 2
    /\ s > 2 => s < 2 * n

=============================================================================
