---------------------------- MODULE MCTTLManager ----------------------------
(* TLC instance of TTLManager: two keys in two shards, unix time starting *)
(* at Epoch.                                                               *)
EXTENDS TTLManager, TLC

MCKeyShard == [k \in Keys |-> IF k = CHOOSE x \in Keys : TRUE THEN 0 ELSE 1]

=============================================================================
