----------------------------- MODULE TTLManager -----------------------------
(***************************************************************************)
(* The expiration manager of one database (hashMap/ttl_manager.go) and the *)
(* HashMap steps that feed it: Set installs a TTL (addEntry) after asking  *)
(* to drop the old one (delEntry), Del asks to drop it, and the sweeper    *)
(* goroutine started by TTLManager.Start calls delEntries each second,     *)
(* which detaches due buckets shard by shard and calls hm.Del on every key *)
(* it found.                                                               *)
(*                                                                         *)
(* Values are irrelevant here: the table keeps, per key, whether it is     *)
(* present and the Ttl field of its entry (the RELATIVE ttl the client     *)
(* sent, as Set stores it).  A membership is a pair <<second, key>> of     *)
(* em.list; second is absolute unix time (time.Now().Unix() + ttl).        *)
(***************************************************************************)
EXTENDS Naturals, FiniteSets, PowerOfTwo

CONSTANTS
  Clients,     \* request goroutines
  Keys,
  NoValue,     \* model value: key absent
  TTLs,        \* ttl values clients send (0 = none)
  NumShards,   \* numShards of the TTLManager (a power of two)
  KeyShard,    \* key -> 0..NumShards-1: hash & (numShards-1)
  Epoch,       \* time.Now().Unix() when the manager was created
  MaxTime,     \* last second the model lets the clock reach
  MaxOps,      \* requests per client
  Started      \* TTLManager.Start was called (nothing in the program calls it)

ASSUME /\ TTLs \subseteq Nat /\ 0 \in TTLs /\ Started \in BOOLEAN
       /\ NumShards \in Nat \ {0}
       /\ KeyShard \in [Keys -> 0..NumShards - 1]
       \* unix time is far above any ttl a client sends
       /\ \A t \in TTLs : Epoch > t
       /\ MaxTime \in Nat /\ MaxTime >= Epoch

VARIABLES
  clock,        \* time.Now().Unix()
  table,        \* key -> NoValue or the entry's Ttl field
  members,      \* set of <<second, key>>: the em.list maps of all shards
  lastDeleted,  \* ttlm.lastDeleted
  pc,           \* client -> "idle" | "add" (in addEntry, time already read)
  future,       \* client -> <<key, now + ttl>> computed by addEntry
  budget,       \* client -> requests left
  sw,           \* sweeper: "idle" | "scan" | "del"
  swNow,        \* the now argument of delEntries
  swI,          \* loop variable i of delEntries
  swShard,      \* index of the shard being scanned
  swPending,    \* keys detached from a bucket, not yet passed to hm.Del
  deadline      \* history: key -> absolute expiry its latest write asked
                \*   for (0 = none)

vars == <<clock, table, members, lastDeleted, pc, future, budget, sw, swNow,
          swI, swShard, swPending, deadline>>

TypeOK ==
  /\ clock \in Epoch..MaxTime
  /\ table \in [Keys -> TTLs \cup {NoValue}]
  /\ members \subseteq (Nat \X Keys)
  /\ lastDeleted \in Epoch..MaxTime
  /\ pc \in [Clients -> {"idle", "add"}]
  /\ budget \in [Clients -> 0..MaxOps]
  /\ sw \in {"idle", "scan", "del"}
  /\ swPending \subseteq Keys
  /\ deadline \in [Keys -> Nat]

Init ==
  /\ clock = Epoch
  /\ table = [k \in Keys |-> NoValue]
  /\ members = {}
  /\ lastDeleted = Epoch
  /\ pc = [c \in Clients |-> "idle"]
  /\ future = [c \in Clients |-> <<NoValue, 0>>]
  /\ budget = [c \in Clients |-> MaxOps]
  /\ sw = "idle" /\ swNow = Epoch /\ swI = Epoch /\ swShard = 0
  /\ swPending = {}
  /\ deadline = [k \in Keys |-> 0]

-----------------------------------------------------------------------------
(* The shard write lock of key k is held by a client inside Set (it keeps *)
(* it across addEntry).                                                    *)
Locked(k) == \E c \in Clients : pc[c] = "add" /\ future[c][1] = k

(* delEntry(entry, ttl): removes the key from the bucket at second ttl.  *)
DelEntry(m, k, ttl) == m \ {<<ttl, k>>}

(* HashMap.Set(ttl, key, value) with the shard lock held: an existing    *)
(* entry with a Ttl first gets delEntry(item, item.Ttl); the entry's Ttl *)
(* becomes ttl; addEntry returns at once for ttl 0, otherwise it reads   *)
(* the clock (future := now + ttl) before taking the shard's em.mut.     *)
Set(c, k, ttl) ==
  /\ pc[c] = "idle" /\ budget[c] > 0 /\ ~Locked(k)
  /\ budget' = [budget EXCEPT ![c] = @ - 1]
  /\ table' = [table EXCEPT ![k] = ttl]
  /\ members' = IF table[k] \notin {NoValue, 0}
                THEN DelEntry(members, k, table[k]) ELSE members
  /\ deadline' = [deadline EXCEPT ![k] = IF ttl = 0 THEN 0 ELSE clock + ttl]
  /\ IF ttl = 0
     THEN UNCHANGED <<pc, future>>
     ELSE /\ pc' = [pc EXCEPT ![c] = "add"]
          /\ future' = [future EXCEPT ![c] = <<k, clock + ttl>>]
  /\ UNCHANGED <<clock, lastDeleted, sw, swNow, swI, swShard, swPending>>

(* The rest of addEntry, under em.mut: give up if future <= lastDeleted, *)
(* otherwise file the key under second future.                           *)
AddEntry(c) ==
  LET k == future[c][1]
      f == future[c][2]
  IN
  /\ pc[c] = "add"
  /\ members' = IF f <= lastDeleted THEN members ELSE members \cup {<<f, k>>}
  /\ pc' = [pc EXCEPT ![c] = "idle"]
  /\ UNCHANGED <<clock, table, lastDeleted, future, budget, sw, swNow, swI,
                 swShard, swPending, deadline>>

(* HashMap.Del(key) with the shard lock held: delEntry(item, item.Ttl),  *)
(* then unlink the entry.                                                 *)
DelIn(k) ==
  /\ table' = [table EXCEPT ![k] = NoValue]
  /\ members' = IF table[k] = NoValue THEN members
                ELSE DelEntry(members, k, table[k])
  /\ deadline' = [deadline EXCEPT ![k] = 0]

Del(c, k) ==
  /\ pc[c] = "idle" /\ budget[c] > 0 /\ ~Locked(k)
  /\ budget' = [budget EXCEPT ![c] = @ - 1]
  /\ DelIn(k)
  /\ UNCHANGED <<clock, lastDeleted, pc, future, sw, swNow, swI, swShard,
                 swPending>>

-----------------------------------------------------------------------------
(* The sweeper goroutine that TTLManager.Start launches.  The timer      *)
(* fires at the start of each second and calls delEntries(now).  Nothing  *)
(* calls Start (NewHashMap starts only the AOF loop), so with Started     *)
(* FALSE, the program as it is, no sweep ever runs.                       *)
SweepStart ==
  /\ Started /\ sw = "idle" /\ clock > lastDeleted
  /\ sw' = "scan"
  /\ swNow' = clock
  /\ swI' = lastDeleted + 1
  /\ swShard' = 0
  /\ UNCHANGED <<clock, table, members, lastDeleted, pc, future, budget,
                 swPending, deadline>>

(* The loop position after the shard (swI, swShard) is done. *)
Advance ==
  IF swShard + 1 < NumShards
  THEN /\ swShard' = swShard + 1 /\ UNCHANGED swI
  ELSE /\ swShard' = 0 /\ swI' = swI + 1

(* One iteration of the inner loop: under em.mut detach the bucket at    *)
(* second swI of this shard; its keys go to hm.Del outside the lock.     *)
SweepShard ==
  LET due == {k \in Keys : <<swI, k>> \in members /\ KeyShard[k] = swShard}
  IN
  /\ sw = "scan" /\ swI <= swNow
  /\ members' = members \ {<<swI, k>> : k \in due}
  /\ IF due = {}
     THEN Advance /\ UNCHANGED <<sw, swPending>>
     ELSE /\ swPending' = due /\ sw' = "del"
          /\ UNCHANGED <<swI, swShard>>
  /\ UNCHANGED <<clock, table, lastDeleted, pc, future, budget, swNow,
                 deadline>>

(* delEntriesFromHashMap: the callback hm.Del(entry.Key) for one key; it *)
(* waits for the key's shard lock.                                        *)
SweepDel(k) ==
  /\ sw = "del" /\ k \in swPending /\ ~Locked(k)
  /\ DelIn(k)
  /\ swPending' = swPending \ {k}
  /\ IF swPending = {k} THEN Advance /\ sw' = "scan"
                        ELSE UNCHANGED <<swI, swShard, sw>>
  /\ UNCHANGED <<clock, lastDeleted, pc, future, budget, swNow>>

(* The loop is over: lastDeleted.Store(now). *)
SweepEnd ==
  /\ sw = "scan" /\ swI > swNow
  /\ lastDeleted' = swNow
  /\ sw' = "idle"
  /\ UNCHANGED <<clock, table, members, pc, future, budget, swNow, swI,
                 swShard, swPending, deadline>>

(* The wall clock advances one second, whatever the sweeper and the      *)
(* clients are doing: a delEntries that takes longer than a second makes *)
(* the next one start later and cover the seconds it missed.             *)
Tick ==
  /\ clock < MaxTime
  /\ clock' = clock + 1
  /\ UNCHANGED <<table, members, lastDeleted, pc, future, budget, sw, swNow,
                 swI, swShard, swPending, deadline>>

-----------------------------------------------------------------------------
Next ==
  \/ \E c \in Clients, k \in Keys, t \in TTLs : Set(c, k, t)
  \/ \E c \in Clients : AddEntry(c)
  \/ \E c \in Clients, k \in Keys : Del(c, k)
  \/ SweepStart \/ SweepShard \/ SweepEnd \/ Tick
  \/ \E k \in Keys : SweepDel(k)

Spec == Init /\ [][Next]_vars

-----------------------------------------------------------------------------
(* A key the sweeper removes: detached into swPending and passed to      *)
(* hm.Del in this step while still present.                              *)
SweptBy(k) == k \in swPending /\ k \notin swPending' /\ table[k] # NoValue

(* No early expiry: when the sweeper's hm.Del removes a key, the latest  *)
(* write of that key (a Set or a Del; Del's comment says it removes the  *)
(* entry from the TTLManager, and Set calls delEntry first) asked for    *)
(* an expiry, and that expiry is not after the current second.  The      *)
(* delEntry of a rewrite must withdraw the old filing for this to hold.  *)
NoEarlyExpiry ==
  [][\A k \in Keys : SweptBy(k) => deadline[k] # 0 /\ deadline[k] <= clock]_vars

=============================================================================
