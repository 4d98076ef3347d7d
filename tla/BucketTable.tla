---------------------------- MODULE BucketTable ----------------------------
(***************************************************************************)
(* The table of one HashMap (hashMap/hashmap.go): an array of baskets,     *)
(* each the head of a singly linked chain of Entry nodes, a striped array *)
(* of basket locks, the atomic counter Entries, and ResizeChecker's probe  *)
(* channel that makes it call CheckResize.                                 *)
(*                                                                         *)
(* Set, Incr and Del hold hm.mutex.RLock and the basket lock of            *)
(* hash & (basketLockNum-1); they find the basket with                     *)
(* hash & (basketNum-1).  Each is split where it reads and later writes a *)
(* shared pointer: the insert reads the basket head into NewEntry and then *)
(* stores the new node as head; Del finds the node and its predecessor and *)
(* then stores item.Next into prev.Next or the head.  CheckResize holds    *)
(* hm.mutex.Lock, so the rehash is one step.  The server's entry points   *)
(* come first: Server.Set and SetNX test CheckEntries, SetNX then calls   *)
(* hm.Get and calls hm.Set only on a miss; Server.Incr and Del call the   *)
(* table directly.  Values, TTLs and the AOF send are left out (HashMap  *)
(* and TTLManager model them): an update in place does not change the    *)
(* chains.  A node is an index into node; 0 is  *)
(* nil.                                                                    *)
(***************************************************************************)
EXTENDS Naturals, Sequences, SequencesExt, FiniteSets, PowerOfTwo

CONSTANTS
  Keys,          \* keys
  KeyHash,       \* key -> low bits of xxhash64 HashString(key)
  Clients,       \* goroutines calling Set/Incr/Del
  InitBuckets,   \* DefaultBasketSize (2048), scaled; a power of two
  LockNum,       \* basketLockNum = LowerPowerOfTwo(NumCPU * CPU_MULTIPLIER)
  ProbeEvery,    \* ResizeChecker calls CheckResize every 1000th probe
  ProbeCap,      \* capacity of hm.resizeCheck (1001)
  MaxOps,        \* calls per client
  MaxEntries,    \* *ENV.MAX_ENTRIES, the cap CheckEntries tests
  NoC            \* model value: a free basket lock

VARIABLES
  items,     \* basket -> head node (0: Items == nil); Len(items) = basketNum
  node,      \* node -> [key, next, by]; by: the kind of call that inserted it
  entries,   \* hm.Entries
  locks,     \* basket lock -> client holding it, or NoC
  probes,    \* signals buffered in hm.resizeCheck
  inputs,    \* ResizeChecker's local counter
  rc,        \* ResizeChecker: "wait" in its select, "resize" in CheckResize
  pc,        \* client -> "idle" | "check" | "get" | "probe" | "rlock" | "lock" |
            \*   "scan" | "link" | "unlink"
  op,        \* client -> [kind, key] of its call
  bkt,       \* client -> basket index getIndex gave (1-based)
  tgt,       \* client -> its new node (insert) or the node to unlink (Del)
  prv,       \* client -> Del's prev (0 when the node is the head)
  budget     \* client -> calls left

vars == <<items, node, entries, locks, probes, inputs, rc, pc, op, bkt, tgt,
          prv, budget>>

Ops == [kind : {"set", "setnx", "incr", "del"}, key : Keys]

-----------------------------------------------------------------------------
(* getIndex: hash & uint64(hm.basketNum-1), with basketNum a power of two. *)
Index(k, size) == KeyHash[k] % size

(* WLockBasketLock(hash): basketLocks[hash & uint64(hm.basketLockNum-1)]. *)
LockOf(k) == KeyHash[k] % LockNum

(* The nodes from head h along Next, in chain order.  fuel bounds the     *)
(* walk: a chain never holds more nodes than were allocated.              *)
RECURSIVE ChainIn(_, _, _)
ChainIn(nd, h, fuel) ==
  IF h = 0 \/ fuel = 0 THEN <<>> ELSE <<h>> \o ChainIn(nd, nd[h].next, fuel - 1)

Chain(h) == ChainIn(node, h, Len(node))

Reachable == UNION {Range(Chain(items[b])) : b \in DOMAIN items}

(* The keys held by a node of some basket's chain. *)
Present == {node[n].key : n \in Reachable}

(* checkNewBasket: a table of twice the size; every old basket in index  *)
(* order, every chain from its head (next saved before the relink), each  *)
(* node pushed onto the head of basket hash & (newSize-1).                *)
RehashOldMask(its, nd) ==
  LET size == 2 * Len(its)
      walk == FlattenSeq([b \in DOMAIN its |-> ChainIn(nd, its[b], Len(nd))])
      push(acc, n) ==
        LET j == Index(nd[n].key, Len(its)) + 1 IN
        [items |-> [acc.items EXCEPT ![j] = n],
         node  |-> [acc.node EXCEPT ![n].next = acc.items[j]]]
  IN FoldLeft(push, [items |-> [j \in 1..size |-> 0], node |-> nd], walk)

Rehash(its, nd) ==
  LET size == 2 * Len(its)
      walk == FlattenSeq([b \in DOMAIN its |-> ChainIn(nd, its[b], Len(nd))])
      push(acc, n) ==
        LET j == Index(nd[n].key, size) + 1 IN
        [items |-> [acc.items EXCEPT ![j] = n],
         node  |-> [acc.node EXCEPT ![n].next = acc.items[j]]]
  IN FoldLeft(push, [items |-> [j \in 1..size |-> 0], node |-> nd], walk)

(* CheckResize's test float64(Entries)/float64(len(table)) > 0.75. *)
Overloaded == 4 * entries > 3 * Len(items)

HoldsRLock(c) == pc[c] \in {"lock", "scan", "link", "unlink"}

-----------------------------------------------------------------------------
Init ==
  /\ items = [b \in 1..InitBuckets |-> 0]
  /\ node = <<>>
  /\ entries = 0
  /\ locks = [l \in 0..(LockNum - 1) |-> NoC]
  /\ probes = 0 /\ inputs = 0 /\ rc = "wait"
  /\ pc = [c \in Clients |-> "idle"]
  /\ op = [c \in Clients |-> [kind |-> "set", key |-> CHOOSE k \in Keys : TRUE]]
  /\ bkt = [c \in Clients |-> 1]
  /\ tgt = [c \in Clients |-> 0]
  /\ prv = [c \in Clients |-> 0]
  /\ budget = [c \in Clients |-> MaxOps]

(* A call of Server.Set, SetNX, Incr or Del starts.  Server.Set and SetNX *)
(* test CheckEntries first; Server.Incr and Del call hm.Incr and hm.Del,  *)
(* which send no probe.                                                    *)
Begin(c, o) ==
  /\ pc[c] = "idle" /\ budget[c] > 0
  /\ op' = [op EXCEPT ![c] = o]
  /\ pc' = [pc EXCEPT ![c] = IF o.kind \in {"set", "setnx"} THEN "check" ELSE "rlock"]
  /\ UNCHANGED <<items, node, entries, locks, probes, inputs, rc, bkt, tgt, prv, budget>>

(* The call returns false without touching the table. *)
Reject(c) ==
  /\ pc' = [pc EXCEPT ![c] = "idle"]
  /\ budget' = [budget EXCEPT ![c] = @ - 1]

(* Mutant: the cap test lets a write through at the cap. *)
CheckEntriesAtCap(c) ==
  /\ pc[c] = "check"
  /\ IF entries <= MaxEntries
     THEN pc' = [pc EXCEPT ![c] = IF op[c].kind = "setnx" THEN "get" ELSE "probe"]
          /\ UNCHANGED budget
     ELSE Reject(c)
  /\ UNCHANGED <<items, node, entries, locks, probes, inputs, rc, op, bkt, tgt, prv>>

(* CheckEntries: the write goes on only while GetEntries() < MAX_ENTRIES. *)
CheckEntries(c) ==
  /\ pc[c] = "check"
  /\ IF entries < MaxEntries
     THEN pc' = [pc EXCEPT ![c] = IF op[c].kind = "setnx" THEN "get" ELSE "probe"]
          /\ UNCHANGED budget
     ELSE Reject(c)
  /\ UNCHANGED <<items, node, entries, locks, probes, inputs, rc, op, bkt, tgt, prv>>

(* SetNX's hm.Get(key): under hm.mutex.RLock and the basket's read lock  *)
(* (no writer holds it) it walks the basket of the key; a hit makes SetNX *)
(* return false, a miss goes on to hm.Set once both locks are released.  *)
Get(c) ==
  LET k == op[c].key IN
  /\ pc[c] = "get" /\ rc = "wait" /\ locks[LockOf(k)] = NoC
  /\ IF \E n \in Range(Chain(items[Index(k, Len(items)) + 1])) : node[n].key = k
     THEN Reject(c)
     ELSE pc' = [pc EXCEPT ![c] = "probe"] /\ UNCHANGED budget
  /\ UNCHANGED <<items, node, entries, locks, probes, inputs, rc, op, bkt, tgt, prv>>

(* hm.Set: select { case hm.resizeCheck <- struct{}{}: default: } drops  *)
(* the signal when the buffer is full.                                    *)
Probe(c) ==
  /\ pc[c] = "probe"
  /\ probes' = IF probes < ProbeCap THEN probes + 1 ELSE probes
  /\ pc' = [pc EXCEPT ![c] = "rlock"]
  /\ UNCHANGED <<items, node, entries, locks, inputs, rc, op, bkt, tgt, prv, budget>>

(* hm.mutex.RLock(), blocked while CheckResize waits for or holds Lock;  *)
(* then getIndex.                                                         *)
RLock(c) ==
  /\ pc[c] = "rlock" /\ rc = "wait"
  /\ bkt' = [bkt EXCEPT ![c] = Index(op[c].key, Len(items)) + 1]
  /\ pc' = [pc EXCEPT ![c] = "lock"]
  /\ UNCHANGED <<items, node, entries, locks, probes, inputs, rc, op, tgt, prv,
                 budget>>

(* WLockBasketLock(hash). *)
BasketLock(c) ==
  /\ pc[c] = "lock" /\ locks[LockOf(op[c].key)] = NoC
  /\ locks' = [locks EXCEPT ![LockOf(op[c].key)] = c]
  /\ pc' = [pc EXCEPT ![c] = "scan"]
  /\ UNCHANGED <<items, node, entries, probes, inputs, rc, op, bkt, tgt, prv,
                 budget>>

(* The deferred WUnlockBasketLock and RUnlock: the call returns. *)
Done(c) ==
  /\ locks' = [locks EXCEPT ![LockOf(op[c].key)] = NoC]
  /\ pc' = [pc EXCEPT ![c] = "idle"]
  /\ budget' = [budget EXCEPT ![c] = @ - 1]

(* Set and Incr walk the basket.  A node of the key is updated in place   *)
(* (or Incr returns false on a non-number): the call returns.  Otherwise  *)
(* NewEntry(..., hash, basket.Items) reads the head into the new node.    *)
ScanInsert(c) ==
  LET k == op[c].key
      h == items[bkt[c]]
  IN
  /\ pc[c] = "scan" /\ op[c].kind \in {"set", "setnx", "incr"}
  /\ IF \E n \in Range(Chain(h)) : node[n].key = k
     THEN /\ Done(c)
          /\ UNCHANGED <<node, tgt>>
     ELSE /\ node' = Append(node, [key |-> k, next |-> h, by |-> op[c].kind])
          /\ tgt' = [tgt EXCEPT ![c] = Len(node) + 1]
          /\ pc' = [pc EXCEPT ![c] = "link"]
          /\ UNCHANGED <<locks, budget>>
  /\ UNCHANGED <<items, entries, probes, inputs, rc, op, bkt, prv>>

(* Mutant: the insert path of Incr without hm.Entries.Add(1). *)
LinkUncounted(c) ==
  /\ pc[c] = "link"
  /\ items' = [items EXCEPT ![bkt[c]] = tgt[c]]
  /\ Done(c)
  /\ UNCHANGED <<node, entries, probes, inputs, rc, op, bkt, tgt, prv>>

(* table[index].Items = e, addEntry, hm.Entries.Add(1); return. *)
Link(c) ==
  /\ pc[c] = "link"
  /\ items' = [items EXCEPT ![bkt[c]] = tgt[c]]
  /\ entries' = entries + 1
  /\ Done(c)
  /\ UNCHANGED <<node, probes, inputs, rc, op, bkt, tgt, prv>>

(* Mutant: Del's hm.Entries.Add(^uint64(0)) after the search loop, so it *)
(* also runs when the key is absent.                                       *)
ScanDelUnchecked(c) ==
  LET ch == Chain(items[bkt[c]])
      at == {i \in DOMAIN ch : node[ch[i]].key = op[c].key}
  IN
  /\ pc[c] = "scan" /\ op[c].kind = "del"
  /\ IF at = {}
     THEN /\ Done(c)
          /\ entries' = entries - 1
          /\ UNCHANGED <<tgt, prv>>
     ELSE LET i == CHOOSE j \in at : \A m \in at : j <= m IN
          /\ tgt' = [tgt EXCEPT ![c] = ch[i]]
          /\ prv' = [prv EXCEPT ![c] = IF i = 1 THEN 0 ELSE ch[i - 1]]
          /\ pc' = [pc EXCEPT ![c] = "unlink"]
          /\ UNCHANGED <<locks, budget, entries>>
  /\ UNCHANGED <<items, node, probes, inputs, rc, op, bkt>>

(* Del walks the basket with prev.  An empty basket or a missing key      *)
(* returns false.                                                         *)
ScanDel(c) ==
  LET ch == Chain(items[bkt[c]])
      at == {i \in DOMAIN ch : node[ch[i]].key = op[c].key}
  IN
  /\ pc[c] = "scan" /\ op[c].kind = "del"
  /\ IF at = {}
     THEN /\ Done(c)
          /\ UNCHANGED <<tgt, prv>>
     ELSE LET i == CHOOSE j \in at : \A m \in at : j <= m IN
          /\ tgt' = [tgt EXCEPT ![c] = ch[i]]
          /\ prv' = [prv EXCEPT ![c] = IF i = 1 THEN 0 ELSE ch[i - 1]]
          /\ pc' = [pc EXCEPT ![c] = "unlink"]
          /\ UNCHANGED <<locks, budget>>
  /\ UNCHANGED <<items, node, entries, probes, inputs, rc, op, bkt>>

(* Mutant: the unlink that always stores into the basket head. *)
UnlinkAtHead(c) ==
  /\ pc[c] = "unlink"
  /\ items' = [items EXCEPT ![bkt[c]] = node[tgt[c]].next]
  /\ UNCHANGED node
  /\ entries' = entries - 1
  /\ Done(c)
  /\ UNCHANGED <<probes, inputs, rc, op, bkt, tgt, prv>>

(* delEntry; prev.Next = item.Next, or basket.Items = item.Next without a *)
(* prev; hm.Entries.Add(^uint64(0)); return true.                          *)
Unlink(c) ==
  /\ pc[c] = "unlink"
  /\ IF prv[c] = 0
     THEN /\ items' = [items EXCEPT ![bkt[c]] = node[tgt[c]].next]
          /\ UNCHANGED node
     ELSE /\ node' = [node EXCEPT ![prv[c]].next = node[tgt[c]].next]
          /\ UNCHANGED items
  /\ entries' = entries - 1
  /\ Done(c)
  /\ UNCHANGED <<probes, inputs, rc, op, bkt, tgt, prv>>

(* ResizeChecker, case <-hm.resizeCheck: inputs++; every ProbeEvery-th    *)
(* probe it calls CheckResize and resets inputs.                          *)
RCRecv ==
  /\ rc = "wait" /\ probes > 0
  /\ probes' = probes - 1
  /\ IF inputs + 1 = ProbeEvery
     THEN /\ inputs' = 0 /\ rc' = "resize"
     ELSE /\ inputs' = inputs + 1 /\ UNCHANGED rc
  /\ UNCHANGED <<items, node, entries, locks, pc, op, bkt, tgt, prv, budget>>

(* CheckResize under hm.mutex.Lock, once the readers left: checkNewBasket *)
(* when the load factor exceeds 0.75.                                     *)
CheckResize ==
  /\ rc = "resize" /\ \A c \in Clients : ~HoldsRLock(c)
  /\ IF Overloaded
     THEN LET r == Rehash(items, node) IN
          /\ items' = r.items
          /\ node' = r.node
     ELSE UNCHANGED <<items, node>>
  /\ rc' = "wait"
  /\ UNCHANGED <<entries, locks, probes, inputs, pc, op, bkt, tgt, prv, budget>>

Next ==
  \/ \E c \in Clients, o \in Ops : Begin(c, o)
  \/ \E c \in Clients : CheckEntries(c) \/ Get(c) \/ Probe(c)
  \/ \E c \in Clients :
       RLock(c) \/ BasketLock(c) \/ ScanInsert(c) \/ Link(c) \/ ScanDel(c) \/ Unlink(c)
  \/ RCRecv \/ CheckResize

Spec == Init /\ [][Next]_vars

-----------------------------------------------------------------------------
TypeOK ==
  /\ items \in Seq(0..Len(node))
  /\ node \in Seq([key : Keys, next : 0..Len(node), by : {"set", "setnx", "incr"}])
  /\ entries \in Nat   \* hm.Entries, an atomic.Uint64
  /\ locks \in [0..(LockNum - 1) -> Clients \cup {NoC}]
  /\ probes \in 0..ProbeCap /\ inputs \in 0..(ProbeEvery - 1)
  /\ rc \in {"wait", "resize"}
  /\ pc \in [Clients -> {"idle", "check", "get", "probe", "rlock", "lock", "scan",
                         "link", "unlink"}]
  /\ op \in [Clients -> Ops]
  /\ budget \in [Clients -> 0..MaxOps]

(* Get, Set, Incr and Del search only the basket getIndex selects at the  *)
(* current basketNum, so every node reachable from a basket must hash to  *)
(* that basket, across the relinking of checkNewBasket and the inserts    *)
(* and unlinks of concurrent calls; and a key is held by one node only.   *)
EveryKeyFindable ==
  /\ \A b \in DOMAIN items :
       \A n \in Range(Chain(items[b])) : Index(node[n].key, Len(items)) + 1 = b
  /\ Cardinality(Present) = Cardinality(Reachable)

(* hm.Entries, which CheckResize divides by the basket count, equals the  *)
(* number of entries in the chains after any interleaving of inserts of    *)
(* Set and Incr and unlinks of Del.                                        *)
EntriesCountsTable == entries = Cardinality(Reachable)

(* The entry cap of Server.Set and SetNX.  CheckEntries reads Entries    *)
(* with no lock that excludes an insert, so the keys these calls insert  *)
(* may pass MAX_ENTRIES, but only by the callers already past the test:  *)
(* at most one more per concurrent caller.  A test at the cap, or one    *)
(* that a concurrent insert, unlink or rehash could make pass twice for  *)
(* one caller, would let them grow further.  (Server.Incr does not test  *)
(* the cap at all; its inserts are not counted here.)                    *)
CapOvershootBounded ==
  Cardinality({n \in Reachable : node[n].by \in {"set", "setnx"}})
    <= MaxEntries - 1 + Cardinality(Clients)

(* The table implements KeySet: with the keys reachable from the baskets  *)
(* as its state, every step is an atomic insert of an absent key, removal *)
(* of a present one, or changes no key; a relink, an update in place or   *)
(* an unlink never loses or revives another key.                          *)
Abs == INSTANCE KeySet WITH present <- Present

ImplementsKeySet == Abs!Spec

(* The basket lock count NewHashMap takes from LowerPowerOfTwo (and the  *)
(* TTL shard count NewTTLManager takes from it) is the least power of two *)
(* that is at least 2 and at least the CPU-derived request: the hash &    *)
(* (n-1) of WLockBasketLock and addEntry then reaches every slot, and no  *)
(* more slots than needed are made.  Checked for every request in        *)
(* ShardRequests (1 << 64 wrapping to 0 needs a request above 2^63).     *)
ShardCountIsLeastPowerOfTwo == [][IsLeastPowerOfTwo]_vars

=============================================================================
