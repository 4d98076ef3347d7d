# TLA+ models of HydraKV

These modules model the concurrent core of HydraKV, an in-memory key/value
server written in Go. The server keeps several named databases. Each database
logs its writes to an append-only file (AOF) and expires keys by TTL. The models
are checked with TLC. Each definition is translated from the Go source, and
`PROJECT.json` ("map") names the lines each one stands for.

## The system and how its parts interact

| Part | Source | State | Operations |
|---|---|---|---|
| HashMap | `hashMap/hashmap.go` (`src/unnamed/part_005`), `entry.go` | buckets of entries, `Entries`, `deletedEntries`, per-shard RW locks, a table RW lock | `Set`, `Incr`, `Del`, `Get`, `ReplayAOF`, `GetAllEntriesAndCompress`, `CheckResize`, `ResizeChecker`, `Close` |
| AOF | `hashMap/aof.go` (`src/unnamed/part_006`) | channel `com` (capacity 100000), a bufio writer over `NAME.bin`, channels `compressing` (unbuffered) and `quit` | `Loop` (select over com / 100 ms ticker / compressing), `writeFrame`, `createCompressedAOF`, `Close`, `readFrame` |
| TTLManager | `hashMap/ttl_manager.go` | per shard: a map from absolute second to keys, behind a mutex; `lastDeleted` | `addEntry`, `delEntry`, `delEntries` (sweeper goroutine, once per second), `Stop` |
| Server registry | `server/routes.go` (second half) | map of databases behind `s.mut` (RWMutex) | `NewDB`, `DBDelete`, `CloseDbs`, `ReloadDb`, `Set`/`SetNX`/`Incr`/`Del`/`Get`, `CheckEntries`, `CreateApiKey` |
| HTTP/gRPC front ends | `server/routes.go` (first half), `server/grpcserver.go`, `server/limit.go` | one admission semaphore per front end | admit or refuse (429 / ResourceExhausted), check the API key, call one Server method, release the slot |
| main | `main.go` | — | start gRPC, then `server.Start` (`ReloadDb`, then `ListenAndServe`); on a signal `GracefulStop`, `Shutdown`, `CloseDbs` |
| API keys, restart check, configuration | `src/unnamed/part_001`, `part_004`, `part_000` | files under the DB folder, environment | save/restore keys, read marker, parse env |

The parts interact as follows:
- A request goroutine calls a Server method under `s.mut.RLock`, which calls the HashMap.
- `HashMap.Set`/`Incr`/`Del` first send an AOF record on `com`, with no lock held. They then take the table read lock and the key's shard write lock, change the table, and call the TTLManager (`delEntry`, `addEntry`).
- The AOF `Loop` goroutine writes records into a bufio buffer and flushes it every 100 ms.
- Every 60 s, `ResizeChecker` asks `Loop` for a compaction by sending on `compressing` when deletions dominate. `Loop` then snapshots the table under the table write lock, writes a tmp file and renames it over the log.
- The TTLManager sweeper calls `HashMap.Del` for every key in a due bucket. That `Del` also logs a record.
- `HashMap.Close` (called from `DBDelete`/`CloseDbs` under `s.mut.Lock`) stops the sweeper, closes `com`, and waits for `Loop` to drain and flush.
- `main` starts the gRPC server first, in a goroutine, and then `server.Start`. `server.Start` runs `ReloadDb` (which calls `RestoreApiKeys` and then `NewDB` for every stored name) before HTTP listens. gRPC therefore serves while the reload holds and announces `s.mut`.
- Nothing calls `TTLManager.Start`, so the sweeper goroutine never runs in the program. With `Started = FALSE` a key set with a TTL is never deleted; no run records it, since the cause is one missing call and the runs are spent on races. `ttl_early_expiry` starts the sweeper, as `TestHashMap_TTL` expects.

## Modules

| Module | Models |
|---|---|
| `AOFRecords` | The table semantics shared by requests and replay: `SetIn`, `IncrIn` (int64 wrap-around, unchecked amount on an absent key), `DelIn`, `ApplyRecord` (the switch of `ReplayAOF`), `Replay` as a fold of the records of a file, and `SnapshotRecords` (the file compaction writes). Values are integers or the model value `NonNumeric`; the int64 width is scaled to `IntBits`. |
| `HashMap` | One database with clients, the AOF writer, the compaction trigger and Close. Each request is two actions, as in the code: `Begin` (Server-side checks and the send on `com`) and `Apply` (the table change under the shard lock). `LoopWrite`/`LoopTick`/`LoopCompact`/`LoopExit` are the select cases of `AOF.Loop`. `LoopCompact` has three outcomes: `CompactOk`, `CompactTmpFails` (the old file is kept) and `CompactRenameFails` (the old file was already closed). `RCTick`/`RCReset`/`RCDone` are `ResizeChecker`'s ticker and done cases. `CloseBegin`/`CloseEnd` are `HashMap.Close`/`AOF.Close`. History variables: `base` and `written`, what the file must hold. |
| `TTLManager` | The expiry buckets and the sweeper. The constant `Started` says whether `Start` was called: `FALSE` is the program as it is, and `TRUE` is the sweeper that `TestHashMap_TTL` expects. `Set`/`Del` are the HashMap methods as far as they touch TTLs. `Set` is split at the clock read of `addEntry`, because the shard mutex is taken only after the clock read. `SweepStart`, `SweepShard`, `SweepDel` and `SweepEnd` are the loop of `delEntries` and its `hm.Del` callback. `Tick` is the wall clock, which advances whatever the sweeper does. History variable: `deadline` (the expiry the latest write asked for). |
| `PowerOfTwo` | `LowerPowerOfTwo` (with the recursive `BitLen` standing for `bits.Len64`), from which `NewTTLManager` takes its shard count and `NewHashMap` its `basketLockNum`. `TTLManager` and `BucketTable` extend it; `MCBucketTable` computes `LockNum` with it. |
| `Registry` | The server process around `s.dbs`: `s.mut` as Go's writer-preferring `sync.RWMutex` (`readers` counts read locks per goroutine; `writer` is the goroutine that announced or owns `Lock`), the two front ends and their semaphores `sem`, the API keys, startup and shutdown. A request is `Admit` (limiter or the two gRPC interceptors; the deadline check may refuse it after the slot was taken), `Handle` (rootHandler's key check and the read-locked `DBExists`, then `HttpRoute` or `GrpcRoute`), the Server call and `Release` (the deferred receive). `RLock`, `CheckEntries` (the nested `RLock`) and `Op` are `Server.Set`/`SetNX` and the one-level `Incr`/`Del`/`Get`. `NewHashMap` (before any lock; `NewHashMapFails` is its error return), `LockAnnounce`, `Install` and `SaveKey` (CreateApiKey) are `NewDB`; `DBDelete` is DeleteDB's delete. A key is a version number: `keys` is the in-memory key, `keyFile` the `.NAME.apikey` file, `minted` the latest version. The goroutine `Loader` is `server.Start`: `Restore` (RestoreApiKeys with its file-name arithmetic `KeyFileName`, `TrimApikey`, `ReadPath`), `Reload` (one NewDB per stored name) and `Listen`. `Main` is main's shutdown: `Signal`, `GrpcStop` (GracefulStop), `Drained` (Server.Shutdown returns once the handlers are idle), `ShutdownTimeout` (its context expires first; main logs the error and goes on) and `CloseDbs`. HashMap instances are indices into `inst`; `closed` holds those that were closed. |
| `XXHash64` | The cgo xxhash64 package in `main.go`. A uint64 is an 8-byte little-endian tuple, because TLC integers are 32-bit; `Add`, `Sub`, `Mul`, `Shl`, `Shr`, `Xor64`, `Or64` are the uint64 operations on it. `Round`, `MergeRound`, `Finalize` (the 8-byte, 4-byte and byte loops plus `Avalanche`), `ScalarSeed`, `Avx2Seed` (`_mm256_set_epi64x` lane order, the unrolled 128-byte and 32-byte loops, the 64-bit multiply from `_mm256_mul_epu32` partial products), `NeonSeed` (two lanes per vector) and the dispatch `XXHash64Seed` are RECURSIVE operators. The state is the start order: `PackageInit` (Go's `init`: copy the seed flag, run `xxhash64_init`'s CPU detection), `LoadENVs` (main), then `HashString`/`HashStringSeed` calls; `HashOf` is the value a call returns. |
| `BucketTable` | The table inside one HashMap: `items` (basket heads), `node` (Entry nodes with their `Next`), `entries` (`hm.Entries`), the striped basket locks `locks`, and `ResizeChecker`'s probe buffer and counter. A call is `Begin` (Server.Set, SetNX, Incr or Del), for Set and SetNX `CheckEntries` (the cap test, which may `Reject`), for SetNX `Get` (hm.Get under the read locks; a hit rejects), for both `Probe` (hm.Set's non-blocking probe), then `RLock` (with `getIndex`), `BasketLock`, then `ScanInsert` and `Link` (the read of the head into `NewEntry`, then the store of the new head) for Set/SetNX/Incr of an absent key, or `ScanDel` and `Unlink` (find node and prev, then store `item.Next`) for Del. `RCRecv` is the probe case of `ResizeChecker`; `CheckResize` runs `Rehash` (`checkNewBasket`, a fold over the old chains) under the table write lock. Each node records the kind of call that inserted it (`by`), a history field the cap property reads. |
| `KeySet` | The abstract specification of the table: a set of keys with atomic `Insert` of an absent key and `Remove` of a present one. `BucketTable` instantiates it with `present <- Present` and checks `Abs!Spec` as the property `ImplementsKeySet`. |
| `MCHashMap`, `MCTTLManager`, `MCRegistry`, `MCXXHash64`, `MCBucketTable` | TLC instances: small value sets, a key-to-shard map, and client symmetry. |

Abstractions:
- Keys, values and clients are model values.
- Frame encoding is abstracted to records `[act, key, val]`.
- The table lock plus shard lock make every table change one atomic step. The compaction snapshot holds the table write lock, so it excludes all of those steps.
- In `HashMap`, `SetNX`'s `Get` and its send are one step. This only removes interleavings; `BucketTable` splits them and shows the double success.
- In `TTLManager`, a key's shard lock is modelled per key. Different keys that share a lock in the code may interleave here a little more than the code allows.

## Runs

| Run (cfg) | Expect | Checks | What it shows |
|---|---|---|---|
| `MCHashMap.cfg` | pass | `TypeOK`, `ClosedIsDurable` | With 2 clients, one key, up to 3 Set/Incr/Del each, a channel of 2 and every Loop case, the file after Close is the last compaction's snapshot followed by every record received since. Flushes on tick and exit lose nothing, and a full channel only blocks. |
| `MCHashMapLive.cfg` | pass | `CloseCompletes` | `Close` always returns, including after a failed compaction (CompactFails = TRUE). |
| `MCHashMapReplayRace.cfg` | violation | `ReplayMatchesTable` | Two Sets of one key are logged in one order and applied in the other. |
| `MCHashMapCompactFail.cfg` | violation | `ClosedIsDurable` | After a failed rename, every record written later is lost. |
| `MCBucketTable.cfg` | pass | `TypeOK`, `EveryKeyFindable`, `EntriesCountsTable`, `CapOvershootBounded`, `ImplementsKeySet`, `ShardCountIsLeastPowerOfTwo` | With 2 goroutines making 2 Server.Set/SetNX/Incr/Del calls each on 3 keys, `MAX_ENTRIES` 1 (two sharing a basket until the resize splits them), 2 baskets, 2 basket locks and a CheckResize after every second probe, every reachable node sits once in the basket getIndex selects, `Entries` equals the number of nodes, the keys Set and SetNX inserted exceed `MAX_ENTRIES` by at most one per concurrent caller (the test in `CheckEntries` holds no lock against inserts), and the table implements `KeySet` under the mapping "the keys reachable from the baskets". `LowerPowerOfTwo(n)`, which sizes the lock array and the TTL shards, is the least power of two that is at least `max(2, n)`, for n in 0..9. `TypeOK`'s `Entries` stays a natural number: a Del that decremented it without finding the key would wrap the uint64. |
| `MCTTLManager.cfg` | violation | `NoEarlyExpiry` | With the sweeper started, a Set of a key with TTL 1 and a second Set of it with TTL 0: the second calls `delEntry(item, 1)`, which looks under second 1 instead of the absolute second it was filed under, so the filing stays and the sweep of that second deletes the key. |
| `MCXXHash64.cfg` | pass | `TypeOK`, `HashIsXXH64` | For 6 CPUs (AVX2; amd64 lacking OSXSAVE, YMM state or AVX2; arm64; riscv64), 11 keys of 0 to 161 bytes and seeds 0 and PRIME64_3, every HashString and HashStringSeed returns XXH64: the published values for "a", "abc" and the 39-byte xxHash test string, and otherwise the scalar path's value. The AVX2 lane order and 32-bit-product multiply and the NEON two-lane rounds agree with the scalar code on every stripe count and tail length. |
| `MCRegistry.cfg` | pass | `TypeOK`, `NoUseAfterDelete` | With 2 goroutines × 2 requests of every kind over HTTP and gRPC, semaphores of 1, one stored database reloaded at startup, and then the signal (with or without Shutdown's timeout), a request reaches a closed HashMap only after main's CloseDbs: DBDelete removes what it closes in the same critical section. |
| `MCRegistryLive.cfg` | pass | `RequestsComplete`, `ShutdownCompletes` | Without Set/SetNX and with API keys on (creates, deletes, key rotations, one-level calls), every started request returns and frees its slot, and after the signal main gets through GracefulStop, Shutdown and CloseDbs. |
| `MCRegistryDeadlock.cfg` | violation | `ShutdownCompletes` | A gRPC Set arrives while ReloadDb recreates a stored database. Its nested `RLock` in CheckEntries meets NewDB's waiting `Lock`; both hang, and GracefulStop then waits forever. |
| `MCRegistryCreate.cfg` | violation | `OneInstancePerName` | A gRPC CreateDB of a stored name races ReloadDb's NewDB of it: both pass DBExists and both open `NAME.bin`. |
| `MCRegistryRestore.cfg` | violation | `KeysSurviveRestart` | With API keys on and one stored database, RestoreApiKeys reads `..NAME.apikey` (the name keeps its leading dot and gains another), fails, and ReloadDb recreates nothing: HTTP listens with the database absent and its key lost. |

The violations are listed as findings in `PROJECT.json`.

`XXHash64` also shows an ordering bug no run records (the project is at the checker's limit of runs): xxhash64's `init` copies `*ENV.XXHASH_SEED` before `main` calls `LoadENVs`, so `HKV_XXHASH_SEED` never takes effect. The state after `LoadENVs` has `envSeed` set and `seed` still 0. Similarly, `LoadENVs` matches the gRPC and CPU multiplier variables by constant instead of tag name, so they are never read; that is listed as a hazard only.

`HashMap` and `BucketTable` also reach disagreements with the spec that no run records (a compaction snapshot missing a Set that was written to the old file first is one more way `ReplayMatchesTable` fails). Each was confirmed by stating it as an invariant or property against the model:
- Two `SetNX` calls of one key both pass `Get` while it is absent; in `BucketTable` the second reaches hm.Set's update in place of the node the first inserted (11 steps), and both return true.
- `Server.Incr` has no cap check, so Incr of absent keys takes the table past `MAX_ENTRIES - 1 + |Clients|` (15 steps); `CapOvershootBounded` therefore counts Set and SetNX inserts only. hm.Incr sends no resize probe either.
- `RCTick` fires after `LoopExit` (Go's `select` may pick the ticker even once `hm.done` is closed), and `ResizeChecker` then blocks on `compressing` forever: `state = "closed" ~> rc = "exited"` fails in 23 steps under the `MCHashMapLive` fairness. Close itself returns; the goroutine leaks.

In `BucketTable`, the basket lock is `hash & (basketLockNum-1)` and the basket `hash & (basketNum-1)`. `basketLockNum = LowerPowerOfTwo(NumCPU * 16)` exceeds the 2048 initial baskets on machines with more than 128 CPUs. With `LockNum = 4 > InitBuckets = 2`, TLC finds in 11 steps two Sets of keys in one basket under different locks: both read the empty head, and the second store drops the first entry while `Entries` counts both (`EntriesCountsTable` and `ImplementsKeySet` fail). It is listed as a hazard; the runs are at the checker's limit.

In `Registry`, two concurrent deletes of one name reach `DBDelete`'s nil path. When Shutdown's context expires with an HTTP request admitted, CloseDbs closes every HashMap and leaves it in `s.dbs`; the request then takes its read lock and calls the closed HashMap, which panics on the closed channel (`NoUseAfterClose` fails in 14 steps). `PROJECT.json` lists each of these as a hazard.

**Bounds.**
- Every race above needs at most two clients and one key, and every run explores them exhaustively.
- `MaxOps` of 3 (or 6 and 7 with one client) is enough to reach the compaction threshold `(entries > 2 || deleted > 2) && deleted >= entries/2`. It also lets writes follow a compaction.
- A channel capacity of 2 makes the "channel full" case reachable.
- `IntBits = 3` makes Incr wrap-around reachable.
- In `Registry`, one name and at most two goroutines with two requests each reach every lock conflict above (a conflict needs two holders). A semaphore of 1 makes the full-semaphore refusal reachable with two goroutines.
- `ShardRequests = 0..9` covers the floor of 2 and the power-of-two boundaries 4 and 8 with the values just past them.
- TTLs up to 2 and 3 clock ticks let an expiry fall on a second that is swept, one that is not yet swept, and one that was just swept; a rewrite with another TTL then has an old filing to withdraw.

- `MCXXHash64` picks key lengths 0, 1, 3, 5, 12, 31 (tail only), 32 (one stripe), 39, 64, 128 (one unrolled AVX2 block), 161 (an unrolled block, a 32-byte block and a 1-byte tail), so every loop of the three paths runs zero, one and several times and every tail branch (8-, 4- and 1-byte) is taken. Seed PRIME64_3 has bits set in every byte, so every carry of the byte-tuple arithmetic is exercised.

- `MCBucketTable`: keys k1 and k2 (hashes 0 and 2) share basket 0 of 2 and part at 4, and k3 (hash 1) has basket 1. With 2 baskets, two Sets make the load factor exceed 0.75, and two probes trigger `CheckResize`, so a resize happens between and during calls. Two goroutines with two calls each reach an insert or unlink interleaved with another call on the same basket. `MAX_ENTRIES` of 1 lets two concurrent Sets pass the test at 0 entries, so the overshoot the property bounds happens, and a cap test at the cap would give a third. A probe buffer of 1 is filled by two concurrent Sets, so dropped probes happen. Client symmetry halves the states (about 640,000).

**Fairness.**
- `Loop`, `ResizeChecker`'s reset and done cases, the second half of every request, and `Close` are weakly fair. The Go scheduler eventually runs every runnable goroutine, and these steps wait on nothing that can be withheld forever.
- Clients are not obliged to send requests.
- In `Registry`, every step of a started request, `server.Start`'s restore, reload and listen, and main's steps after the signal, are weakly fair. No request and no signal is obliged to arrive. The Go RWMutex lets a blocked `RLock` in once the writer unlocks. Requests are finite, so a waiting goroutine is not passed over forever.
- Shutdown's timeout is weakly fair together with the normal return (`WF(Drained \/ ShutdownTimeout)`): the context's timer always fires.
- The `TTLManager`, `BucketTable` and `XXHash64` runs check only safety, and `Tick` carries no timing assumption.

**Deadlock** is not checked (`CHECK_DEADLOCK FALSE`), except in `MCXXHash64.cfg`, where a hash call is always possible. The modelled database really stops: after Close, or once the clock bound and the request budget are used up; `BucketTable` stops when every goroutine has made its calls.

## Not modelled (yet), in the order planned

1. How long a handler takes (Shutdown's timeout may come at any point), and `ChangeApiKey`'s hashing and byte contents (a key is a version number).
2. TTLManager composed with the AOF close path. `Stop` returns at once (its `cancel` is never set, since `Start` is never called); a started sweep's `Del` could send on the closed `com`.
3. Restart of one database: `ReplayAOF` with relative TTLs (re-armed on every restart).
4. Compaction of two databases sharing one tmp file name, and a crash between flushes.
5. Values in `BucketTable` (an update in place is a no-op there) and `Get` as a request of its own (it is modelled inside SetNX); `HashMap` covers the values. `BucketTable` and `HashMap` are not composed: `HashMap` keeps one key and per-key atomic table steps, which `buckets` justifies for `basketLockNum <= basketNum`.

The following are left out entirely:
- the HTTP/gRPC encoding layers, JSON validation (400 answers), the FIFO/LIFO RPCs (they call methods the server logic does not have), metrics, the logo and the environment parsing (except the seed read that `XXHash64` models);
- the xxhash binding inside `HashMap` (the `KeyShard` constant stands for the hash; `XXHash64` checks the hash itself).
