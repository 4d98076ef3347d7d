------------------------------ MODULE Registry ------------------------------
(***************************************************************************)
(* The server process of main.go and server/: the map s.dbs guarded by the *)
(* sync.RWMutex s.mut, the two front ends that reach it (the HTTP handlers *)
(* behind requestLimiter.wrap and rootHandler's API key check, and the     *)
(* gRPC handlers behind the limit and deadline interceptors), the reload   *)
(* of the databases found on disk that server.Start runs before it        *)
(* listens, and main's shutdown: GracefulStop, Server.Shutdown, CloseDbs.  *)
(*                                                                         *)
(* s.mut is Go's RWMutex, which prefers writers: once Lock has announced   *)
(* itself, every new RLock blocks, also one taken by a goroutine that      *)
(* already holds a read lock.  Announcing (Lock's first half) and owning   *)
(* (after the readers drained) are separate steps; a critical section     *)
(* under the write lock is one step, since nothing else runs meanwhile.    *)
(* A HashMap instance is an index into inst, the names of the instances    *)
(* NewHashMap created; closed holds those HashMap.Close was called on.     *)
(* An API key is a version number: 0 is none, and minted counts the keys   *)
(* made so far.                                                            *)
(***************************************************************************)
EXTENDS Naturals, Sequences, FiniteSets

CONSTANTS
  Goroutines,     \* request handler goroutines
  Main,           \* the main goroutine, which runs the shutdown
  Loader,         \* the goroutine of server.Start, which runs ReloadDb
  Names,          \* database names
  Stored,         \* names with a NAME.bin in DB_FOLDER at startup
  ReqKinds,       \* subset of {"set", "one", "create", "delete", "rotate"}
  Fronts,         \* {"http"}, or {"http", "grpc"} with GRPC_ENABLED
  Limit,          \* REQ_LIMIT and GRPC_REQ_LIMIT (taken equal)
  MaxReqs,        \* requests per goroutine
  ApiKeys,        \* HKV_APIKEY_ENABLED
  NoG             \* model value: no goroutine

ASSUME /\ ReqKinds \subseteq {"set", "one", "create", "delete", "rotate"}
       /\ "http" \in Fronts /\ Fronts \subseteq {"http", "grpc"}
       /\ Stored \subseteq Names /\ Limit \in Nat /\ MaxReqs \in Nat
       /\ ApiKeys \in BOOLEAN /\ ("rotate" \in ReqKinds => ApiKeys)
       /\ {Main, Loader, NoG} \cap Goroutines = {}

VARIABLES
  dbs,        \* name -> index of the HashMap in s.dbs, 0 when absent
  inst,       \* sequence: the name of every HashMap NewHashMap created
  closed,     \* indices of the instances HashMap.Close was called on
  readers,    \* worker -> read locks of s.mut it holds
  writer,     \* goroutine that announced or owns the write lock, or NoG
  pc,         \* worker -> its position in the request it serves
  req,        \* worker -> [kind, name, via] of that request
  hm,         \* worker -> the instance its NewHashMap created
  budget,     \* goroutine -> requests it may still send
  sem,        \* front end -> slots of its admission semaphore taken
  keys,       \* utils.U.apiKeys: name -> key version, 0 when none
  keyFile,    \* name -> key version in .NAME.apikey, 0 when no file
  minted,     \* keys CreateRandomApiKey made
  boot,       \* server.Start: "restore" | "load" | "listen"
  toLoad,     \* names RCheck found that ReloadDb has not reached
  phase,      \* main: "serving" | "grpcstop" | "draining" | "lock" | "exited"
  usedClosed  \* history: a request called a closed HashMap

vars == <<dbs, inst, closed, readers, writer, pc, req, hm, budget, sem, keys,
          keyFile, minted, boot, toLoad, phase, usedClosed>>

Workers == Goroutines \cup {Loader}

GrpcKinds == {"set", "one", "create"}   \* the RPCs of KVService

Reqs == [kind : ReqKinds, name : Names, via : {"http"}]
          \cup [kind : ReqKinds \cap GrpcKinds, name : Names, via : Fronts \ {"http"}]

PCs == {"idle", "handler", "rlock", "check", "op", "newhm", "lock", "keylock",
        "close", "done"}

TypeOK ==
  /\ dbs \in [Names -> 0..Len(inst)]
  /\ inst \in Seq(Names) /\ closed \subseteq 1..Len(inst)
  /\ readers \in [Workers -> 0..1]
  /\ writer \in Workers \cup {Main, NoG}
  /\ pc \in [Workers -> PCs]
  /\ req \in [Workers -> [kind : ReqKinds \cup {"create"}, name : Names,
                          via : Fronts \cup {"boot"}]]
  /\ budget \in [Goroutines -> 0..MaxReqs]
  /\ sem \in [Fronts -> 0..Limit]
  /\ keys \in [Names -> 0..minted] /\ keyFile \in [Names -> 0..minted]
  /\ boot \in {"restore", "load", "listen"} /\ toLoad \subseteq Stored
  /\ phase \in {"serving", "grpcstop", "draining", "lock", "exited"}

(* main.go up to <-stop: the gRPC server is started first, then          *)
(* server.Start, whose RCheck.Check lists the NAME.bin files.  Key files *)
(* exist for the stored databases when API keys are on; the in-memory    *)
(* key map of the new process is empty.                                  *)
Init ==
  /\ dbs = [n \in Names |-> 0]
  /\ inst = <<>> /\ closed = {}
  /\ readers = [w \in Workers |-> 0]
  /\ writer = NoG
  /\ pc = [w \in Workers |-> "idle"]
  /\ req = [w \in Workers |-> [kind |-> "create", name |-> CHOOSE n \in Names : TRUE,
                               via |-> "boot"]]
  /\ hm = [w \in Workers |-> 0]
  /\ budget = [g \in Goroutines |-> MaxReqs]
  /\ sem = [f \in Fronts |-> 0]
  /\ keyFile = [n \in Names |-> IF ApiKeys /\ n \in Stored THEN 1 ELSE 0]
  /\ keys = [n \in Names |-> 0]
  /\ minted = IF ApiKeys /\ Stored # {} THEN 1 ELSE 0
  /\ boot = "restore" /\ toLoad = Stored
  /\ phase = "serving"
  /\ usedClosed = FALSE

-----------------------------------------------------------------------------
(* sync.RWMutex.  RLock proceeds only while no writer has announced      *)
(* itself; Lock announces when no other writer is there (Lock's internal *)
(* mutex), then owns once the readers have gone.                         *)
CanRLock == writer = NoG

NoReaders == \A w \in Workers : readers[w] = 0

Announce(g) == /\ writer = NoG
               /\ writer' = g

Present(n) == dbs[n] # 0

Goto(g, l) == pc' = [pc EXCEPT ![g] = l]

(* The handler returns.  A request goroutine still runs the deferred     *)
(* release of its admission slot; the loader goes on with the next name. *)
Return(g) == Goto(g, IF g = Loader THEN "idle" ELSE "done")

(* Whether a front end takes requests.  gRPC serves from the start until *)
(* GracefulStop; HTTP listens once ReloadDb is over, until Shutdown.     *)
Accepting(f) ==
  IF f = "grpc" THEN phase = "serving"
  ELSE boot = "listen" /\ phase \in {"serving", "grpcstop"}

(* The non-blocking send on the semaphore channel of capacity Limit. *)
TryAcquire(f) == sem[f] < Limit

(* IsApiKeyValid for a client that presents the key it was given: it    *)
(* passes when utils.U.apiKeys holds a key for the database.             *)
Authorized(n) == ~ApiKeys \/ keys[n] # 0

regVars == <<dbs, inst, closed>>
keyVars == <<keys, keyFile, minted>>
bootVars == <<boot, toLoad>>

-----------------------------------------------------------------------------
(* A request arrives at front end r.via: requestLimiter.wrap, or the     *)
(* chained grpcRequestLimitInterceptor and grpcDeadlineInterceptor.  A   *)
(* full semaphore answers 429 / ResourceExhausted at once.  A call with  *)
(* no deadline, or one past GRPC_MAX_DURATION, is refused after the slot *)
(* was taken, so the deferred release still follows.                     *)
Admit(g, r) ==
  /\ pc[g] = "idle" /\ budget[g] > 0 /\ Accepting(r.via)
  /\ budget' = [budget EXCEPT ![g] = @ - 1]
  /\ req' = [req EXCEPT ![g] = r]
  /\ IF TryAcquire(r.via)
     THEN /\ sem' = [sem EXCEPT ![r.via] = @ + 1]
          /\ \E inTime \in IF r.via = "grpc" THEN BOOLEAN ELSE {TRUE} :
               Goto(g, IF inTime THEN "handler" ELSE "done")
     ELSE UNCHANGED <<sem, pc>>
  /\ UNCHANGED <<regVars, readers, writer, hm, keyVars, bootVars, phase, usedClosed>>

(* The deferred <-sem of the limiter or the interceptor, once the        *)
(* handler has returned.                                                 *)
Release(g) ==
  /\ pc[g] = "done"
  /\ sem' = [sem EXCEPT ![req[g].via] = @ - 1]
  /\ Goto(g, "idle")
  /\ UNCHANGED <<regVars, readers, writer, req, hm, budget, keyVars, bootVars,
                 phase, usedClosed>>

(* rootHandler: /create is public; other routes need a valid X-API-Key   *)
(* (401), then the handler's bootstrap needs the database (404).  After  *)
(* that SetValue/DeleteValue/GetValue call the Server method, DeleteDB   *)
(* calls DBDelete and ChangeApiKey CreateApiKey.  CreateDB calls NewDB,  *)
(* whose DBExists answers 409 for a present name.                        *)
HttpRoute(r) ==
  IF r.kind = "create" THEN IF Present(r.name) THEN "done" ELSE "newhm"
  ELSE IF ~Authorized(r.name) \/ ~Present(r.name) THEN "done"
  ELSE IF r.kind = "delete" THEN "close"
  ELSE IF r.kind = "rotate" THEN "keylock"
  ELSE "rlock"

(* KVService: CreateDB calls NewDB; Set/SetNX/Incr/Get/Delete check the  *)
(* API key and call the Server method directly, with no DBExists.        *)
GrpcRoute(r) ==
  IF r.kind = "create" THEN IF Present(r.name) THEN "done" ELSE "newhm"
  ELSE IF Authorized(r.name) THEN "rlock" ELSE "done"

(* The handler after admission, up to its Server call.  DBExists is      *)
(* read-locked; a request the key check refuses takes no lock.           *)
Handle(g) ==
  LET r == req[g] IN
  /\ pc[g] = "handler"
  /\ (r.kind = "create" \/ (r.via = "http" /\ Authorized(r.name))) => CanRLock
  /\ Goto(g, IF r.via = "http" THEN HttpRoute(r) ELSE GrpcRoute(r))
  /\ UNCHANGED <<regVars, readers, writer, req, hm, budget, sem, keyVars,
                 bootVars, phase, usedClosed>>

(* Server.Set/SetNX/Incr/Del/Get: s.mut.RLock(). *)
RLock(g) ==
  /\ pc[g] = "rlock" /\ CanRLock
  /\ readers' = [readers EXCEPT ![g] = @ + 1]
  /\ Goto(g, IF req[g].kind = "set" THEN "check" ELSE "op")
  /\ UNCHANGED <<regVars, writer, req, hm, budget, sem, keyVars, bootVars,
                 phase, usedClosed>>

(* Mutant: CheckEntries keeps its read lock (no deferred RUnlock). *)
CheckEntriesNoRUnlock(g) ==
  /\ pc[g] = "check" /\ CanRLock
  /\ \E belowCap \in BOOLEAN :
       IF Present(req[g].name) /\ belowCap
       THEN Goto(g, "op") /\ readers' = [readers EXCEPT ![g] = @ + 1]
       ELSE Return(g) /\ UNCHANGED readers
  /\ UNCHANGED <<regVars, writer, req, hm, budget, sem, keyVars, bootVars,
                 phase, usedClosed>>

(* Server.Set/SetNX call CheckEntries, which takes s.mut.RLock again,   *)
(* looks the database up and compares its entry count with the cap.     *)
(* When the check fails Set returns false and its deferred RUnlock runs. *)
CheckEntries(g) ==
  /\ pc[g] = "check" /\ CanRLock
  /\ \E belowCap \in BOOLEAN :
       IF Present(req[g].name) /\ belowCap
       THEN Goto(g, "op") /\ UNCHANGED readers
       ELSE Return(g) /\ readers' = [readers EXCEPT ![g] = @ - 1]
  /\ UNCHANGED <<regVars, writer, req, hm, budget, sem, keyVars, bootVars,
                 phase, usedClosed>>

(* Mutant: the request returns without RUnlock. *)
OpNoRUnlock(g) ==
  LET i == dbs[req[g].name] IN
  /\ pc[g] = "op"
  /\ usedClosed' = (usedClosed \/ (i # 0 /\ i \in closed))
  /\ Return(g)
  /\ UNCHANGED <<regVars, readers, writer, req, hm, budget, sem, keyVars,
                 bootVars, phase>>

(* The HashMap call of the request on s.dbs[name] (false when absent),   *)
(* then the deferred RUnlock.  A closed HashMap panics on its first send *)
(* to a.com.                                                             *)
Op(g) ==
  LET i == dbs[req[g].name] IN
  /\ pc[g] = "op"
  /\ usedClosed' = (usedClosed \/ (i # 0 /\ i \in closed))
  /\ readers' = [readers EXCEPT ![g] = @ - 1]
  /\ Return(g)
  /\ UNCHANGED <<regVars, writer, req, hm, budget, sem, keyVars, bootVars, phase>>

(* NewDB, after DBExists said no: NewHashMap opens NAME.bin and starts   *)
(* the HashMap's goroutines, before any lock is taken.                   *)
NewHashMap(g) ==
  /\ pc[g] = "newhm"
  /\ inst' = Append(inst, req[g].name)
  /\ hm' = [hm EXCEPT ![g] = Len(inst) + 1]
  /\ Goto(g, "lock")
  /\ UNCHANGED <<dbs, closed, readers, writer, req, budget, sem, keyVars,
                 bootVars, phase, usedClosed>>

(* Lock's first half, for NewDB, CreateApiKey and DBDelete. *)
LockAnnounce(g) ==
  /\ pc[g] \in {"lock", "keylock", "close"} /\ writer # g
  /\ Announce(g)
  /\ UNCHANGED <<regVars, readers, pc, req, hm, budget, sem, keyVars, bootVars,
                 phase, usedClosed>>

(* NewHashMap returned an error (NAME.bin could not be opened): NewDB    *)
(* returns it before any lock; ReloadDb logs it and goes on.             *)
NewHashMapFails(g) ==
  /\ pc[g] = "newhm"
  /\ Return(g)
  /\ UNCHANGED <<regVars, readers, writer, req, hm, budget, sem, keyVars,
                 bootVars, phase, usedClosed>>

(* NewDB under s.mut.Lock: s.dbs[NAME] = hm, overwriting whatever a      *)
(* concurrent NewDB stored; then Unlock, and CreateApiKey when enabled.  *)
Install(g) ==
  /\ pc[g] = "lock" /\ writer = g /\ NoReaders
  /\ dbs' = [dbs EXCEPT ![req[g].name] = hm[g]]
  /\ writer' = NoG
  /\ IF ApiKeys THEN Goto(g, "keylock") ELSE Return(g)
  /\ UNCHANGED <<inst, closed, readers, req, hm, budget, sem, keyVars, bootVars,
                 phase, usedClosed>>

(* Mutant: CreateApiKey without its deferred Unlock. *)
SaveKeyNoUnlock(g) ==
  LET n == req[g].name IN
  /\ pc[g] = "keylock" /\ writer = g /\ NoReaders
  /\ minted' = minted + 1
  /\ keys' = [keys EXCEPT ![n] = minted + 1]
  /\ keyFile' = [keyFile EXCEPT ![n] = minted + 1]
  /\ Return(g)
  /\ UNCHANGED <<regVars, readers, writer, req, hm, budget, sem, bootVars, phase,
                 usedClosed>>

(* CreateApiKey under s.mut.Lock: CreateRandomApiKey makes a new key and *)
(* SaveApiKey stores it in utils.U.apiKeys and in .NAME.apikey; Unlock.  *)
SaveKey(g) ==
  LET n == req[g].name IN
  /\ pc[g] = "keylock" /\ writer = g /\ NoReaders
  /\ minted' = minted + 1
  /\ keys' = [keys EXCEPT ![n] = minted + 1]
  /\ keyFile' = [keyFile EXCEPT ![n] = minted + 1]
  /\ writer' = NoG
  /\ Return(g)
  /\ UNCHANGED <<regVars, readers, req, hm, budget, sem, bootVars, phase,
                 usedClosed>>

(* Mutant: DBDelete closes the HashMap but leaves it in s.dbs. *)
DBDeleteKeepsEntry(g) ==
  LET n == req[g].name IN
  /\ pc[g] = "close" /\ writer = g /\ NoReaders
  /\ IF Present(n)
     THEN /\ closed' = closed \cup {dbs[n]}
          /\ UNCHANGED dbs
     ELSE UNCHANGED <<closed, dbs>>
  /\ writer' = NoG
  /\ Return(g)
  /\ UNCHANGED <<inst, readers, req, hm, budget, sem, keyVars, bootVars, phase,
                 usedClosed>>

(* DBDelete under s.mut.Lock: s.dbs[NAME].Close(), os.Remove, delete.    *)
(* With no entry the nil HashMap is dereferenced and the handler panics  *)
(* (net/http recovers it); the deferred Unlock still runs.  The key file *)
(* is left in place.                                                     *)
DBDelete(g) ==
  LET n == req[g].name IN
  /\ pc[g] = "close" /\ writer = g /\ NoReaders
  /\ IF Present(n)
     THEN /\ closed' = closed \cup {dbs[n]}
          /\ dbs' = [dbs EXCEPT ![n] = 0]
     ELSE UNCHANGED <<closed, dbs>>
  /\ writer' = NoG
  /\ Return(g)
  /\ UNCHANGED <<inst, readers, req, hm, budget, sem, keyVars, bootVars, phase,
                 usedClosed>>

-----------------------------------------------------------------------------
(* server.Start's ReloadDb.  File names are sequences of their parts:   *)
(* .NAME.apikey is <<".", NAME, ".apikey">>.                             *)
KeyFileName(n) == <<".", n, ".apikey">>

KeyFiles == {KeyFileName(n) : n \in {m \in Names : keyFile[m] # 0}}

(* strings.TrimSuffix(file.Name(), ".apikey") *)
TrimApikey(f) == SubSeq(f, 1, Len(f) - 1)

(* ReadApiKey(db) reads DB_FOLDER + "/." + ToUpper(db) + ".apikey". *)
ReadPath(db) == <<".">> \o db \o <<".apikey">>

(* RestoreApiKeys, when API keys are on: ReadApiKey(TrimSuffix(name)) of *)
(* every .apikey file, then SaveApiKey under that trimmed name.  The     *)
(* first read that fails ends ReloadDb before any NewDB; server.Start    *)
(* logs the error and listens anyway.                                    *)
Restore ==
  /\ boot = "restore"
  /\ boot' = "load"
  /\ IF ApiKeys /\ \E f \in KeyFiles : ReadPath(TrimApikey(f)) \notin KeyFiles
     THEN toLoad' = {}
     ELSE UNCHANGED toLoad
  /\ UNCHANGED <<regVars, readers, writer, pc, req, hm, budget, sem, keyVars,
                 phase, usedClosed>>

(* ReloadDb's loop: NewDB(name) for a name RCheck found, in any order.   *)
Reload(n) ==
  /\ boot = "load" /\ pc[Loader] = "idle" /\ n \in toLoad /\ CanRLock
  /\ toLoad' = toLoad \ {n}
  /\ req' = [req EXCEPT ![Loader] = [kind |-> "create", name |-> n, via |-> "boot"]]
  /\ Goto(Loader, IF Present(n) THEN "idle" ELSE "newhm")
  /\ UNCHANGED <<regVars, readers, writer, hm, budget, sem, keyVars, boot, phase,
                 usedClosed>>

(* ReloadDb returned: server.Start calls ListenAndServe. *)
Listen ==
  /\ boot = "load" /\ toLoad = {} /\ pc[Loader] = "idle"
  /\ boot' = "listen"
  /\ UNCHANGED <<regVars, readers, writer, pc, req, hm, budget, sem, keyVars,
                 toLoad, phase, usedClosed>>

-----------------------------------------------------------------------------
(* main, on SIGINT/SIGTERM. *)
Signal ==
  /\ phase = "serving"
  /\ phase' = IF "grpc" \in Fronts THEN "grpcstop" ELSE "draining"
  /\ UNCHANGED <<regVars, readers, writer, pc, req, hm, budget, sem, keyVars,
                 bootVars, usedClosed>>

(* GRPCServer.Stop: GracefulStop waits, with no timeout, until every RPC *)
(* handler has returned; then the listener is closed.                    *)
GrpcStop ==
  /\ phase = "grpcstop"
  /\ \A g \in Goroutines : req[g].via = "grpc" => pc[g] = "idle"
  /\ phase' = "draining"
  /\ UNCHANGED <<regVars, readers, writer, pc, req, hm, budget, sem, keyVars,
                 bootVars, usedClosed>>

(* Server.Shutdown returns nil once the HTTP handlers are idle; main     *)
(* then calls CloseDbs, which takes s.mut.Lock.                          *)
Drained ==
  /\ phase = "draining"
  /\ \A g \in Goroutines : req[g].via = "http" => pc[g] = "idle"
  /\ Announce(Main)
  /\ phase' = "lock"
  /\ UNCHANGED <<regVars, readers, pc, req, hm, budget, sem, keyVars, bootVars,
                 usedClosed>>

(* The context of WRITE_TIMEOUT + 5 seconds expires first: Shutdown      *)
(* returns its error, which main only logs, and goes on to CloseDbs with *)
(* HTTP handlers still running.  How long a handler takes is not         *)
(* modelled, so the timeout may come at any point of the drain.          *)
ShutdownTimeout ==
  /\ phase = "draining"
  /\ Announce(Main)
  /\ phase' = "lock"
  /\ UNCHANGED <<regVars, readers, pc, req, hm, budget, sem, keyVars, bootVars,
                 usedClosed>>

(* CloseDbs under s.mut.Lock: Close every HashMap in s.dbs, leaving the  *)
(* map as it is.                                                         *)
CloseDbs ==
  /\ phase = "lock" /\ writer = Main /\ NoReaders
  /\ closed' = closed \cup {dbs[n] : n \in {m \in Names : Present(m)}}
  /\ writer' = NoG
  /\ phase' = "exited"
  /\ UNCHANGED <<dbs, inst, readers, pc, req, hm, budget, sem, keyVars, bootVars,
                 usedClosed>>

-----------------------------------------------------------------------------
(* The steps of a worker goroutine once a request of it is under way. *)
Step(w) ==
  \/ Handle(w) \/ Release(w) \/ RLock(w) \/ CheckEntries(w) \/ Op(w)
  \/ NewHashMap(w) \/ NewHashMapFails(w) \/ LockAnnounce(w) \/ Install(w) \/ SaveKey(w) \/ DBDelete(w)

Next ==
  \/ \E g \in Goroutines, r \in Reqs : Admit(g, r)
  \/ \E w \in Workers : Step(w)
  \/ Restore \/ \E n \in Names : Reload(n) \/ Listen
  \/ Signal \/ GrpcStop \/ Drained \/ ShutdownTimeout \/ CloseDbs

(* The Go scheduler runs every runnable goroutine: weak fairness for     *)
(* every step of a request under way, for server.Start's reload and for  *)
(* main once the signal came.  No request and no signal has to arrive.   *)
Fairness ==
  /\ \A w \in Workers : WF_vars(Step(w))
  /\ WF_vars(Restore) /\ WF_vars(\E n \in Names : Reload(n)) /\ WF_vars(Listen)
  /\ WF_vars(GrpcStop) /\ WF_vars(Drained \/ ShutdownTimeout)
  /\ WF_vars(CloseDbs)

Spec == Init /\ [][Next]_vars /\ Fairness

-----------------------------------------------------------------------------
(* Every request a handler started returns and frees its admission slot: *)
(* no goroutine waits forever on s.mut (Server.Set's nested RLock in     *)
(* CheckEntries against a waiting Lock of NewDB, CreateApiKey or         *)
(* DBDelete).                                                            *)
RequestsComplete == \A g \in Goroutines : pc[g] # "idle" ~> pc[g] = "idle"

(* Once the signal came, main gets through GracefulStop, Server.Shutdown *)
(* and CloseDbs, so every database is closed and its AOF flushed.        *)
ShutdownCompletes == phase # "serving" ~> phase = "exited"

(* No request calls a HashMap that was closed (the spec's shutdown closes *)
(* the databases once the front ends have stopped).  Shutdown's timeout  *)
(* lets CloseDbs run with HTTP handlers still in flight, and CloseDbs    *)
(* leaves s.dbs as it is, so this fails.                                  *)
NoUseAfterClose == ~usedClosed

(* DBDelete never leaves a closed HashMap for a request to find: it      *)
(* closes and removes it in one critical section under s.mut.Lock, and   *)
(* every Server call looks its database up under s.mut.RLock.  So a     *)
(* request reaches a closed HashMap only once main's CloseDbs has run.   *)
NoUseAfterDelete == usedClosed => phase = "exited"

(* At most one open HashMap, and so one AOF writer, per database file:  *)
(* NewDB creates a database only when DBExists says it is absent.        *)
OneInstancePerName ==
  \A n \in Names :
    Cardinality({i \in 1..Len(inst) : inst[i] = n /\ i \notin closed}) <= 1

(* ReloadDb brings back every database found on disk with the API key   *)
(* of its .NAME.apikey file (spec 4.4, restart reload): when HTTP starts *)
(* listening, every stored database is present and keeps its old key.   *)
KeysSurviveRestart ==
  [][boot # "listen" /\ boot' = "listen" =>
       \A n \in Stored : Present(n) /\ (ApiKeys => keys[n] = 1)]_vars

=============================================================================
