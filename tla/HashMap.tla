------------------------------ MODULE HashMap ------------------------------
(***************************************************************************)
(* One HydraKV database: the sharded table (hashMap/hashmap.go), the       *)
(* server-side entry points that call it (Server.Set/SetNX/Incr/Del in     *)
(* server/routes.go), the AOF writer goroutine (AOF.Loop and               *)
(* createCompressedAOF), the compaction trigger of ResizeChecker, and      *)
(* HashMap.Close.                                                          *)
(*                                                                         *)
(* A client request is two steps, as in the code: the AOF record is sent   *)
(* on the channel com FIRST (hashmap.go: "Write the AOF" before any lock), *)
(* and the table is changed afterwards, under the table read lock and the  *)
(* shard write lock.  Every table change is one atomic step: all of them   *)
(* hold the shard lock of their key, and a compaction snapshot holds the   *)
(* table write lock, which excludes them all.                              *)
(***************************************************************************)
EXTENDS AOFRecords, Naturals, Sequences, FiniteSets

CONSTANTS
  Clients,      \* concurrent request goroutines
  SetVals,      \* values clients Set / SetNX
  Amounts,      \* amounts clients Incr by
  OpKinds,      \* which requests clients issue: subset of the four below
  MaxOps,       \* requests per client (bounds the model)
  MaxEntries,   \* HKV_MAX_ENTRIES, checked by Server.CheckEntries
  ChanCap,      \* capacity of the AOF channel com (100000 in NewAOF)
  CompactFails  \* whether an I/O step of createCompressedAOF may fail

ASSUME /\ OpKinds \subseteq {"set", "setnx", "incr", "del"}
       /\ MaxOps \in Nat /\ MaxEntries \in Nat /\ ChanCap \in Nat \ {0}
       /\ CompactFails \in BOOLEAN

VARIABLES
  table,      \* key -> value: the buckets' entries
  entries,    \* hm.Entries
  deleted,    \* hm.deletedEntries
  pc,         \* client -> "idle" | "apply" (record sent, table not yet changed)
  op,         \* client -> the request in progress
  budget,     \* client -> requests it may still issue
  com,        \* the AOF channel: records sent, not yet received by Loop
  comClosed,  \* close(a.com) has run
  buf,        \* records in the bufio.Writer, not yet flushed to the file
  file,       \* records in NAME.bin
  fileOpen,   \* a.iofile is open (false after a failed rename or reopen)
  loop,       \* AOF.Loop: "run" | "exited"
  rc,         \* ResizeChecker: "run" | "sending" (blocked on compressing) |
              \*   "reset" (sent, deletedEntries not yet zeroed) | "exited"
  state,      \* HashMap.Close progress: "open" | "closing" | "closed"
  base,       \* history: the file as the last compaction (or Start) left it
  written     \* history: records Loop received since then, in order

vars == <<table, entries, deleted, pc, op, budget, com, comClosed, buf, file,
          fileOpen, loop, rc, state, base, written>>

Ops == [kind : {"set", "setnx"}, key : Keys, val : SetVals]
       \cup [kind : {"incr"}, key : Keys, val : Amounts]
       \cup [kind : {"del"}, key : Keys, val : {NoValue}]

TypeOK ==
  /\ table \in [Keys -> SetVals \cup Amounts \cup Int \cup {NoValue}]
  /\ entries \in Nat /\ deleted \in Nat
  /\ pc \in [Clients -> {"idle", "apply"}]
  /\ op \in [Clients -> Ops \cup {NoValue}]
  /\ budget \in [Clients -> 0..MaxOps]
  /\ com \in Seq([act : {"set", "incr", "del"}, key : Keys,
                  val : SetVals \cup Amounts \cup {NoValue}])
  /\ comClosed \in BOOLEAN /\ fileOpen \in BOOLEAN
  /\ loop \in {"run", "exited"}
  /\ rc \in {"run", "sending", "reset", "exited"}
  /\ state \in {"open", "closing", "closed"}

Init ==
  /\ table = EmptyTable
  /\ entries = 0 /\ deleted = 0
  /\ pc = [c \in Clients |-> "idle"]
  /\ op = [c \in Clients |-> NoValue]
  /\ budget = [c \in Clients |-> MaxOps]
  /\ com = <<>> /\ comClosed = FALSE
  /\ buf = <<>> /\ file = <<>> /\ fileOpen = TRUE
  /\ loop = "run" /\ rc = "run" /\ state = "open"
  /\ base = <<>> /\ written = <<>>

-----------------------------------------------------------------------------
(* Server.CheckEntries: the entry count is below HKV_MAX_ENTRIES. *)
CheckEntries == entries < MaxEntries

(* The record each request sends on com.  Incr's record carries no Ttl   *)
(* (hashmap.go builds Data{Action: "incr", Key, Value} only).            *)
RecordOf(o) ==
  IF o.kind = "setnx" THEN Record("set", o.key, o.val) ELSE Record(o.kind, o.key, o.val)

(* hm.Aof.com <- Data{...}: blocks while the channel is full. *)
Send(r) == /\ Len(com) < ChanCap
           /\ com' = Append(com, r)

Finish(c) == /\ pc' = [pc EXCEPT ![c] = "idle"]
             /\ op' = [op EXCEPT ![c] = NoValue]

(* A client goroutine issues request o: the server-side checks run and,  *)
(* if they pass, the record is sent on com.  Server.Set and Server.SetNX *)
(* refuse when CheckEntries fails; SetNX also refuses when hm.Get finds  *)
(* the key.  Server.Incr and Server.Del check nothing.                   *)
Begin(c, o) ==
  /\ state = "open" /\ pc[c] = "idle" /\ budget[c] > 0
  /\ o.kind \in OpKinds
  /\ budget' = [budget EXCEPT ![c] = @ - 1]
  /\ IF \/ o.kind \in {"set", "setnx"} /\ ~CheckEntries
        \/ o.kind = "setnx" /\ table[o.key] # NoValue
     THEN UNCHANGED <<pc, op, com>>
     ELSE /\ Send(RecordOf(o))
          /\ pc' = [pc EXCEPT ![c] = "apply"]
          /\ op' = [op EXCEPT ![c] = o]
  /\ UNCHANGED <<table, entries, deleted, comClosed, buf, file, fileOpen,
                 loop, rc, state, base, written>>

(* HashMap.Set (SetNX ends in it too), under the shard write lock. *)
ApplySet(c) ==
  LET k == op[c].key IN
  /\ table' = SetIn(table, k, op[c].val)
  /\ entries' = IF table[k] = NoValue THEN entries + 1 ELSE entries
  /\ UNCHANGED deleted

(* HashMap.Incr, under the shard write lock. *)
ApplyIncr(c) ==
  LET k == op[c].key IN
  /\ table' = IncrIn(table, k, op[c].val)
  /\ entries' = IF table[k] = NoValue THEN entries + 1 ELSE entries
  /\ UNCHANGED <<deleted>>

(* Mutant: Del unlinks and counts without first finding the key. *)
ApplyDelUnchecked(c) ==
  LET k == op[c].key IN
  /\ table' = DelIn(table, k)
  /\ entries' = entries - 1
  /\ deleted' = deleted + 1

(* HashMap.Del, under the shard write lock: nothing happens when the key *)
(* is not found; otherwise the entry is unlinked, Entries is decremented  *)
(* and deletedEntries incremented.                                        *)
ApplyDel(c) ==
  LET k == op[c].key IN
  IF table[k] = NoValue
  THEN UNCHANGED <<table, entries, deleted>>
  ELSE /\ table' = DelIn(table, k)
       /\ entries' = entries - 1
       /\ deleted' = deleted + 1
     
(* The second half of a request: the table change. *)
Apply(c) ==
  /\ pc[c] = "apply"
  /\ CASE op[c].kind \in {"set", "setnx"} -> ApplySet(c)
       [] op[c].kind = "incr"             -> ApplyIncr(c)
       [] op[c].kind = "del"              -> ApplyDel(c)
  /\ Finish(c)
  /\ UNCHANGED <<budget, com, comClosed, buf, file, fileOpen, loop, rc,
                 state, base, written>>

-----------------------------------------------------------------------------
(* AOF.Loop.  Go's select picks any ready case, so each case is its own *)
(* action.                                                               *)

(* case d, ok := <-a.com with ok: writeFrame into the bufio.Writer. *)
LoopWrite ==
  /\ loop = "run" /\ com # <<>>
  /\ buf' = Append(buf, Head(com))
  /\ com' = Tail(com)
  /\ written' = Append(written, Head(com))
  /\ UNCHANGED <<table, entries, deleted, pc, op, budget, comClosed, file,
                 fileOpen, loop, rc, state, base>>

(* Flush (and Sync): the buffered records reach the file, or are lost   *)
(* when the file was closed by a failed compaction.                      *)
FlushTo(f) == IF fileOpen THEN f \o buf ELSE f

(* case <-ticker.C: flush when something is buffered. *)
LoopTick ==
  /\ loop = "run" /\ buf # <<>>
  /\ file' = FlushTo(file)
  /\ buf' = <<>>
  /\ UNCHANGED <<table, entries, deleted, pc, op, budget, com, comClosed,
                 fileOpen, loop, rc, state, base, written>>

(* case <-a.compressing: createCompressedAOF(a.aeCB()).  The snapshot   *)
(* (GetAllEntriesAndCompress, under the table write lock) becomes the   *)
(* tmp file; the old file is flushed and closed; the tmp file is renamed *)
(* over it and reopened.  The outcomes: success; a failure while the     *)
(* tmp file is written (the old file is kept and stays open); a failure  *)
(* of the rename or the reopen, after the old file was closed.           *)
CompactOk ==
  /\ file' = SnapshotRecords(table)
  /\ buf' = <<>> /\ fileOpen' = TRUE
  /\ base' = SnapshotRecords(table) /\ written' = <<>>

CompactTmpFails ==
  /\ CompactFails
  /\ UNCHANGED <<file, buf, fileOpen, base, written>>

CompactRenameFails ==
  /\ CompactFails
  /\ file' = FlushTo(file)
  /\ buf' = <<>> /\ fileOpen' = FALSE
  /\ UNCHANGED <<base, written>>

LoopCompact ==
  /\ loop = "run" /\ rc = "sending"
  /\ rc' = "reset"
  /\ CompactOk \/ CompactTmpFails \/ CompactRenameFails
  /\ UNCHANGED <<table, entries, deleted, pc, op, budget, com, comClosed,
                 loop, state>>

(* Mutant: the close path returns without flushing the bufio.Writer. *)
LoopExitNoFlush ==
  /\ loop = "run" /\ comClosed /\ com = <<>>
  /\ buf' = <<>>
  /\ loop' = "exited"
  /\ UNCHANGED <<table, entries, deleted, pc, op, budget, com, comClosed,
                 file, fileOpen, rc, state, base, written>>

(* case d, ok := <-a.com with !ok: flush, sync, close(a.quit), return. *)
LoopExit ==
  /\ loop = "run" /\ comClosed /\ com = <<>>
  /\ file' = FlushTo(file)
  /\ buf' = <<>>
  /\ loop' = "exited"
  /\ UNCHANGED <<table, entries, deleted, pc, op, budget, com, comClosed,
                 fileOpen, rc, state, base, written>>

-----------------------------------------------------------------------------
(* ResizeChecker.  The probe/resize case changes only the bucket array  *)
(* (module Resize); here its ticker case, which requests compaction.     *)
CompactDue ==
  (entries > 2 \/ deleted > 2) /\ deleted >= entries \div 2

(* case <-resizeTicker.C: hm.Aof.compressing <- struct{}{} when due; the *)
(* send blocks until Loop receives it.  select picks at random among     *)
(* ready cases, so the ticker may win over a closed hm.done.             *)
RCTick ==
  /\ rc = "run" /\ CompactDue
  /\ rc' = "sending"
  /\ UNCHANGED <<table, entries, deleted, pc, op, budget, com, comClosed,
                 buf, file, fileOpen, loop, state, base, written>>

(* hm.deletedEntries.Store(0), after the send returned. *)
RCReset ==
  /\ rc = "reset"
  /\ deleted' = 0
  /\ rc' = "run"
  /\ UNCHANGED <<table, entries, pc, op, budget, com, comClosed, buf, file,
                 fileOpen, loop, state, base, written>>

(* case <-hm.done: return. *)
RCDone ==
  /\ rc = "run" /\ state = "closed"
  /\ rc' = "exited"
  /\ UNCHANGED <<table, entries, deleted, pc, op, budget, com, comClosed,
                 buf, file, fileOpen, loop, state, base, written>>

-----------------------------------------------------------------------------
(* HashMap.Close, called by Server.DBDelete or Server.CloseDbs while they *)
(* hold the registry write lock, so no request is in progress.  AOF.Close *)
(* closes com and waits for a.quit; then close(hm.done).                  *)
(* Mutant: AOF.Close waits for a.quit without closing a.com first. *)
CloseBeginNoCloseCom ==
  /\ state = "open" /\ \A c \in Clients : pc[c] = "idle"
  /\ state' = "closing"
  /\ UNCHANGED <<table, entries, deleted, pc, op, budget, com, comClosed, buf,
                 file, fileOpen, loop, rc, base, written>>

CloseBegin ==
  /\ state = "open" /\ \A c \in Clients : pc[c] = "idle"
  /\ comClosed' = TRUE
  /\ state' = "closing"
  /\ UNCHANGED <<table, entries, deleted, pc, op, budget, com, buf, file,
                 fileOpen, loop, rc, base, written>>

CloseEnd ==
  /\ state = "closing" /\ loop = "exited"
  /\ state' = "closed"
  /\ UNCHANGED <<table, entries, deleted, pc, op, budget, com, comClosed,
                 buf, file, fileOpen, loop, rc, base, written>>

-----------------------------------------------------------------------------
Next ==
  \/ \E c \in Clients, o \in Ops : Begin(c, o)
  \/ \E c \in Clients : Apply(c)
  \/ LoopWrite \/ LoopTick \/ LoopCompact \/ LoopExit
  \/ RCTick \/ RCReset \/ RCDone
  \/ CloseBegin \/ CloseEnd

(* The Go scheduler runs every runnable goroutine eventually: weak       *)
(* fairness for the writer, the checker and the close sequence.  Clients *)
(* are not obliged to send requests, but one that sent its record        *)
(* completes the table change.                                           *)
Fairness ==
  /\ \A c \in Clients : WF_vars(Apply(c))
  /\ WF_vars(LoopWrite) /\ WF_vars(LoopTick) /\ WF_vars(LoopCompact)
  /\ WF_vars(LoopExit) /\ WF_vars(RCReset) /\ WF_vars(RCDone)
  /\ WF_vars(CloseEnd)

Spec == Init /\ [][Next]_vars /\ Fairness

-----------------------------------------------------------------------------
(* Once HashMap.Close has returned, the file holds exactly what the last  *)
(* compaction wrote followed by every record AOF.Loop received since, in  *)
(* the order received: the close path drains com and flushes the bufio    *)
(* buffer, and compaction keeps records received after its snapshot.      *)
ClosedIsDurable == state = "closed" => file = base \o written

(* Once HashMap.Close has returned, replaying the file (ReplayAOF on the *)
(* next start) rebuilds exactly the table the database had: spec section *)
(* 8, invariant 1 (replay equivalence).                                   *)
ReplayMatchesTable == state = "closed" => Replay(file) = table

(* HashMap.Close returns: AOF.Loop drains com and closes a.quit. *)
CloseCompletes == state = "closing" ~> state = "closed"

=============================================================================
