------------------------------ MODULE TidesDB ------------------------------
(***************************************************************************)
(* The write path, flush pipeline, read path and crash recovery of one     *)
(* column family of TidesDB (src/src/tidesdb.c).                           *)
(*                                                                         *)
(* Writer threads run tidesdb_put / tidesdb_delete step by step: append to *)
(* the shared WAL, insert into the memtable (skiplist), and for a put      *)
(* check the flush threshold and, under flush_lock, enqueue a deep copy of *)
(* the memtable with the WAL page count as checkpoint, then clear the live *)
(* memtable.  The single flush thread dequeues an entry, writes its live   *)
(* entries to a new SSTable file and appends it to the column family's     *)
(* list, then truncates the WAL to the checkpoint.  A crash loses every    *)
(* in-memory structure; tidesdb_open reloads SSTable files and replays the *)
(* WAL.                                                                    *)
(*                                                                         *)
(* Data is abstracted: keys and values are model values, the tombstone     *)
(* sentinel is the model value Tomb, a memtable or SSTable is a function   *)
(* from Keys to a value or None, the memtable's byte size is its number of *)
(* entries.  TTLs are not modelled here (all entries carry ttl = -1).      *)
(***************************************************************************)
EXTENDS Naturals, Sequences, FiniteSets

CONSTANTS
    Keys,           \* keys a client may use
    Values,         \* values a client may put
    Writers,        \* client threads calling put/delete
    Tomb,           \* the TOMBSTONE sentinel value
    None,           \* "no entry" in a table; "not found" from get
    Junk,           \* a WAL page that does not deserialize
    NoHolder,       \* flush_lock is free
    FlushThreshold, \* flush_threshold, in memtable entries
    MaxOps,         \* bound: put/delete calls started in a behaviour
    MaxCrashes      \* bound: process crashes in a behaviour

ASSUME ConstAssumption ==
    /\ Keys # {}
    /\ FlushThreshold \in Nat \ {0}
    /\ MaxOps \in Nat
    /\ MaxCrashes \in Nat
    /\ Tomb \notin Values
    /\ None \notin Values \cup {Tomb}
    /\ NoHolder \notin Writers

VARIABLES
    wal,        \* the WAL pager: sequence of operation records (or Junk)
    memtable,   \* cf->memtable
    queue,      \* tdb->flush_queue: sequence of [mem, ckpt] entries
    flushing,   \* the entry the flush thread has dequeued
    fpc,        \* flush thread: "wait", "write" or "truncate"
    disk,       \* SSTable files ever written, in creation (mtime) order
    sstables,   \* cf->sstables: sequence of indices into disk
    flushLock,  \* holder of tdb->flush_lock among the writers
    pc,         \* writer program counters
    op,         \* the operation each writer is executing
    up,         \* the process is running (tidesdb_open has returned)
    store,      \* ghost: last acknowledged value of each key (None = deleted)
    inflight,   \* ghost: keys whose operation was interrupted by the last crash
    issued,     \* ghost: put/delete calls started
    crashes     \* ghost: crashes so far

vars == <<wal, memtable, queue, flushing, fpc, disk, sstables, flushLock, pc, op,
          up, store, inflight, issued, crashes>>

-----------------------------------------------------------------------------
(* Data.                                                                   *)

Slot == Values \cup {Tomb, None}
Table == [Keys -> Slot]
EmptyTable == [k \in Keys |-> None]
OpRec == [code : {"put", "delete"}, key : Keys, val : Values \cup {Tomb}]
Entry == [mem : Table, ckpt : Nat]
NoEntry == [mem |-> EmptyTable, ckpt |-> 0]
NoOp == [code |-> "put", key |-> CHOOSE k \in Keys : TRUE, val |-> Tomb]

\* The least and the greatest element of a non-empty set of indexes.
Least(S) == CHOOSE i \in S : \A j \in S : i <= j
Greatest(S) == CHOOSE i \in S : \A j \in S : j <= i

\* skiplist->total_size compared with flush_threshold (entries, not bytes)
MemSize(m) == Cardinality({k \in Keys : m[k] # None})

\* _is_tombstone(value, value_size)
IsTombstone(v) == v = Tomb

\* The entries _flush_memtable writes: neither tombstones nor empty slots.
LiveEntries(m) == [k \in Keys |-> IF IsTombstone(m[k]) THEN None ELSE m[k]]

\* The pages of the WAL that _replay_from_wal reaches: it stops (break) at
\* the first page that does not deserialize.
ReplayablePrefix(w) ==
    LET bad == {i \in DOMAIN w : w[i] = Junk}
    IN  IF bad = {} THEN w ELSE SubSeq(w, 1, Least(bad) - 1)

\* The memtable _replay_from_wal builds: skiplist_put of every record in
\* order, PUT with its value, DELETE with the tombstone; a later put of a
\* key overwrites the earlier one.
Replay(w) ==
    LET p == ReplayablePrefix(w)
    IN  [k \in Keys |->
           LET at == {i \in DOMAIN p : p[i].key = k}
           IN  IF at = {} THEN None ELSE p[Greatest(at)].val]

\* pager_truncate(wal, checkpoint): keep the first checkpoint pages; a
\* checkpoint past the end extends the file with pages that do not parse.
TruncateTo(w, c) ==
    IF c <= Len(w) THEN SubSeq(w, 1, c)
    ELSE w \o [i \in 1 .. (c - Len(w)) |-> Junk]

\* tidesdb_get: the memtable first (a tombstone is "not found"), then the
\* SSTables from the newest (last) to the oldest, first match wins.
ReadView(k) ==
    IF memtable[k] # None
    THEN IF IsTombstone(memtable[k]) THEN None ELSE memtable[k]
    ELSE LET hits == {i \in DOMAIN sstables : disk[sstables[i]][k] # None}
         IN  IF hits = {} THEN None
             ELSE disk[sstables[Greatest(hits)]][k]

-----------------------------------------------------------------------------
(* Writer threads: tidesdb_put and tidesdb_delete.                         *)

Init ==
    /\ wal = <<>>
    /\ memtable = EmptyTable
    /\ queue = <<>>
    /\ flushing = NoEntry
    /\ fpc = "wait"
    /\ disk = <<>>
    /\ sstables = <<>>
    /\ flushLock = NoHolder
    /\ pc = [w \in Writers |-> "idle"]
    /\ op = [w \in Writers |-> NoOp]
    /\ up = TRUE
    /\ store = [k \in Keys |-> None]
    /\ inflight = {}
    /\ issued = 0
    /\ crashes = 0

\* _append_to_wal: serialize the operation and write it as one WAL page.
\* tidesdb_delete writes the tombstone as the value.
AppendToWal(w, rec) ==
    /\ up
    /\ pc[w] = "idle"
    /\ issued < MaxOps
    /\ wal' = Append(wal, rec)
    /\ op' = [op EXCEPT ![w] = rec]
    /\ pc' = [pc EXCEPT ![w] = "memput"]
    /\ issued' = issued + 1
    /\ UNCHANGED <<memtable, queue, flushing, fpc, disk, sstables, flushLock, up,
                   store, inflight, crashes>>

Put(w, k, v) == AppendToWal(w, [code |-> "put", key |-> k, val |-> v])

Delete(w, k) == AppendToWal(w, [code |-> "delete", key |-> k, val |-> Tomb])

\* skiplist_put into the live memtable.  This is where the operation takes
\* effect (store).  tidesdb_delete returns here; tidesdb_put goes on to the
\* threshold check.
MemtablePut(w) ==
    /\ up
    /\ pc[w] = "memput"
    /\ memtable' = [memtable EXCEPT ![op[w].key] = op[w].val]
    /\ store' = [store EXCEPT ![op[w].key] =
                    IF IsTombstone(op[w].val) THEN None ELSE op[w].val]
    /\ pc' = [pc EXCEPT ![w] = IF op[w].code = "put" THEN "check" ELSE "idle"]
    /\ UNCHANGED <<wal, queue, flushing, fpc, disk, sstables, flushLock, op, up,
                   inflight, issued, crashes>>

\* total_size >= flush_threshold, read without any lock.
CheckThreshold(w) ==
    /\ up
    /\ pc[w] = "check"
    /\ pc' = [pc EXCEPT ![w] = IF MemSize(memtable) >= FlushThreshold
                                THEN "lock" ELSE "idle"]
    /\ UNCHANGED <<wal, memtable, queue, flushing, fpc, disk, sstables,
                   flushLock, op, up, store, inflight, issued, crashes>>

\* Under flush_lock: skiplist_copy, pager_size(wal) as checkpoint,
\* queue_enqueue, pthread_cond_signal.
EnqueueFlush(w) ==
    /\ up
    /\ pc[w] = "lock"
    /\ flushLock = NoHolder
    /\ flushLock' = w
    /\ queue' = Append(queue, [mem |-> memtable, ckpt |-> Len(wal)])
    /\ pc' = [pc EXCEPT ![w] = "clear"]
    /\ UNCHANGED <<wal, memtable, flushing, fpc, disk, sstables, op, up, store,
                   inflight, issued, crashes>>

\* Seeded fault: flush_lock is not unlocked after the clear.
ClearMemtableKeepsLock(w) ==
    /\ up
    /\ pc[w] = "clear"
    /\ memtable' = EmptyTable
    /\ pc' = [pc EXCEPT ![w] = "idle"]
    /\ UNCHANGED <<wal, queue, flushing, fpc, disk, sstables, flushLock, op,
                   up, store, inflight, issued, crashes>>

\* skiplist_clear(cf->memtable), then unlock flush_lock.  Other writers do
\* not take flush_lock for their skiplist_put.
ClearMemtable(w) ==
    /\ up
    /\ pc[w] = "clear"
    /\ memtable' = EmptyTable
    /\ flushLock' = NoHolder
    /\ pc' = [pc EXCEPT ![w] = "idle"]
    /\ UNCHANGED <<wal, queue, flushing, fpc, disk, sstables, op, up, store,
                   inflight, issued, crashes>>

-----------------------------------------------------------------------------
(* The flush thread: _flush_memtable_thread and _flush_memtable.           *)

\* Lock flush_lock, queue_dequeue, unlock.
FlushDequeue ==
    /\ up
    /\ fpc = "wait"
    /\ flushLock = NoHolder
    /\ queue # <<>>
    /\ flushing' = Head(queue)
    /\ queue' = Tail(queue)
    /\ fpc' = "write"
    /\ UNCHANGED <<wal, memtable, disk, sstables, flushLock, pc, op, up, store,
                   inflight, issued, crashes>>

\* Seeded fault: the new table is put first in cf->sstables (oldest place).
FlushWritePrepend ==
    /\ up
    /\ fpc = "write"
    /\ disk' = Append(disk, LiveEntries(flushing.mem))
    /\ sstables' = <<Len(disk) + 1>> \o sstables
    /\ fpc' = "truncate"
    /\ UNCHANGED <<wal, memtable, queue, flushing, flushLock, pc, op, up,
                   store, inflight, issued, crashes>>

\* Seeded fault: the new table's index is taken after counting it.
FlushWriteOffByOne ==
    /\ up
    /\ fpc = "write"
    /\ disk' = Append(disk, LiveEntries(flushing.mem))
    /\ sstables' = Append(sstables, Len(disk))
    /\ fpc' = "truncate"
    /\ UNCHANGED <<wal, memtable, queue, flushing, flushLock, pc, op, up,
                   store, inflight, issued, crashes>>

\* Under sstables_lock: create sstable_<id>.sst, write the bloom filter and
\* every live entry of the snapshot, append the table to cf->sstables.
FlushWrite ==
    /\ up
    /\ fpc = "write"
    /\ disk' = Append(disk, LiveEntries(flushing.mem))
    /\ sstables' = Append(sstables, Len(disk) + 1)
    /\ fpc' = "truncate"
    /\ UNCHANGED <<wal, memtable, queue, flushing, flushLock, pc, op, up,
                   store, inflight, issued, crashes>>

\* A snapshot without live entries leaves an empty bloom filter; whether
\* the "bf->size == 0" early return fires depends on the bloom filter
\* library.  If it does, nothing is published and the WAL is not truncated.
FlushAbortEmpty ==
    /\ up
    /\ fpc = "write"
    /\ LiveEntries(flushing.mem) = EmptyTable
    /\ flushing' = NoEntry
    /\ fpc' = "wait"
    /\ UNCHANGED <<wal, memtable, queue, disk, sstables, flushLock, pc, op, up,
                   store, inflight, issued, crashes>>

\* skiplist_destroy(snapshot), _truncate_wal(wal, checkpoint).
FlushTruncate ==
    /\ up
    /\ fpc = "truncate"
    /\ wal' = TruncateTo(wal, flushing.ckpt)
    /\ flushing' = NoEntry
    /\ fpc' = "wait"
    /\ UNCHANGED <<memtable, queue, disk, sstables, flushLock, pc, op, up,
                   store, inflight, issued, crashes>>

-----------------------------------------------------------------------------
(* Crash and tidesdb_open.                                                 *)

\* The process dies: memory is gone, the WAL and SSTable files stay.  An
\* operation that had not returned is neither acknowledged nor refused: the
\* keys of the writers' calls under way, and the keys X of other calls
\* under way (none in this module).
CrashLosing(X) ==
    /\ up
    /\ crashes < MaxCrashes
    /\ up' = FALSE
    /\ inflight' = {op[w].key : w \in {x \in Writers : pc[x] # "idle"}} \cup X
    /\ crashes' = crashes + 1
    /\ UNCHANGED <<wal, memtable, queue, flushing, fpc, disk, sstables,
                   flushLock, pc, op, store, issued>>

Crash == CrashLosing({})

\* tidesdb_open: _load_sstables opens the first file readdir returns whose
\* name contains ".sst" and returns (one table at most), then the WAL is
\* replayed into a fresh memtable.
Open ==
    /\ ~up
    /\ \E loaded \in IF disk = <<>> THEN {<<>>}
                     ELSE {<<i>> : i \in DOMAIN disk} :
           sstables' = loaded
    /\ memtable' = Replay(wal)
    /\ queue' = <<>>
    /\ flushing' = NoEntry
    /\ fpc' = "wait"
    /\ flushLock' = NoHolder
    /\ pc' = [w \in Writers |-> "idle"]
    /\ op' = [w \in Writers |-> NoOp]
    /\ up' = TRUE
    /\ UNCHANGED <<wal, disk, store, inflight, issued, crashes>>

-----------------------------------------------------------------------------

\* The steps of a call already under way.
WriterStep(w) ==
    \/ MemtablePut(w)
    \/ CheckThreshold(w)
    \/ EnqueueFlush(w)
    \/ ClearMemtable(w)

WriterNext(w) ==
    \/ \E k \in Keys, v \in Values : Put(w, k, v)
    \/ \E k \in Keys : Delete(w, k)
    \/ WriterStep(w)

FlushNext == FlushDequeue \/ FlushWrite \/ FlushAbortEmpty \/ FlushTruncate

Next ==
    \/ \E w \in Writers : WriterNext(w)
    \/ FlushNext
    \/ Crash
    \/ Open

\* Threads are preemptively scheduled: a call under way and the flush
\* thread keep running.  Starting a call is up to the client, and so is
\* reopening the database after a crash (assumed to happen).
Fairness ==
    /\ \A w \in Writers : WF_vars(WriterStep(w))
    /\ WF_vars(FlushNext)
    /\ WF_vars(Open)

Spec == Init /\ [][Next]_vars /\ Fairness

-----------------------------------------------------------------------------
(* Invariants and properties.                                              *)

TypeOK ==
    /\ wal \in Seq(OpRec \cup {Junk})
    /\ memtable \in Table
    /\ queue \in Seq(Entry)
    /\ flushing \in Entry
    /\ fpc \in {"wait", "write", "truncate"}
    /\ disk \in Seq(Table)
    /\ sstables \in Seq(DOMAIN disk)
    /\ flushLock \in Writers \cup {NoHolder}
    /\ pc \in [Writers -> {"idle", "memput", "check", "lock", "clear"}]
    /\ op \in [Writers -> OpRec]
    /\ up \in BOOLEAN
    /\ store \in [Keys -> Values \cup {None}]
    /\ inflight \subseteq Keys
    /\ issued \in 0 .. MaxOps
    /\ crashes \in 0 .. MaxCrashes

\* Some writer has started an operation on k and not returned.
Pending(k) == \E w \in Writers : pc[w] # "idle" /\ op[w].key = k

\* Every table that still holds data the engine knows about, newest first:
\* the live memtable, the queued snapshots from the last enqueued, the
\* snapshot being written, the SSTables from the newest.
Layers ==
    <<memtable>>
    \o [i \in 1 .. Len(queue) |-> queue[Len(queue) + 1 - i].mem]
    \o (IF fpc = "write" THEN <<flushing.mem>> ELSE <<>>)
    \o [i \in 1 .. Len(sstables) |-> disk[sstables[Len(sstables) + 1 - i]]]

\* The value of k in the newest layer that has an entry for it.
Resolve(k) ==
    LET hits == {i \in DOMAIN Layers : Layers[i][k] # None}
        v == Layers[Least(hits)][k]
    IN  IF hits = {} \/ IsTombstone(v) THEN None ELSE v

(***************************************************************************)
(* No put is lost in memory: while the process runs, the last value put to *)
(* a key that no writer is touching is the newest entry for that key in    *)
(* the memtable, the flush queue, the snapshot being flushed or the        *)
(* SSTables.  It is what the snapshot/clear sequence of tidesdb_put under  *)
(* flush_lock and the FIFO flush thread must preserve.                     *)
(***************************************************************************)
NoLostPut ==
    up => \A k \in Keys : ~Pending(k) /\ store[k] \in Values
                          => Resolve(k) = store[k]

\* The entry of k in the newest table of L that has one (None if none).
NewestEntry(L, k) ==
    LET hits == {i \in DOMAIN L : L[i][k] # None}
    IN  IF hits = {} THEN None ELSE L[Least(hits)][k]

\* Until the first crash the process runs.
UpUntilCrash == crashes = 0 => up

\* A writer about to skiplist_clear holds flush_lock, and the snapshot it
\* enqueued is the newest queued one and equals the live memtable.
ClearHoldsSnapshot ==
    \A w \in Writers :
        pc[w] = "clear" => /\ flushLock = w
                           /\ queue # <<>>
                           /\ queue[Len(queue)].mem = memtable

\* Until the first crash, the newest entry of a key whose last acknowledged
\* operation was a put is that put's value.
PutsNewest ==
    crashes = 0 =>
        \A k \in Keys : store[k] \in Values => NewestEntry(Layers, k) = store[k]

(***************************************************************************)
(* The invariant behind NoLostPut for a single writer, until the first     *)
(* crash: a writer between its enqueue and its skiplist_clear holds        *)
(* flush_lock and the newest queued snapshot is the live memtable (so the  *)
(* clear loses nothing, and the flush thread cannot dequeue meanwhile);    *)
(* and the newest entry of every key whose last acknowledged operation was *)
(* a put is that put's value, including while the operation that follows   *)
(* is still under way.                                                     *)
(***************************************************************************)
NoLostPutInv == UpUntilCrash /\ ClearHoldsSnapshot /\ PutsNewest

(***************************************************************************)
(* Read-your-writes (spec section 5): after tidesdb_put(k, v) returns, and *)
(* until k is written again, tidesdb_get(k) returns v.                     *)
(***************************************************************************)
GetSeesLastPut ==
    up => \A k \in Keys : ~Pending(k) /\ store[k] \in Values
                          => ReadView(k) = store[k]

(***************************************************************************)
(* A delete is not undone by flushing (spec section 8, scenario 3): once   *)
(* the flush queue is drained, tidesdb_get of a key whose last operation   *)
(* was tidesdb_delete returns "not found", whatever older SSTables hold.   *)
(***************************************************************************)
DeleteHidesOldValue ==
    (up /\ queue = <<>> /\ fpc = "wait")
        => \A k \in Keys : ~Pending(k) /\ store[k] = None
                           => ReadView(k) = None

(***************************************************************************)
(* Durability (spec section 1): when tidesdb_open returns after a crash,   *)
(* every key whose last operation had returned before the crash reads as   *)
(* that operation left it.                                                 *)
(***************************************************************************)
RecoveryRestoresAcked ==
    [][Open => \A k \in Keys \ inflight : ReadView(k)' = store[k]]_vars

(***************************************************************************)
(* cf->sstables lists SSTable files oldest to newest (spec 4.5): through   *)
(* flushes from any number of writers, crashes and reloads, a table listed *)
(* after another was created after it.  tidesdb_get scans the list from    *)
(* the last entry and takes the first match, so newest-wins rests on it.   *)
(***************************************************************************)
SSTablesInOrder ==
    \A i, j \in DOMAIN sstables : i < j => sstables[i] < sstables[j]

(***************************************************************************)
(* The flush thread never gets stuck: the queue is drained again and again *)
(* (a crash empties it, tidesdb_open restarts the thread and resets        *)
(* flush_lock).                                                            *)
(***************************************************************************)
FlushQueueDrains == []<>(up /\ queue = <<>> /\ fpc = "wait")

-----------------------------------------------------------------------------
(* Refinement of the flush pipeline's abstract specification.             *)

\* The snapshots of a flush queue, oldest first.
Snapshots(q) == [i \in 1 .. Len(q) |-> q[i].mem]

\* The snapshot the flush thread has dequeued and not yet written.
Dequeued == IF fpc = "write" THEN <<flushing.mem>> ELSE <<>>

\* The snapshots sealed and not yet published, oldest first.  After a
\* crash nothing is sealed.
Sealed == IF up THEN Dequeued \o Snapshots(queue) ELSE <<>>

Fifo == INSTANCE FlushFifo WITH running <- up, sealed <- Sealed, files <- disk,
                                listed <- sstables

(***************************************************************************)
(* The engine implements the flush pipeline's abstract specification: the  *)
(* snapshots tidesdb_put enqueues under flush_lock are published by the    *)
(* flush thread in FIFO order, exactly once, tombstones dropped, each      *)
(* appended as the newest table; only a crash loses them, and reopen lists *)
(* SSTable files oldest first.                                             *)
(***************************************************************************)
FifoRefinement == Fifo!FSpec

=============================================================================
