# TLA+ models of TidesDB

TLA+ specifications, TLC model-checking runs and TLAPS proofs for the storage
engine in `src/src/tidesdb.c` (with the record layouts of
`src/src/serializable_structures.h`).

## The system

TidesDB is a log-structured key-value engine. A write goes through these steps:

1. `tidesdb_put` / `tidesdb_delete` append one operation page to the shared
   write-ahead log (`_append_to_wal`).
2. The operation is inserted into the column family's memtable (`skiplist_put`).
   A delete stores the 4-byte `TOMBSTONE` as the value.
3. A put then compares `memtable->total_size` with `flush_threshold`, reading it
   without a lock. If the threshold is reached, the writer takes `flush_lock`
   and does the following:
   - takes a deep copy of the memtable;
   - records `pager_size(wal)` as the checkpoint;
   - enqueues `{cf, copy, checkpoint}` and signals the flush thread;
   - clears the live memtable and unlocks.
4. The single flush thread (`_flush_memtable_thread`) dequeues one entry under
   `flush_lock`. `_flush_memtable` then runs under `sstables_lock`:
   - builds a bloom filter;
   - writes every entry that is not a tombstone to a new `.sst` file;
   - appends the table to `cf->sstables`;
   - truncates the WAL to the entry's checkpoint.
5. `tidesdb_get` reads the memtable (a tombstone means "not found"). It then
   takes `flush_lock` and scans `cf->sstables` from the newest table to the
   oldest.
6. `tidesdb_open` does the following:
   - loads the column families;
   - calls `_load_sstables` per family, which returns after the first `.sst`
     file `readdir` yields;
   - starts the flush thread;
   - replays the WAL into the memtables, stopping at the first page that does
     not deserialize.

7. `tidesdb_compact_sstables(cf, max_threads)` write-locks `sstables_lock`
   (which excludes the flush thread's publish, not `tidesdb_get`), sorts
   `cf->sstables` with `qsort`/`_compare_sstables`, gives each of `max_threads`
   threads a contiguous slice, and each thread merges pairs `(i, i+1)`,
   `(i+2, i+3)` ... of its slice with `_merge_sstables`. A merge keeps the
   entries that are not tombstones and whose ttl is positive and in the
   future; an empty merge returns NULL and the pair stays. A made pair becomes
   the new table in slot `i` and NULL in slot `i+1`; the NULLs are squeezed
   out at the end.
8. Transactions: `tidesdb_txn_begin/put/delete` build a buffer of operations
   owned by the client thread. `tidesdb_txn_commit` write-locks the
   memtable's rwlock, `skiplist_put`s each uncommitted operation (a tombstone
   for a delete), marks it committed, and then does the threshold check and
   enqueue exactly as `tidesdb_put`. It writes no WAL and never unlocks the
   rwlock. `tidesdb_txn_rollback` runs the rollback record of every committed
   operation and frees the transaction.

The cursor, close and the column family catalogue are not modelled (see
below).

## Modules

| Module | Models | State |
|---|---|---|
| `TidesDB` | the write path, flush pipeline, read path and crash/reopen of one column family | `wal`, `memtable`, `queue`, `flushing`/`fpc` (flush thread), `disk` (files written) and `sstables` (`cf->sstables`), `flushLock`, per-writer `pc`/`op`, `up`, and ghost variables `store` (last acknowledged value per key), `inflight`, `issued`, `crashes` |
| `MC_TidesDB` | model values for TLC: two keys, two values, one or two writers | — |
| `FlushFifo` | the abstract flush pipeline: memtables are sealed, published in the order sealed as the newest table (live entries only) or discarded when empty; a crash drops what is sealed, reopen lists some written files oldest first | `running`, `sealed`, `files`, `listed` |
| `TidesDBCompaction` | `TidesDB` plus `tidesdb_compact_sstables` with its merge threads | adds ghost `compactions` |
| `MC_TidesDBCompaction` | model values: two keys, two values, one writer, `max_threads` in {1,2,3} | — |
| `TidesDBTxn` | `TidesDB` plus the transaction calls of the writer threads | adds per-thread `tpc` (step of the txn call), `tops` (`transaction->ops`), `ti` (loop index), `memLock` (holder of `cf->memtable->lock`), ghosts `tprior`, `tissued` |
| `MC_TidesDBTxn` | model values: two keys, two values, one or two threads | — |
| `TidesDBProofs` | TLAPS proofs about `TidesDB`, including its refinement of `FlushFifo` | — |
| `FlushFifoProofs` | TLAPS proof that the abstract table list stays ordered oldest to newest | — |
| `TidesDBNoLostPutProofs` | TLAPS proof that no put is lost with one writer before the first crash | — |
| `TidesDBTxnProofs` | TLAPS proofs that the engine with transactions is well typed, implements `FlushFifo` and keeps `cf->sstables` ordered | — |

### How the actions correspond to the code

| Action | Code |
|---|---|
| `Put(w,k,v)`, `Delete(w,k)` via `AppendToWal` | `tidesdb_put` 678-702, `tidesdb_delete` 963-993, `_append_to_wal` 2041-2135 |
| `MemtablePut(w)` | `skiplist_put` at 705 (put) and 994 (delete; the delete returns here, it never checks the threshold) |
| `CheckThreshold(w)` | the unlocked `total_size >= flush_threshold` at 709 |
| `EnqueueFlush(w)` | lock, `skiplist_copy`, `pager_size` checkpoint, `queue_enqueue`, signal (710-746) |
| `ClearMemtable(w)` | `skiplist_clear` (750), unlock (753) |
| `FlushDequeue` | `_flush_memtable_thread` 2524-2548 |
| `FlushWrite` | `_flush_memtable` 2326-2508; `LiveEntries` is the tombstone filter at 2393/2458 |
| `FlushAbortEmpty` | the `bf->size == 0` early return (2405), where the bloom filter library decides; the empty `.sst` file `pager_open` created at 2348 is left on disk by the code but not added to `disk` by the model (the branch is likely unreachable, since `bf->size` is the filter's size) |
| `FlushTruncate` | `skiplist_destroy`, `_truncate_wal` (2510-2515, 2179-2198) |
| `Crash` (`CrashLosing({})`) | process death: memory is lost, the WAL and `.sst` files stay (modelled from the specification); the ghost `inflight` records the keys of calls that had not returned |
| `Open` | `tidesdb_open` 21-182 with `_load_sstables` 2674-2748 and `_replay_from_wal` 2200-2287 |

Compaction (`TidesDBCompaction`). The threads work on disjoint pairs of a
list nobody else may change (the call holds `sstables_lock`), so the whole
call is one step, `Compact(t)`:

| Definition | Code |
|---|---|
| `Compact(t)` | `tidesdb_compact_sstables` 308-381 with the threads of `_compact_sstables_thread` 383-423; fewer than two tables is the error return at 325 |
| `Reorderings` | the `qsort` at 332 with `_compare_sstables` 2305-2324: the comparator reads `sstable **` elements as `sstable *` (undefined), so any order |
| `MergedPairs(n,t)` | the slices of 335-351 and the pair loop 391-393 |
| `MergeTables`, `Kept` | `_merge_sstables` 425-623: tombstones dropped, only `ttl > 0 && ttl > time(NULL)` kept (509-537); the lockstep cursors make the winner of a key on both sides open (`last`) |
| `SSTableTTL` | the ttl -1 `_flush_memtable` writes (2465) |
| `Squeeze` | the NULL removal 365-373 |

Transactions (`TidesDBTxn`). The transaction threads are writer threads: a
thread between calls (`Between`) may run `tidesdb_put`/`delete` or a txn
call; inside a txn call it does not start a put.

| Action | Code |
|---|---|
| `TxnBegin(t)` | `tidesdb_txn_begin` 1003-1027 |
| `TxnPut`, `TxnDelete` via `TxnAppend` | `tidesdb_txn_put` 1029-1098, `tidesdb_txn_delete` 1100-1207 (only the delete sets a rollback record, with op_code `OP_PUT` at 1159) |
| `TxnFree(t)` | `tidesdb_txn_free` 1381-1399 |
| `TxnCommit(t)`, `TxnMemLock(t)` | call start, `pthread_rwlock_wrlock` at 1223 (never unlocked; another holder blocks, the owner gets EDEADLK, ignored) |
| `TxnApply(t)`, `TxnSkipCommitted(t)` | the loop 1226-1259 |
| `TxnCheck(t)`, `TxnEnqueue(t)`, `TxnClear(t)` | threshold 1261, enqueue under `flush_lock` 1263-1294, clear and unlock 1296-1302 |
| `TxnRollback(t)`, `TxnUndoDelete(t)`, `TxnUndoPutIgnored(t)`, `TxnUndoSkip(t)`, `TxnRollbackEnd(t)` | `tidesdb_txn_rollback` 1305-1344: a committed delete's record runs `skiplist_delete` (1327); a committed put's record was never set and is read anyway (1317): either nothing happens or the process faults, which is `TxnCrash` |
| `TxnCrash`, `TxnOpen` | `CrashLosing(TxnUnreturned)`/`Open` plus: the transactions die with the process, the new memtable's rwlock is free; the keys of a commit or rollback under way (`TxnUnreturned`) are not acknowledged |

How the data is abstracted:

- Keys and values are model values.
- The tombstone is the model value `Tomb`.
- A table is a function from `Keys` to a value, `Tomb` or `None`.
- The memtable's size is its number of entries.
- A WAL page that does not deserialize is `Junk`. `pager_truncate` to a
  checkpoint past the end of the file pads it with such pages.
- TTLs are not modelled: every write path here uses ttl -1.
- Error returns from allocation or I/O failures are not modelled.

## Runs

The engine runs use `MC_TidesDB` with `Keys = {k1,k2}` and `Values = {v1,v2}`.
`FlushThreshold = 1`, so every put triggers a flush and the queue, truncate
and reopen paths are exercised at every step. `MaxOps` bounds the put/delete
calls, and `MaxCrashes` bounds the crashes.

The cfgs turn off deadlock checking for two reasons:

- the model stops once `MaxOps` calls are issued;
- a stuck pipeline is what `FlushQueueDrains` checks.

| Run | cfg | Expect | Checks | Shows |
|---|---|---|---|---|
| no_lost_put | `MC_NoLostPut.cfg` (1 writer, 5 ops, 0 crashes) | pass | `TypeOK`, `NoLostPut`, `NoLostPutInv` | with a single writer, every acknowledged put is the newest entry for its key in memtable, queue, snapshot or SSTables; the run also checks the inductive invariant that `TidesDBNoLostPutProofs` proves (4.0M states) |
| concurrent_lost_put | `MC_ConcurrentLostPut.cfg` (2 writers, 3 ops) | violation | `NoLostPut` | a put between another writer's snapshot and clear is lost |
| get_misses_queued | `MC_GetMissesQueued.cfg` (1 writer, 2 ops) | violation | `GetSeesLastPut` | get ignores the flush queue, so a just-acknowledged put is "not found" until the flush publishes |
| delete_resurrects | `MC_DeleteResurrect.cfg` (1 writer, 4 ops) | violation | `DeleteHidesOldValue` | flushing drops tombstones, so an older SSTable value reappears |
| recovery_loses_acked | `MC_Recovery.cfg` (1 writer, 4 ops, 1 crash) | violation | `RecoveryRestoresAcked` | the WAL truncate to an older checkpoint drops later records; after reopen a deleted key has its value back |
| crash_pipeline_drains | `MC_CrashPipeline.cfg` (2 writers, 3 ops, 1 crash) | pass | `FlushQueueDrains`, `FifoRefinement` | the flush queue is drained infinitely often; flush_lock is never left held; the engine implements `FlushFifo` (2.2M states) |
| compaction_reorders | `MC_CompactionPreservesReads.cfg` | violation | `CompactionPreservesReads` | after the sort an older table is scanned first and get returns an older value |
| compaction_never_halves | `MC_CompactionHalves.cfg` | violation | `CompactionHalves` | every merge is empty (ttl -1), so compaction leaves N tables |
| txn_pipeline | `MC_TxnPipeline.cfg` (1 thread, 1 put, 1 txn op, 1 crash) | pass | `FlushQueueDrains`, `FifoRefinement` | with commits enqueueing snapshots, the flush queue still drains and the composition still implements `FlushFifo` (147k distinct states) |
| txn_commit_blocks | `MC_TxnCommitBlocks.cfg` (2 threads) | violation | `CommitReturns` | the second thread's commit blocks forever on the lock the first never released |
| txn_rollback | `MC_TxnRollback.cfg` (1 thread, 2 txn ops, threshold 2) | violation | `RollbackRestoresPrior` | begin, put, commit, rollback: the put's unset rollback record does nothing and the key keeps the transaction's value |
| txn_commit_lost | `MC_TxnCommitLost.cfg` (1 thread, no put, 1 txn op, threshold 3, 1 crash) | violation | `RecoveryRestoresAcked` | begin, put, commit returns, crash, reopen: the committed value is gone, the WAL never had it |

The compaction runs use `Now = 1` (any `Now` gives the same result, since
every entry has ttl -1) and one compaction after up to three puts, enough for
three tables and for every slicing of them by 1, 2 or 3 threads. A second
compaction multiplies the orders without new cases. The transaction runs set
`Writers = Txns`; two threads show the blocked commit. `txn_commit_lost`
has no plain puts and a threshold of 3 (above the two keys' worth of
entries), so neither a put nor a flush truncate can explain the loss.

Why the bounds are enough:

- Two keys let one key's flush interact with another key's live entry.
- Two writers are the smallest number that exposes the snapshot/clear race.
- Three to five operations cover these sequences:
  - put, put (two queued snapshots);
  - put, delete, flush;
  - put, delete, truncate, crash.
- One crash exercises replay and the single-table load.

Each violation above is found at depth at most 15.

**Fairness.** Writer threads are preemptively scheduled by the OS, so a call
that has started keeps running: `WF_vars(WriterStep(w))`. The flush thread is
woken by `pthread_cond_signal` whenever a snapshot is enqueued:
`WF_vars(FlushNext)`. Starting a new call is up to the client and gets no
fairness. Reopening after a crash is assumed (`WF_vars(Open)`). In
`TidesDBTxn` the steps of a txn call under way are weakly fair
(`WF(TxnStep(t))`) for the same reason as a put's; beginning, committing or
rolling back is up to the client.

**Mutants.** Each property of the passing runs is shown to depend on the code:

- `FlushWrite` changed to prepend the new table (`FlushWritePrepend`) breaks
  `NoLostPut`.
- `FlushWrite` with an off-by-one table index (`FlushWriteOffByOne`) breaks
  `TypeOK`.
- `ClearMemtable` without the unlock (`ClearMemtableKeepsLock`) breaks
  `FlushQueueDrains`.
- `FlushWritePrepend` also breaks `FifoRefinement`: the published table is
  not the newest.
- `TxnClear` without the unlock of `flush_lock` (`TxnClearKeepsLock`) breaks
  `FlushQueueDrains` in `txn_pipeline`.
- `FlushWritePrepend` breaks `FifoRefinement` in `txn_pipeline` as well.

## Findings

1. **Lost put** (tidesdb.c 705 vs 723-749). `skiplist_put` takes no lock. A
   put by one writer between another writer's `skiplist_copy` and
   `skiplist_clear` is dropped from memory.
2. **Read-your-writes broken while flushing** (795). `tidesdb_get` never looks
   at the flush queue.
3. **Deleted values come back** (2393, 2458). Tombstones are not written to
   SSTables, so a flushed delete no longer hides an older value.
4. **Acknowledged writes lost on recovery** (2514). The WAL is truncated to
   the checkpoint of the snapshot being flushed, which discards every page
   appended since. Those operations live only in the memtable, and a crash
   loses them. An earlier entry's truncate can also leave a later checkpoint
   beyond the end of the WAL; the later truncate then pads the WAL with pages
   replay stops at.
5. **Compaction reorders the tables** (2309). `_compare_sstables` reads the
   `qsort` element pointers with the wrong type (undefined behaviour) and, as
   written, orders newest first; `tidesdb_get` scans from the end, so after
   a compaction an older value can win.
6. **Compaction never merges** (513 vs 2465). Flushed entries carry ttl -1,
   the merge keeps only ttl in the future, so every merge is empty and
   returns NULL; the table count never goes down.
7. **A second transaction commit blocks forever** (1223). The memtable's
   write lock taken by commit is never released.
8. **Rollback of a put is undefined** (1317). `tidesdb_txn_put` never sets the
   rollback record, and rollback dereferences it; when that does not crash
   the put is not undone. (A rolled-back delete removes the key instead of
   restoring the old value; the spec leaves this open.)
9. **Committed transactions are not durable** (1235). Commit writes nothing
   to the WAL, so a crash after the commit returned and before the flush
   loses them (run `txn_commit_lost`: no put, threshold 3 so no flush, the
   commit finished before the crash).

## Proofs

`TidesDBProofs` proves `THEOREM TypeCorrect == Spec => []TypeOK` for every
value of the constants. It assumes only `ConstAssumption`:

- `Keys` is non-empty;
- the threshold is a positive natural;
- `Tomb` and `None` are distinct from the values;
- `NoHolder` is not a writer.

`TypeOK` is inductive as it stands. The proof has one step per action. It
rests on these lemmas:

- `MinExists` / `LeastProperties` / `GreatestProperties`: the least and the
  greatest element of a non-empty bounded set of naturals exist (from the
  well-foundedness of `<` on `Nat`). This is what makes the `CHOOSE` in WAL
  replay and in `ReadView` pick an index of the sequence.
- `ReplayablePrefixType`: the pages replay reaches are all operation records.
- `ReplayType`: replaying any WAL gives a well-formed memtable.
- `TruncateToType`: truncating or extending the WAL keeps it a sequence of
  pages.

In particular, the proof establishes two facts:

- `cf->sstables` only ever indexes SSTable files that were written, through
  flushes and the single-table reload;
- replay of any WAL contents, including ones padded by an overrunning
  truncate, yields a well-typed memtable.

**Refinement.** `TidesDB` implements `FlushFifo`. The mapping (in
`TidesDB`) is:

- `running <- up`;
- `sealed <- Sealed`: the snapshot the flush thread has dequeued and not yet
  written, followed by the queue, oldest first, and nothing while down;
- `files <- disk` and `listed <- sstables`.

`THEOREM FifoRefines == Spec => FifoRefinement` follows from `InitRefines`
(`Init => Fifo!FInit`) and `NextRefines` (`TypeOK /\ [Next]_vars =>
[Fifo!FNext]_Fifo!fvars`), with `TypeCorrect` providing `[]TypeOK`; no
invariant beyond `TypeOK` is needed, because the mapping is exact. Step by
step:

- `EnqueueFlush` is `Seal(memtable)`.
- `FlushWrite` is `Publish`. Its snapshot is the head of `Sealed`
  (`ConsHeadTail`, `SnapshotsTail`).
- `FlushAbortEmpty` is `Discard`.
- `Crash` is `FCrash`.
- `Open` is `Reload`, because the single-table load lists at most one
  written file.
- Every other step stutters. For `FlushDequeue`, moving the head of the queue
  into `flushing` leaves `Sealed` unchanged (`SnapshotsAppend`,
  `DequeuedType`).

**Table order.** `SSTablesInOrder` says that `cf->sstables` lists files oldest
to newest. `tidesdb_get` relies on this: it scans from the last table and
the first match wins. The invariant is proved once, in the abstract
pipeline, and carried to the engine by the refinement:

- `FlushFifoProofs` proves `THEOREM ListedOrdered == FSpec => [](FTypeOK /\
  Increasing(listed))`. The inductive invariant `FOrderInv` adds the type
  (`listed` indexes written files) to the order. `Publish` appends
  `Len(files) + 1`, which is larger than every listed index. `Reload`
  picks from `OrderedLists`.
- `TidesDBProofs` instantiates `FlushFifoProofs` under the same mapping as
  `Fifo`. `SameFifoSpec` shows that the two instances name the same
  specification. `THEOREM SSTablesOrdered == Spec => []SSTablesInOrder`
  then follows from `FifoRefines` and `ListedOrdered` by temporal logic.

No run checks `SSTablesInOrder` on its own: on a small instance it follows
from `FifoRefinement`, which `crash_pipeline_drains` and `txn_pipeline`
check, so the theorem is what the definition is kept for.

No constant assumptions are needed beyond `ConstAssumption`, which
`FifoRefines` uses. Compaction is not covered: its reordering breaks the
order (finding 5).

**No lost put.** `TidesDBNoLostPutProofs` proves, for every value of the
constants:

- `THEOREM NoLostPutInductive == ASSUME OneWriter PROVE Spec => [](TypeOK /\ NoLostPutInv)`;
- `THEOREM NoLostPutOneWriter == ASSUME OneWriter PROVE Spec => [](crashes = 0 => NoLostPut)`.

The hypotheses are the ones the code needs. With two writers a put can be
lost (finding 1, run `concurrent_lost_put`). After a crash, recovery can
lose an acknowledged put (finding 4, run `recovery_loses_acked`).

`NoLostPut` is not inductive: a writer's `skiplist_clear` could wipe a value
that no snapshot holds. The invariant `NoLostPutInv` (in `TidesDB`, checked
by the `no_lost_put` run) strengthens it with three conjuncts:

- `UpUntilCrash`: the process runs until the first crash.
- `ClearHoldsSnapshot`: a writer about to clear the memtable holds
  `flush_lock`, and the last queued snapshot is the current memtable. The
  clear therefore removes nothing that the queue does not hold.
- `PutsNewest`: until the first crash, the newest table of the layer stack
  that has an entry for a stored key holds its last stored value
  (`NewestEntry(Layers, k) = store[k]`).

`InvNoLostPut` turns `PutsNewest` into `NoLostPut`. The newest entry of a
stored key is a value, not a tombstone, so `Resolve` returns it.

The inductive step (`NextNoLostPut`) works key by key. The lemmas it rests
on are these:

- `NewestConcat`: the newest entry of a concatenation `A \o B` is
  `Pick(NewestEntry(A), NewestEntry(B))`. `Pick` takes its first argument
  unless that is `None`.
- `LayersOfTop`: the newest entry of the whole stack is a `Pick` over the
  memtable, the queued snapshots, the snapshot being written and the
  SSTables.
- Per part, `QLayersAppend` (enqueue), `QLayersTail` (dequeue),
  `QLayersLast` (the snapshot a clear relies on) and `SLayersAppend` (the
  flush appends the new file last in `cf->sstables`, so it is the newest
  table) say how each step changes that part.

Each step then either leaves the newest entry unchanged or sets it to the
stored value. Only `MemtablePut` uses `OneWriter`: no other writer may be
between its snapshot and its clear.

**Transactions.** `TidesDBTxnProofs` carries the results above to the
engine composed with the transaction calls (`TidesDBTxn`):

- `THEOREM TxnTypeCorrect == TxnSpec => []TxnTypeOK`. `TxnTypeOK` is
  `TypeOK` plus the types of the per-thread transaction state
  (`TxnVarsOK`), and it is inductive as it stands. It assumes
  `ConstAssumption` and `TxnAssumption` (the transaction threads are writers).
  Engine steps reuse `NextTypeOK`. Steps that touch only the transaction
  buffer reuse `VarsUnchangedType`. `MarkCommittedType` and `CurrentOpType`
  cover the commit loop, which sets `committed` on the operation at `ti`.
- `THEOREM TxnRefinesFifo == TxnSpec => FifoRefinement`. In
  `TxnNextRefines`, engine steps, crash and reopen reuse `NextRefines`.
  The commit's enqueue under `flush_lock` (`TxnEnqueue`) is `Seal(memtable)`
  by the same lemma as `tidesdb_put`'s (`EnqueueSeals`). Every other txn
  step leaves the queue, the flush thread and the table list alone, so it
  stutters (`PipelineStutter`).
- `THEOREM TxnSSTablesOrdered == TxnSpec => []SSTablesInOrder` follows from
  `TxnRefinesFifo` and `ListedOrdered`, through `SameFifoSpec`, as for the
  engine alone.

What stays with TLC:

- Liveness (`FlushQueueDrains`), because TLAPS does not handle `ENABLED` and
  fairness here.
- `NoLostPut` with two writers, and after a crash. Both are false
  (runs `concurrent_lost_put` and `recovery_loses_acked`), so the theorem
  only covers one writer before the first crash.
- The properties the code violates: `GetSeesLastPut`, `DeleteHidesOldValue`,
  `RecoveryRestoresAcked`, `CompactionPreservesReads`, `CompactionHalves`,
  `CommitReturns` (two threads) and `RollbackRestoresPrior`. There is
  nothing to prove; the runs give the counterexamples.
- Compaction in general. Its step (`Squeeze`) is built on `SelectSeq`, for
  which the proof library states no lemmas. Compaction also reorders
  `cf->sstables` (finding 5), so `SSTablesInOrder` does not hold with it.

## Not modelled yet, and the plan

- **get racing a flush or a compaction** (797: get holds `flush_lock`, not
  `sstables_lock`). Planned by splitting `ReadView` into a memtable read
  and an SSTable scan.
- **Close**. It frees the column families before joining the flush thread.
- **Cursor** and **column family create/drop**.
- **An abstract key-value specification** (a map from keys to values) and a
  refinement mapping from `TidesDB`. Given the findings above, it can only hold
  for restricted configurations.
- **External libraries**: the pager, skiplist, bloom filter, queue and
  serialization. They are outside the repository and appear only through the
  contracts described above.
