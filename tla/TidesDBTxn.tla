---------------------------- MODULE TidesDBTxn ----------------------------
(***************************************************************************)
(* Transactions (tidesdb_txn_begin/put/delete/commit/rollback/free)        *)
(* composed with the engine of module TidesDB.                            *)
(*                                                                         *)
(* A transaction is a buffer of operations owned by one client thread;     *)
(* txn_put / txn_delete only append to it.  txn_commit write-locks the     *)
(* memtable's rwlock, applies the operations not yet committed with        *)
(* skiplist_put (a delete puts the tombstone), marks them committed, then  *)
(* checks the flush threshold and enqueues a snapshot exactly like         *)
(* tidesdb_put.  It writes nothing to the WAL and never unlocks the        *)
(* memtable's rwlock.  txn_rollback runs each committed operation's        *)
(* rollback record and frees the transaction.                              *)
(*                                                                         *)
(* The transaction threads are writer threads: between two calls a thread *)
(* may also run tidesdb_put / tidesdb_delete.                              *)
(***************************************************************************)
EXTENDS TidesDB

CONSTANTS
    Txns,       \* writer threads that use transactions
    MaxTxnOps   \* bound: txn_put / txn_delete calls in a behaviour

ASSUME TxnAssumption ==
    /\ Txns \subseteq Writers
    /\ MaxTxnOps \in Nat

VARIABLES
    tpc,        \* per thread: "idle", "open" (a txn exists, no call under
                \* way), or the step of the txn call under way
    tops,       \* per thread: transaction->ops
    ti,         \* per thread: loop index of commit / rollback
    memLock,    \* holder of cf->memtable->lock (write side)
    tprior,     \* ghost: store when the transaction began
    tissued     \* ghost: txn_put / txn_delete calls

tvars == <<tpc, tops, ti, memLock, tprior, tissued>>
allvars == <<vars, tvars>>

\* One entry of transaction->ops: the operation and its committed flag.
TxnOp == [code : {"put", "delete"}, key : Keys, val : Values \cup {Tomb},
          committed : BOOLEAN]

\* The thread is between calls: it may start a txn call or a put/delete.
Between(t) == tpc[t] \in {"idle", "open"}

\* Keys the thread's committed operations touched.
CommittedKeys(t) == {tops[t][i].key : i \in {j \in DOMAIN tops[t] : tops[t][j].committed}}

TxnInit ==
    /\ Init
    /\ tpc = [t \in Txns |-> "idle"]
    /\ tops = [t \in Txns |-> <<>>]
    /\ ti = [t \in Txns |-> 1]
    /\ memLock = NoHolder
    /\ tprior = [t \in Txns |-> [k \in Keys |-> None]]
    /\ tissued = 0

-----------------------------------------------------------------------------
(* The calls that only touch the transaction buffer.                       *)

\* tidesdb_txn_begin: a new transaction with no operations.
TxnBegin(t) ==
    /\ up
    /\ pc[t] = "idle"
    /\ tpc[t] = "idle"
    /\ tpc' = [tpc EXCEPT ![t] = "open"]
    /\ tops' = [tops EXCEPT ![t] = <<>>]
    /\ tprior' = [tprior EXCEPT ![t] = store]
    /\ UNCHANGED <<vars, ti, memLock, tissued>>

\* tidesdb_txn_put / tidesdb_txn_delete: append {op, committed = false}.
\* Only the delete gets a rollback record; the put's is never set.
TxnAppend(t, rec) ==
    /\ up
    /\ pc[t] = "idle"
    /\ tpc[t] = "open"
    /\ tissued < MaxTxnOps
    /\ tops' = [tops EXCEPT ![t] = Append(@, rec)]
    /\ tissued' = tissued + 1
    /\ UNCHANGED <<vars, tpc, ti, memLock, tprior>>

TxnPut(t, k, v) ==
    TxnAppend(t, [code |-> "put", key |-> k, val |-> v, committed |-> FALSE])

TxnDelete(t, k) ==
    TxnAppend(t, [code |-> "delete", key |-> k, val |-> Tomb, committed |-> FALSE])

\* tidesdb_txn_free without rollback.
TxnFree(t) ==
    /\ up
    /\ pc[t] = "idle"
    /\ tpc[t] = "open"
    /\ tpc' = [tpc EXCEPT ![t] = "idle"]
    /\ tops' = [tops EXCEPT ![t] = <<>>]
    /\ UNCHANGED <<vars, ti, memLock, tprior, tissued>>

-----------------------------------------------------------------------------
(* tidesdb_txn_commit.                                                     *)

\* The call starts.
TxnCommit(t) ==
    /\ up
    /\ pc[t] = "idle"
    /\ tpc[t] = "open"
    /\ tpc' = [tpc EXCEPT ![t] = "memlock"]
    /\ UNCHANGED <<vars, tops, ti, memLock, tprior, tissued>>

\* pthread_rwlock_wrlock(&cf->memtable->lock), result ignored.  The lock is
\* never unlocked.  Another thread blocks on it; for the owner glibc
\* returns EDEADLK and the commit goes on.
TxnMemLock(t) ==
    /\ up
    /\ tpc[t] = "memlock"
    /\ memLock \in {NoHolder, t}
    /\ memLock' = t
    /\ tpc' = [tpc EXCEPT ![t] = "apply"]
    /\ ti' = [ti EXCEPT ![t] = 1]
    /\ UNCHANGED <<vars, tops, tprior, tissued>>

\* Loop body for an operation not yet committed: skiplist_put of the value,
\* or of the 4-byte tombstone for a delete; mark it committed.
TxnApply(t) ==
    LET o == tops[t][ti[t]]
    IN  /\ up
        /\ tpc[t] = "apply"
        /\ ti[t] <= Len(tops[t])
        /\ ~o.committed
        /\ memtable' = [memtable EXCEPT ![o.key] = o.val]
        /\ store' = [store EXCEPT ![o.key] = IF IsTombstone(o.val) THEN None ELSE o.val]
        /\ tops' = [tops EXCEPT ![t][ti[t]].committed = TRUE]
        /\ ti' = [ti EXCEPT ![t] = @ + 1]
        /\ UNCHANGED <<wal, queue, flushing, fpc, disk, sstables, flushLock, pc,
                       op, up, inflight, issued, crashes, tpc, memLock, tprior,
                       tissued>>

\* Loop body for an operation committed by an earlier commit: continue.
TxnSkipCommitted(t) ==
    /\ up
    /\ tpc[t] = "apply"
    /\ ti[t] <= Len(tops[t])
    /\ tops[t][ti[t]].committed
    /\ ti' = [ti EXCEPT ![t] = @ + 1]
    /\ UNCHANGED <<vars, tpc, tops, memLock, tprior, tissued>>

\* After the loop: total_size >= flush_threshold, or return.
TxnCheck(t) ==
    /\ up
    /\ tpc[t] = "apply"
    /\ ti[t] > Len(tops[t])
    /\ tpc' = [tpc EXCEPT ![t] = IF MemSize(memtable) >= FlushThreshold
                                  THEN "lock" ELSE "open"]
    /\ UNCHANGED <<vars, tops, ti, memLock, tprior, tissued>>

\* Under flush_lock: skiplist_copy, pager_size checkpoint, queue_enqueue,
\* signal -- the same sequence as tidesdb_put.
TxnEnqueue(t) ==
    /\ up
    /\ tpc[t] = "lock"
    /\ flushLock = NoHolder
    /\ flushLock' = t
    /\ queue' = Append(queue, [mem |-> memtable, ckpt |-> Len(wal)])
    /\ tpc' = [tpc EXCEPT ![t] = "clear"]
    /\ UNCHANGED <<wal, memtable, flushing, fpc, disk, sstables, pc, op, up,
                   store, inflight, issued, crashes, tops, ti, memLock, tprior,
                   tissued>>

\* Seeded fault: flush_lock is not unlocked after the clear.
TxnClearKeepsLock(t) ==
    /\ up
    /\ tpc[t] = "clear"
    /\ memtable' = EmptyTable
    /\ tpc' = [tpc EXCEPT ![t] = "open"]
    /\ UNCHANGED <<wal, queue, flushing, fpc, disk, sstables, flushLock, pc, op,
                   up, store, inflight, issued, crashes, tops, ti, memLock,
                   tprior, tissued>>

\* skiplist_clear, unlock flush_lock, return.
TxnClear(t) ==
    /\ up
    /\ tpc[t] = "clear"
    /\ memtable' = EmptyTable
    /\ flushLock' = NoHolder
    /\ tpc' = [tpc EXCEPT ![t] = "open"]
    /\ UNCHANGED <<wal, queue, flushing, fpc, disk, sstables, pc, op, up, store,
                   inflight, issued, crashes, tops, ti, memLock, tprior,
                   tissued>>

-----------------------------------------------------------------------------
(* tidesdb_txn_rollback, and crash / reopen.                               *)

\* The call starts.
TxnRollback(t) ==
    /\ up
    /\ pc[t] = "idle"
    /\ tpc[t] = "open"
    /\ tpc' = [tpc EXCEPT ![t] = "rollback"]
    /\ ti' = [ti EXCEPT ![t] = 1]
    /\ UNCHANGED <<vars, tops, memLock, tprior, tissued>>

\* The loop is at a committed operation of the given code.
AtCommitted(t, code) ==
    /\ up
    /\ tpc[t] = "rollback"
    /\ ti[t] <= Len(tops[t])
    /\ tops[t][ti[t]].committed
    /\ tops[t][ti[t]].code = code

\* A committed delete: its rollback record has op_code OP_PUT, and the
\* switch runs skiplist_delete for OP_PUT -- the key's entry is removed.
TxnUndoDelete(t) ==
    /\ AtCommitted(t, "delete")
    /\ memtable' = [memtable EXCEPT ![tops[t][ti[t]].key] = None]
    /\ ti' = [ti EXCEPT ![t] = @ + 1]
    /\ UNCHANGED <<wal, queue, flushing, fpc, disk, sstables, flushLock, pc, op,
                   up, store, inflight, issued, crashes, tpc, tops, memLock,
                   tprior, tissued>>

\* A committed put: rollback_op was never set, so "*rollback_op" reads an
\* uninitialised pointer.  Either the garbage op_code falls to the switch's
\* default and nothing happens (this action), or the read faults and the
\* process dies, which is TxnCrash in this state.
TxnUndoPutIgnored(t) ==
    /\ AtCommitted(t, "put")
    /\ ti' = [ti EXCEPT ![t] = @ + 1]
    /\ UNCHANGED <<vars, tpc, tops, memLock, tprior, tissued>>

\* An operation that was never committed is skipped.
TxnUndoSkip(t) ==
    /\ up
    /\ tpc[t] = "rollback"
    /\ ti[t] <= Len(tops[t])
    /\ ~tops[t][ti[t]].committed
    /\ ti' = [ti EXCEPT ![t] = @ + 1]
    /\ UNCHANGED <<vars, tpc, tops, memLock, tprior, tissued>>

\* After the loop: tidesdb_txn_free, return.  The client now expects every
\* key the transaction wrote to read as it did before the transaction.
TxnRollbackEnd(t) ==
    /\ up
    /\ tpc[t] = "rollback"
    /\ ti[t] > Len(tops[t])
    /\ store' = [k \in Keys |-> IF k \in CommittedKeys(t) THEN tprior[t][k] ELSE store[k]]
    /\ tpc' = [tpc EXCEPT ![t] = "idle"]
    /\ tops' = [tops EXCEPT ![t] = <<>>]
    /\ UNCHANGED <<wal, memtable, queue, flushing, fpc, disk, sstables, flushLock,
                   pc, op, up, inflight, issued, crashes, ti, memLock, tprior,
                   tissued>>

\* Keys of the transaction calls under way: a commit or rollback that had
\* not returned is neither acknowledged nor refused.
TxnUnreturned ==
    UNION {{tops[t][i].key : i \in DOMAIN tops[t]} : t \in {x \in Txns : ~Between(x)}}

\* The process dies: the transactions are gone with it.
TxnCrash ==
    /\ CrashLosing(TxnUnreturned)
    /\ tpc' = [t \in Txns |-> "idle"]
    /\ tops' = [t \in Txns |-> <<>>]
    /\ UNCHANGED <<ti, memLock, tprior, tissued>>

\* tidesdb_open: a new memtable, whose rwlock is free.
TxnOpen ==
    /\ Open
    /\ memLock' = NoHolder
    /\ UNCHANGED <<tpc, tops, ti, tprior, tissued>>

-----------------------------------------------------------------------------

\* The steps of a txn call under way.
TxnStep(t) ==
    \/ TxnMemLock(t)
    \/ TxnApply(t)
    \/ TxnSkipCommitted(t)
    \/ TxnCheck(t)
    \/ TxnEnqueue(t)
    \/ TxnClear(t)
    \/ TxnUndoDelete(t)
    \/ TxnUndoPutIgnored(t)
    \/ TxnUndoSkip(t)
    \/ TxnRollbackEnd(t)

TxnThreadNext(t) ==
    \/ TxnBegin(t)
    \/ \E k \in Keys, v \in Values : TxnPut(t, k, v)
    \/ \E k \in Keys : TxnDelete(t, k)
    \/ TxnFree(t)
    \/ TxnCommit(t)
    \/ TxnRollback(t)
    \/ TxnStep(t)

\* The engine's steps, with a thread inside a txn call kept from starting
\* a put or delete.
EngineNext ==
    \/ \E w \in Writers :
          /\ w \in Txns => Between(w)
          /\ WriterNext(w)
    \/ FlushNext

TxnNext ==
    \/ EngineNext /\ UNCHANGED tvars
    \/ TxnCrash
    \/ TxnOpen
    \/ \E t \in Txns : TxnThreadNext(t)

\* As for put/delete: a call under way keeps running, starting one is up to
\* the client.
TxnSpec ==
    TxnInit /\ [][TxnNext]_allvars /\ Fairness
    /\ \A t \in Txns : WF_allvars(TxnStep(t))

-----------------------------------------------------------------------------
(* Properties.                                                             *)

(***************************************************************************)
(* tidesdb_txn_commit returns: a thread that has called it gets past the   *)
(* memtable's write lock (or the process dies).  It is what the lock       *)
(* taken at the start of every commit and never released puts at stake.   *)
(***************************************************************************)
CommitReturns == \A t \in Txns : tpc[t] = "memlock" ~> (tpc[t] # "memlock")

(***************************************************************************)
(* Rollback undoes the transaction (spec 4.9, scenario 5): when            *)
(* tidesdb_txn_rollback returns, every key its committed operations wrote  *)
(* reads as it did when the transaction began.                             *)
(***************************************************************************)
RollbackRestoresPrior ==
    [][\A t \in Txns : TxnRollbackEnd(t) =>
           \A k \in CommittedKeys(t) : ReadView(k) = tprior[t][k]]_allvars

=============================================================================
