------------------------- MODULE TidesDBCompaction -------------------------
(***************************************************************************)
(* tidesdb_compact_sstables composed with the engine of module TidesDB.    *)
(*                                                                         *)
(* A client call takes sstables_lock for writing, which excludes the flush *)
(* thread's publish (FlushWrite); tidesdb_get does not take it.  Under the *)
(* lock the call sorts cf->sstables, starts max_threads threads on         *)
(* contiguous slices, each merging pairs (i, i+1), (i+2, i+3), ... of its  *)
(* slice, joins them and squeezes the NULL slots out of the list.  The     *)
(* threads work on disjoint pairs of a list nobody else may change, so the *)
(* whole call is one step here.                                            *)
(***************************************************************************)
EXTENDS TidesDB, Functions, SequencesExt

CONSTANTS
    ThreadCounts,   \* values of max_threads a client passes: positive
                    \* naturals (the call refuses max_threads < 1, line 317)
    Now,            \* time(NULL) during the merge, in seconds: a natural
    MaxCompactions  \* bound: compaction calls in a behaviour, a natural

VARIABLE compactions  \* ghost: compaction calls that did their work

cvars == <<vars, compactions>>

\* The ttl every SSTable entry carries: _flush_memtable serializes each
\* pair with ttl -1, and no merge ever writes a table (see below).
SSTableTTL == -1

\* The filter of _merge_sstables: not a tombstone, and "ttl > 0 && ttl >
\* time(NULL)".  An entry with ttl -1 (never expires) is dropped.
Kept(v) == v \in Values /\ SSTableTTL > 0 /\ SSTableTTL > Now

\* The merge table of two SSTables.  The cursors advance in lockstep one
\* page each, and a later skiplist_put of a key overwrites: which side wins
\* a key both keep depends on the page positions, left open here (last).
MergeTables(t1, t2, last) ==
    [k \in Keys |->
        IF Kept(t1[k]) /\ Kept(t2[k]) THEN (IF last[k] = 1 THEN t1[k] ELSE t2[k])
        ELSE IF Kept(t2[k]) THEN t2[k]
        ELSE IF Kept(t1[k]) THEN t1[k]
        ELSE None]

\* qsort with _compare_sstables: the comparator casts the element pointer
\* (sstable **) to sstable * and reads mtimes through it, which is
\* undefined; the build may leave the list in any order.
Reorderings(s) ==
    {[i \in 1 .. Len(s) |-> s[f[i]]] : f \in Bijection(1 .. Len(s), 1 .. Len(s))}

\* The 0-based first slots of the pairs merged: thread th covers
\* [th * per, min((th + 1) * per, n)) and steps i by 2 while i < end - 1
\* and i + 1 < n.
MergedPairs(n, t) ==
    LET per == (n + t - 1) \div t
    IN  {i \in 0 .. n - 2 :
           \E th \in 0 .. t - 1 :
              LET start == th * per
                  end == IF (th + 1) * per > n THEN n ELSE (th + 1) * per
              IN  start <= i /\ i < end - 1 /\ (i - start) % 2 = 0}

\* Drop the NULL (0) slots, keeping the order (the loop at 365-373).
Squeeze(s) == SelectSeq(s, LAMBDA x : x # 0)

\* tidesdb_compact_sstables(tdb, cf, t) with its threads: fewer than two
\* tables is an error return.  A pair whose merge keeps nothing
\* (mergetable->total_size == 0) gives NULL and is left in place; otherwise
\* the merged table is a new file in slot i and slot i + 1 becomes NULL.
Compact(t) ==
    /\ up
    /\ compactions < MaxCompactions
    /\ Len(sstables) >= 2
    /\ \E sorted \in Reorderings(sstables), last \in [Keys -> {1, 2}] :
         LET n == Len(sorted)
             merged(i) == MergeTables(disk[sorted[i + 1]], disk[sorted[i + 2]], last)
             made == SetToSortSeq({i \in MergedPairs(n, t) : merged(i) # EmptyTable},
                                  LAMBDA a, b : a < b)
             newIndex(i) == Len(disk) + CHOOSE j \in DOMAIN made : made[j] = i
         IN  /\ disk' = disk \o [j \in DOMAIN made |-> merged(made[j])]
             /\ sstables' = Squeeze([i \in 1 .. n |->
                     IF i - 1 \in Range(made) THEN newIndex(i - 1)
                     ELSE IF i - 2 \in Range(made) THEN 0
                     ELSE sorted[i]])
    /\ compactions' = compactions + 1
    /\ UNCHANGED <<wal, memtable, queue, flushing, fpc, flushLock, pc, op, up,
                   store, inflight, issued, crashes>>

CompactInit == Init /\ compactions = 0

CompactNext ==
    \/ Next /\ UNCHANGED compactions
    \/ \E t \in ThreadCounts : Compact(t)

CompactSpec == CompactInit /\ [][CompactNext]_cvars /\ Fairness

CompactStep == \E t \in ThreadCounts : Compact(t)

-----------------------------------------------------------------------------

(***************************************************************************)
(* Compaction does not change what tidesdb_get returns (spec section 8:    *)
(* newest-wins is preserved): get scans cf->sstables from the last entry,  *)
(* so the list must stay ordered oldest to newest.                         *)
(***************************************************************************)
CompactionPreservesReads ==
    [][CompactStep => \A k \in Keys : ReadView(k)' = ReadView(k)]_cvars

(***************************************************************************)
(* Compaction at least halves the SSTables (spec section 8): from N >= 2   *)
(* tables it leaves at most ceil(N / 2).                                   *)
(***************************************************************************)
CompactionHalves ==
    [][CompactStep => Len(sstables') <= (Len(sstables) + 1) \div 2]_cvars

=============================================================================
