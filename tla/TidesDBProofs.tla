--------------------------- MODULE TidesDBProofs ---------------------------
(***************************************************************************)
(* Proofs about the TidesDB module that hold for every value of the        *)
(* constants.                                                              *)
(***************************************************************************)
EXTENDS TidesDB, SequenceTheorems, WellFoundedInduction, TLAPS

-----------------------------------------------------------------------------
(* Extremes of bounded sets of naturals: the CHOOSE in ReplayablePrefix,   *)
(* Replay and ReadView picks an element of the set.                        *)

\* A non-empty set of naturals has a least element.
LEMMA MinExists ==
    ASSUME NEW S \in SUBSET Nat, S # {}
    PROVE  \E i \in S : \A j \in S : i <= j
<1>1. \E x \in S : \A y \in S : ~(<<y, x>> \in OpToRel(<, Nat))
    BY NatLessThanWellFounded, WFMin
<1>2. PICK x \in S : \A y \in S : ~(<<y, x>> \in OpToRel(<, Nat))
    BY <1>1
<1>3. ASSUME NEW y \in S PROVE x <= y
    <2>1. <<y, x>> \in Nat \X Nat
        OBVIOUS
    <2>2. ~(y < x)
        BY <1>2, <2>1, Zenon DEF OpToRel
    <2>. QED BY <2>2
<1>. QED BY <1>3

\* Least picks the least element of a non-empty set of naturals.
LEMMA LeastProperties ==
    ASSUME NEW S \in SUBSET Nat, S # {}
    PROVE  /\ Least(S) \in S
           /\ \A j \in S : Least(S) <= j
BY MinExists DEF Least

\* Greatest picks the greatest element of a bounded non-empty set of naturals.
LEMMA GreatestProperties ==
    ASSUME NEW S \in SUBSET Nat, NEW n \in Nat, S # {},
           \A s \in S : s <= n
    PROVE  /\ Greatest(S) \in S
           /\ \A j \in S : j <= Greatest(S)
<1>. DEFINE T == {n - s : s \in S}
<1>1. \A s \in S : n - s \in Nat
    OBVIOUS
<1>2. T \in SUBSET Nat /\ T # {}
    BY <1>1
<1>3. PICK x \in T : \A y \in T : x <= y
    BY <1>2, MinExists
<1>4. PICK i \in S : x = n - i
    OBVIOUS
<1>5. ASSUME NEW j \in S PROVE j <= i
    <2>1. n - j \in T
        OBVIOUS
    <2>2. n - i <= n - j
        BY <1>3, <1>4, <2>1
    <2>. QED BY <2>2
<1>. QED BY <1>5 DEF Greatest

-----------------------------------------------------------------------------
(* The helpers of the model return values of the right type.               *)

LEMMA TruncateToType ==
    ASSUME NEW w \in Seq(OpRec \cup {Junk}), NEW c \in Nat
    PROVE  TruncateTo(w, c) \in Seq(OpRec \cup {Junk})
<1>. DEFINE S == OpRec \cup {Junk}
<1>1. CASE c <= Len(w)
    <2>1. \A i \in 1 .. c : w[i] \in S
        BY <1>1, ElementOfSeq
    <2>. QED BY <1>1, <2>1, SubSeqProperties DEF TruncateTo
<1>2. CASE c > Len(w)
    <2>1. [i \in 1 .. (c - Len(w)) |-> Junk] \in Seq(S)
        <3>1. c - Len(w) \in Nat
            BY <1>2, LenProperties
        <3>. QED BY <3>1, SeqDef
    <2>. QED BY <1>2, <2>1, ConcatProperties DEF TruncateTo
<1>. QED BY <1>1, <1>2

\* The pages replay reaches are all operation records.
LEMMA ReplayablePrefixType ==
    ASSUME NEW w \in Seq(OpRec \cup {Junk})
    PROVE  ReplayablePrefix(w) \in Seq(OpRec)
<1>. DEFINE bad == {i \in DOMAIN w : w[i] = Junk}
<1>0. Len(w) \in Nat /\ DOMAIN w = 1 .. Len(w)
    BY LenProperties
<1>1. CASE bad = {}
    <2>1. \A i \in 1 .. Len(w) : w[i] \in OpRec \cup {Junk}
        BY ElementOfSeq
    <2>2. w \in [1 .. Len(w) -> OpRec]
        BY <1>0, <1>1, <2>1
    <2>. QED BY <1>1, <1>0, <2>2 DEF ReplayablePrefix
<1>2. CASE bad # {}
    <2>1. bad \in SUBSET Nat
        BY <1>0
    <2>2. Least(bad) \in bad /\ \A j \in bad : Least(bad) <= j
        BY <1>2, <2>1, LeastProperties
    <2>3. ASSUME NEW i \in 1 .. Least(bad) - 1 PROVE w[i] \in OpRec
        <3>0. Least(bad) \in 1 .. Len(w)
            BY <2>1, <2>2, <1>0
        <3>1. i \in 1 .. Len(w) /\ i < Least(bad)
            BY <3>0
        <3>2. i \notin bad
            <4>. SUFFICES ASSUME i \in bad PROVE FALSE
                OBVIOUS
            <4>1. Least(bad) <= i
                BY <2>2
            <4>. QED BY <4>1, <3>1, <3>0
        <3>3. w[i] \in OpRec \cup {Junk}
            BY <3>1, ElementOfSeq
        <3>. QED BY <3>1, <3>2, <3>3
    <2>4. Least(bad) - 1 \in Int
        BY <2>1, <2>2
    <2>. QED BY <1>2, <2>3, <2>4, SubSeqProperties DEF ReplayablePrefix
<1>. QED BY <1>1, <1>2

LEMMA ReplayType ==
    ASSUME NEW w \in Seq(OpRec \cup {Junk})
    PROVE  Replay(w) \in Table
<1>. DEFINE p == ReplayablePrefix(w)
<1>1. p \in Seq(OpRec) /\ Len(p) \in Nat /\ DOMAIN p = 1 .. Len(p)
    BY ReplayablePrefixType, LenProperties
<1>2. ASSUME NEW k \in Keys
      PROVE  LET at == {i \in DOMAIN p : p[i].key = k}
             IN  (IF at = {} THEN None ELSE p[Greatest(at)].val) \in Slot
    <2>. DEFINE at == {i \in DOMAIN p : p[i].key = k}
    <2>1. CASE at # {}
        <3>1. at \in SUBSET Nat /\ \A s \in at : s <= Len(p)
            BY <1>1
        <3>2. Greatest(at) \in 1 .. Len(p)
            BY <2>1, <3>1, <1>1, GreatestProperties
        <3>3. p[Greatest(at)] \in OpRec
            BY <3>2, <1>1, ElementOfSeq
        <3>. QED BY <2>1, <3>3 DEF OpRec, Slot
    <2>. QED BY <2>1 DEF Slot
<1>. QED BY <1>2 DEF Replay, Table

LEMMA LiveEntriesType ==
    ASSUME NEW m \in Table
    PROVE  LiveEntries(m) \in Table
BY DEF LiveEntries, Table, Slot

-----------------------------------------------------------------------------
(* Type correctness.                                                       *)

LEMMA InitTypeOK == Init => TypeOK
<1>. SUFFICES ASSUME Init PROVE TypeOK
    OBVIOUS
<1>1. NoOp \in OpRec
    BY ConstAssumption DEF NoOp, OpRec
<1>2. NoEntry \in Entry
    BY DEF NoEntry, Entry, EmptyTable, Table, Slot
<1>. QED BY <1>1, <1>2, ConstAssumption
         DEF Init, TypeOK, EmptyTable, Table, Slot

\* A crash keeps the state typed, whatever keys of other calls it marks
\* as under way.
LEMMA CrashLosingType ==
    ASSUME TypeOK, NEW X \in SUBSET Keys, CrashLosing(X)
    PROVE  TypeOK'
<1>1. \A x \in Writers : op[x].key \in Keys
    BY DEF TypeOK, OpRec
<1>2. inflight' \subseteq Keys
    BY <1>1 DEF CrashLosing
<1>3. crashes' \in 0 .. MaxCrashes
    BY ConstAssumption DEF CrashLosing, TypeOK
<1>. QED BY <1>2, <1>3, Zenon DEF CrashLosing, TypeOK

LEMMA NextTypeOK == TypeOK /\ [Next]_vars => TypeOK'
<1>. SUFFICES ASSUME TypeOK, [Next]_vars PROVE TypeOK'
    OBVIOUS
<1>. USE ConstAssumption
<1>1. ASSUME NEW w \in Writers, NEW k \in Keys, NEW v \in Values, Put(w, k, v)
      PROVE  TypeOK'
    BY <1>1, AppendProperties
       DEF Put, AppendToWal, TypeOK, OpRec
<1>2. ASSUME NEW w \in Writers, NEW k \in Keys, Delete(w, k)
      PROVE  TypeOK'
    BY <1>2, AppendProperties
       DEF Delete, AppendToWal, TypeOK, OpRec
<1>3. ASSUME NEW w \in Writers, MemtablePut(w)
      PROVE  TypeOK'
    BY <1>3 DEF MemtablePut, TypeOK, OpRec, Table, Slot, IsTombstone
<1>4. ASSUME NEW w \in Writers, CheckThreshold(w)
      PROVE  TypeOK'
    BY <1>4 DEF CheckThreshold, TypeOK
<1>5. ASSUME NEW w \in Writers, EnqueueFlush(w)
      PROVE  TypeOK'
    <2>1. [mem |-> memtable, ckpt |-> Len(wal)] \in Entry
        BY LenProperties DEF TypeOK, Entry
    <2>. QED BY <1>5, <2>1, AppendProperties DEF EnqueueFlush, TypeOK
<1>6. ASSUME NEW w \in Writers, ClearMemtable(w)
      PROVE  TypeOK'
    BY <1>6 DEF ClearMemtable, TypeOK, EmptyTable, Table, Slot
<1>7. CASE FlushDequeue
    BY <1>7, HeadTailProperties DEF FlushDequeue, TypeOK
<1>8. CASE FlushWrite
    <2>1. LiveEntries(flushing.mem) \in Table
        BY LiveEntriesType DEF TypeOK, Entry
    <2>2. /\ disk' \in Seq(Table)
          /\ DOMAIN disk' = 1 .. Len(disk) + 1
        BY <1>8, <2>1, AppendProperties, LenProperties DEF FlushWrite, TypeOK
    <2>3. sstables' \in Seq(DOMAIN disk')
        <3>1. DOMAIN disk \subseteq DOMAIN disk'
            BY <2>2, LenProperties DEF TypeOK
        <3>2. sstables \in Seq(DOMAIN disk')
            BY <3>1, SeqMonotonic DEF TypeOK
        <3>. QED BY <1>8, <2>2, <3>2, AppendProperties, LenProperties
                 DEF FlushWrite, TypeOK
    <2>. QED BY <1>8, <2>2, <2>3 DEF FlushWrite, TypeOK
<1>9. CASE FlushAbortEmpty
    BY <1>9 DEF FlushAbortEmpty, TypeOK, NoEntry, Entry, EmptyTable,
                Table, Slot
<1>10. CASE FlushTruncate
    <2>1. flushing.ckpt \in Nat
        BY DEF TypeOK, Entry
    <2>. QED BY <1>10, <2>1, TruncateToType
             DEF FlushTruncate, TypeOK, NoEntry, Entry, EmptyTable,
                 Table, Slot
<1>11. CASE Crash
    BY <1>11, CrashLosingType DEF Crash
<1>12. CASE Open
    <2>1. memtable' \in Table
        BY <1>12, ReplayType DEF Open, TypeOK
    <2>2. sstables' \in Seq(DOMAIN disk)
        <3>1. CASE disk = <<>>
            BY <1>12, <3>1, EmptySeq DEF Open
        <3>2. CASE disk # <<>>
            <4>1. PICK i \in DOMAIN disk : sstables' = <<i>>
                BY <1>12, <3>2 DEF Open
            <4>. QED BY <4>1
        <3>. QED BY <3>1, <3>2
    <2>3. NoOp \in OpRec
        BY DEF NoOp, OpRec
    <2>. QED BY <1>12, <2>1, <2>2, <2>3, EmptySeq
             DEF Open, TypeOK, NoEntry, Entry, EmptyTable, Table, Slot
<1>13. CASE UNCHANGED vars
    BY <1>13 DEF vars, TypeOK
<1>. QED BY <1>1, <1>2, <1>3, <1>4, <1>5, <1>6, <1>7, <1>8, <1>9, <1>10,
            <1>11, <1>12, <1>13
         DEF Next, WriterNext, WriterStep, FlushNext

(***************************************************************************)
(* Type correctness: every reachable state of the engine model gives each  *)
(* variable a value of its type (WAL pages are operation records or        *)
(* unparsable pages, the flush queue holds [mem, ckpt] entries, the        *)
(* SSTable list indexes written files), whatever the constants.            *)
(***************************************************************************)
THEOREM TypeCorrect == Spec => []TypeOK
BY InitTypeOK, NextTypeOK, PTL DEF Spec

-----------------------------------------------------------------------------
(* Refinement of the flush pipeline's abstract specification.             *)

\* A one-element sequence followed by a sequence: its head and its tail.
LEMMA ConsHeadTail ==
    ASSUME NEW S, NEW x \in S, NEW s \in Seq(S)
    PROVE  /\ <<x>> \o s # <<>>
           /\ Head(<<x>> \o s) = x
           /\ Tail(<<x>> \o s) = s
<1>1. <<x>> \in Seq(S) /\ Len(<<x>>) = 1
    OBVIOUS
<1>2. /\ <<x>> \o s \in Seq(S)
      /\ Len(<<x>> \o s) = 1 + Len(s)
      /\ \A i \in 1 .. 1 + Len(s) : (<<x>> \o s)[i] = IF i <= 1 THEN x ELSE s[i - 1]
    BY <1>1, ConcatProperties
<1>3. <<x>> \o s # <<>>
    BY <1>2
<1>4. Tail(<<x>> \o s) = s
    <2>1. /\ Tail(<<x>> \o s) \in Seq(S)
          /\ Len(Tail(<<x>> \o s)) = Len(s)
          /\ \A i \in 1 .. Len(s) : Tail(<<x>> \o s)[i] = (<<x>> \o s)[i + 1]
        BY <1>2, <1>3, HeadTailProperties
    <2>. QED BY <2>1, <1>2, SeqEqual
<1>. QED BY <1>2, <1>3, <1>4

\* The snapshots of a queue of entries form a sequence of tables.
LEMMA SnapshotsType ==
    ASSUME NEW q \in Seq(Entry)
    PROVE  /\ Snapshots(q) \in Seq(Table)
           /\ Len(Snapshots(q)) = Len(q)
<1>1. Len(q) \in Nat /\ \A i \in 1 .. Len(q) : q[i] \in Entry
    BY LenProperties
<1>2. Snapshots(q) \in [1 .. Len(q) -> Table]
    BY <1>1 DEF Snapshots, Entry
<1>3. Snapshots(q) \in Seq(Table)
    BY <1>1, <1>2, SeqDef
<1>4. DOMAIN Snapshots(q) = 1 .. Len(Snapshots(q)) /\ Len(Snapshots(q)) \in Nat
    BY <1>3, LenProperties
<1>. QED BY <1>1, <1>2, <1>3, <1>4

\* Enqueueing an entry appends its snapshot.
LEMMA SnapshotsAppend ==
    ASSUME NEW q \in Seq(Entry), NEW e \in Entry
    PROVE  Snapshots(Append(q, e)) = Append(Snapshots(q), e.mem)
<1>1. Append(q, e) \in Seq(Entry) /\ Len(Append(q, e)) = Len(q) + 1
    BY AppendProperties
<1>. QED BY <1>1, AppendProperties DEF Snapshots

\* Dequeueing splits off the head's snapshot.
LEMMA SnapshotsTail ==
    ASSUME NEW q \in Seq(Entry), q # <<>>
    PROVE  Snapshots(q) = <<Head(q).mem>> \o Snapshots(Tail(q))
<1>1. /\ Head(q) \in Entry
      /\ Tail(q) \in Seq(Entry)
      /\ Len(Tail(q)) = Len(q) - 1
      /\ \A i \in 1 .. Len(Tail(q)) : Tail(q)[i] = q[i + 1]
    BY HeadTailProperties
<1>2. /\ Snapshots(Tail(q)) \in Seq(Table)
      /\ Len(Snapshots(Tail(q))) = Len(q) - 1
    BY <1>1, SnapshotsType
<1>3. Head(q).mem \in Table
    BY <1>1 DEF Entry
<1>. DEFINE r == <<Head(q).mem>> \o Snapshots(Tail(q))
<1>4. /\ r \in Seq(Table)
      /\ Len(r) = Len(q)
      /\ \A i \in 1 .. Len(q) :
            r[i] = IF i <= 1 THEN Head(q).mem ELSE Snapshots(Tail(q))[i - 1]
    BY <1>2, <1>3, ConcatProperties
<1>5. \A i \in 1 .. Len(q) : r[i] = Snapshots(q)[i]
    BY <1>1, <1>4 DEF Snapshots
<1>. QED BY <1>4, <1>5, SnapshotsType, SeqEqual

\* The dequeued snapshot is a sequence of at most one table.
LEMMA DequeuedType ==
    TypeOK => Dequeued \in Seq(Table)
BY DEF TypeOK, Dequeued, Entry

\* The initial state is an initial state of the abstract pipeline.
LEMMA InitRefines == Init => Fifo!FInit
<1>. SUFFICES ASSUME Init PROVE Fifo!FInit
    OBVIOUS
<1>1. Snapshots(queue) = <<>> /\ Dequeued = <<>>
    BY DEF Init, Snapshots, Dequeued
<1>. QED BY <1>1 DEF Init, Fifo!FInit, Sealed

\* A step that leaves the pipeline's variables alone is an abstract stutter.
LEMMA PipelineStutter ==
    ASSUME UNCHANGED <<up, fpc, flushing, queue, disk, sstables>>
    PROVE  UNCHANGED <<up, Sealed, disk, sstables>>
BY DEF Sealed, Dequeued, Snapshots

\* Enqueueing a snapshot of the live memtable seals it: the step of
\* tidesdb_put and of tidesdb_txn_commit under flush_lock.
LEMMA EnqueueSeals ==
    ASSUME TypeOK, up,
           queue' = Append(queue, [mem |-> memtable, ckpt |-> Len(wal)]),
           UNCHANGED <<up, fpc, flushing, disk, sstables, memtable>>
    PROVE  Fifo!Seal(memtable)
<1>1. [mem |-> memtable, ckpt |-> Len(wal)] \in Entry
    BY LenProperties DEF TypeOK, Entry
<1>2. Snapshots(queue') = Append(Snapshots(queue), memtable)
    BY <1>1, SnapshotsAppend DEF TypeOK
<1>3. Dequeued' = Dequeued /\ Dequeued \in Seq(Table)
    BY DequeuedType DEF Dequeued
<1>4. Snapshots(queue) \in Seq(Table) /\ memtable \in Table
    BY SnapshotsType DEF TypeOK
<1>5. Dequeued \o Append(Snapshots(queue), memtable)
          = Append(Dequeued \o Snapshots(queue), memtable)
    <2>1. Append(Snapshots(queue), memtable) = Snapshots(queue) \o <<memtable>>
        BY <1>4, AppendIsConcat
    <2>2. Dequeued \o Snapshots(queue) \in Seq(Table)
        BY <1>3, <1>4, ConcatProperties
    <2>3. Append(Dequeued \o Snapshots(queue), memtable)
              = (Dequeued \o Snapshots(queue)) \o <<memtable>>
        BY <2>2, <1>4, AppendIsConcat
    <2>4. <<memtable>> \in Seq(Table)
        BY <1>4
    <2>. QED BY <2>1, <2>3, <2>4, <1>3, <1>4, ConcatAssociative
<1>6. Sealed' = Append(Sealed, memtable)
    BY <1>2, <1>3, <1>5 DEF Sealed
<1>. QED BY <1>6 DEF Fifo!Seal

\* A crash is the abstract pipeline's crash.
LEMMA CrashLosingRefines ==
    ASSUME NEW X, CrashLosing(X)
    PROVE  Fifo!FCrash
BY DEF CrashLosing, Fifo!FCrash, Sealed

\* Every step of the engine is a step of the abstract pipeline or leaves
\* its state unchanged.
LEMMA NextRefines == TypeOK /\ [Next]_vars => [Fifo!FNext]_Fifo!fvars
<1>. SUFFICES ASSUME TypeOK, [Next]_vars PROVE [Fifo!FNext]_Fifo!fvars
    OBVIOUS
<1>. DEFINE Stutter == UNCHANGED <<up, Sealed, disk, sstables>>
<1>1. Stutter => [Fifo!FNext]_Fifo!fvars
    BY DEF Fifo!fvars
<1>2. ASSUME NEW w \in Writers, NEW k \in Keys, NEW v \in Values, Put(w, k, v)
      PROVE  Stutter
    BY <1>2, PipelineStutter DEF Put, AppendToWal
<1>3. ASSUME NEW w \in Writers, NEW k \in Keys, Delete(w, k) PROVE Stutter
    BY <1>3, PipelineStutter DEF Delete, AppendToWal
<1>4. ASSUME NEW w \in Writers, MemtablePut(w) PROVE Stutter
    BY <1>4, PipelineStutter DEF MemtablePut
<1>5. ASSUME NEW w \in Writers, CheckThreshold(w) PROVE Stutter
    BY <1>5, PipelineStutter DEF CheckThreshold
<1>6. ASSUME NEW w \in Writers, ClearMemtable(w) PROVE Stutter
    BY <1>6, PipelineStutter DEF ClearMemtable
<1>7. ASSUME NEW w \in Writers, EnqueueFlush(w)
      PROVE  Fifo!Seal(memtable)
    BY <1>7, EnqueueSeals DEF EnqueueFlush
<1>8. ASSUME FlushDequeue PROVE Stutter
    <2>1. Snapshots(queue) = <<Head(queue).mem>> \o Snapshots(Tail(queue))
        BY <1>8, SnapshotsTail DEF FlushDequeue, TypeOK
    <2>2. Dequeued = <<>> /\ Dequeued' = <<flushing'.mem>>
        BY <1>8 DEF FlushDequeue, Dequeued
    <2>3. Snapshots(queue) \in Seq(Table)
        BY SnapshotsType DEF TypeOK
    <2>4. Sealed = Snapshots(queue)
        BY <1>8, <2>2, <2>3, ConcatEmptySeq DEF FlushDequeue, Sealed
    <2>. QED BY <1>8, <2>1, <2>2, <2>4 DEF FlushDequeue, Sealed
<1>9. ASSUME FlushWrite PROVE Fifo!Publish
    <2>1. flushing.mem \in Table /\ Snapshots(queue) \in Seq(Table)
        BY SnapshotsType DEF TypeOK, Entry
    <2>2. Sealed = <<flushing.mem>> \o Snapshots(queue)
        BY <1>9 DEF FlushWrite, Sealed, Dequeued
    <2>3. Sealed # <<>> /\ Head(Sealed) = flushing.mem
          /\ Tail(Sealed) = Snapshots(queue)
        BY <2>1, <2>2, ConsHeadTail
    <2>4. Sealed' = Snapshots(queue)
        BY <1>9, <2>1, ConcatEmptySeq DEF FlushWrite, Sealed, Dequeued
    <2>5. LiveEntries(flushing.mem) = Fifo!Live(flushing.mem)
        BY DEF LiveEntries, Fifo!Live, IsTombstone
    <2>. QED BY <1>9, <2>3, <2>4, <2>5 DEF FlushWrite, Fifo!Publish
<1>10. ASSUME FlushAbortEmpty PROVE Fifo!Discard
    <2>1. flushing.mem \in Table /\ Snapshots(queue) \in Seq(Table)
        BY SnapshotsType DEF TypeOK, Entry
    <2>2. Sealed = <<flushing.mem>> \o Snapshots(queue)
        BY <1>10 DEF FlushAbortEmpty, Sealed, Dequeued
    <2>3. Sealed # <<>> /\ Head(Sealed) = flushing.mem
          /\ Tail(Sealed) = Snapshots(queue)
        BY <2>1, <2>2, ConsHeadTail
    <2>4. Sealed' = Snapshots(queue)
        BY <1>10, <2>1, ConcatEmptySeq DEF FlushAbortEmpty, Sealed, Dequeued
    <2>5. Fifo!Live(flushing.mem) = [k \in Keys |-> None]
        BY <1>10 DEF FlushAbortEmpty, LiveEntries, Fifo!Live, IsTombstone, EmptyTable
    <2>. QED BY <1>10, <2>3, <2>4, <2>5 DEF FlushAbortEmpty, Fifo!Discard
<1>11. ASSUME FlushTruncate PROVE Stutter
    <2>1. Dequeued = <<>> /\ Dequeued' = <<>>
        BY <1>11 DEF FlushTruncate, Dequeued
    <2>. QED BY <1>11, <2>1 DEF FlushTruncate, Sealed
<1>12. ASSUME Crash PROVE Fifo!FCrash
    BY <1>12, CrashLosingRefines DEF Crash
<1>13. ASSUME Open PROVE Fifo!Reload
    <2>1. Sealed = <<>> /\ Sealed' = <<>>
        <3>1. Dequeued' = <<>> /\ Snapshots(queue') = <<>>
            BY <1>13 DEF Open, Dequeued, Snapshots
        <3>. QED BY <1>13, <3>1 DEF Open, Sealed
    <2>2. Len(disk) \in Nat /\ DOMAIN disk = 1 .. Len(disk)
        BY LenProperties DEF TypeOK
    <2>3. sstables' \in Fifo!OrderedLists
        <3>1. CASE disk = <<>>
            <4>1. sstables' = <<>>
                BY <1>13, <3>1 DEF Open
            <4>2. <<>> \in [1 .. 0 -> DOMAIN disk]
                OBVIOUS
            <4>. QED BY <4>1, <4>2, <2>2 DEF Fifo!OrderedLists, Fifo!Increasing
        <3>2. CASE disk # <<>>
            <4>1. PICK i \in DOMAIN disk : sstables' = <<i>>
                BY <1>13, <3>2 DEF Open
            <4>2. 1 \in 0 .. Len(disk)
                BY <2>2, <4>1
            <4>3. <<i>> \in [1 .. 1 -> DOMAIN disk]
                OBVIOUS
            <4>. QED BY <4>1, <4>2, <4>3 DEF Fifo!OrderedLists, Fifo!Increasing
        <3>. QED BY <3>1, <3>2
    <2>. QED BY <1>13, <2>1, <2>3 DEF Open, Fifo!Reload
<1>14. ASSUME UNCHANGED vars PROVE Stutter
    BY <1>14, PipelineStutter DEF vars
<1>15. Fifo!FNext => [Fifo!FNext]_Fifo!fvars
    OBVIOUS
<1>16. \A m \in Table : Fifo!Seal(m) => Fifo!FNext
    BY DEF Fifo!FNext, Fifo!FTable, Table, Slot
<1>. QED BY <1>1, <1>2, <1>3, <1>4, <1>5, <1>6, <1>7, <1>8, <1>9, <1>10,
            <1>11, <1>12, <1>13, <1>14, <1>15, <1>16
         DEF Next, WriterNext, WriterStep, FlushNext, Fifo!FNext, TypeOK

(***************************************************************************)
(* The engine implements the flush pipeline's abstract specification, for *)
(* every value of the constants: the snapshots tidesdb_put enqueues are    *)
(* published by the flush thread in FIFO order, once, tombstones dropped,  *)
(* each appended as the newest table; only a crash loses them; reopen      *)
(* lists SSTable files oldest first.                                       *)
(***************************************************************************)
THEOREM FifoRefines == Spec => FifoRefinement
<1>1. Init => Fifo!FInit
    BY InitRefines
<1>2. TypeOK /\ [Next]_vars => [Fifo!FNext]_Fifo!fvars
    BY NextRefines
<1>. QED BY <1>1, <1>2, TypeCorrect, PTL DEF Spec, FifoRefinement, Fifo!FSpec


\* The abstract pipeline's proofs, under the refinement mapping of Fifo.
FifoProofs == INSTANCE FlushFifoProofs WITH running <- up, sealed <- Sealed,
                                            files <- disk, listed <- sstables

\* The abstract specification FifoRefines establishes is the one whose
\* invariant FlushFifoProofs proves.
LEMMA SameFifoSpec == FifoRefinement => FifoProofs!FSpec
<1>1. Fifo!FInit <=> FifoProofs!FInit
    BY DEF Fifo!FInit, FifoProofs!FInit
<1>2. [Fifo!FNext]_Fifo!fvars <=> [FifoProofs!FNext]_FifoProofs!fvars
    BY DEF Fifo!FNext, FifoProofs!FNext, Fifo!fvars, FifoProofs!fvars,
           Fifo!Seal, FifoProofs!Seal, Fifo!Publish, FifoProofs!Publish,
           Fifo!Discard, FifoProofs!Discard, Fifo!FCrash, FifoProofs!FCrash,
           Fifo!Reload, FifoProofs!Reload, Fifo!FTable, FifoProofs!FTable,
           Fifo!Live, FifoProofs!Live, Fifo!OrderedLists, FifoProofs!OrderedLists,
           Fifo!Increasing, FifoProofs!Increasing
<1>. QED BY <1>1, <1>2, PTL DEF FifoRefinement, Fifo!FSpec, FifoProofs!FSpec

(***************************************************************************)
(* cf->sstables is always ordered oldest to newest, for every value of the *)
(* constants: _flush_memtable appends each new SSTable after the others,   *)
(* and _load_sstables lists a written file.  It follows from the engine    *)
(* implementing FlushFifo, whose table list stays increasing.              *)
(***************************************************************************)
THEOREM SSTablesOrdered == Spec => []SSTablesInOrder
<1>1. Spec => FifoProofs!FSpec
    BY FifoRefines, SameFifoSpec
<1>2. FifoProofs!FSpec => [](FifoProofs!FTypeOK /\ FifoProofs!Increasing(sstables))
    BY FifoProofs!ListedOrdered
<1>3. FifoProofs!Increasing(sstables) <=> SSTablesInOrder
    BY DEF FifoProofs!Increasing, SSTablesInOrder
<1>. QED BY <1>1, <1>2, <1>3, PTL
=============================================================================
