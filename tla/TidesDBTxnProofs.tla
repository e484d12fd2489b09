------------------------- MODULE TidesDBTxnProofs -------------------------
(***************************************************************************)
(* Proofs about the transaction calls composed with the engine: the        *)
(* composition is well typed, it still implements the abstract flush       *)
(* pipeline FlushFifo (tidesdb_txn_commit seals the memtable exactly like  *)
(* tidesdb_put), and so cf->sstables stays ordered oldest to newest.       *)
(***************************************************************************)
EXTENDS TidesDBTxn, TidesDBProofs

\* The types of the transaction state.
TxnVarsOK ==
    /\ tpc \in [Txns -> {"idle", "open", "memlock", "apply", "lock", "clear",
                         "rollback"}]
    /\ tops \in [Txns -> Seq(TxnOp)]
    /\ ti \in [Txns -> Nat \ {0}]
    /\ memLock \in Txns \cup {NoHolder}
    /\ tprior \in [Txns -> [Keys -> Values \cup {None}]]
    /\ tissued \in Nat

\* The types of the composition.
TxnTypeOK == TypeOK /\ TxnVarsOK

\* An engine step of the composition is a step of the engine.
LEMMA EngineIsNext == EngineNext => Next
BY DEF EngineNext, Next

\* A step that leaves the engine's variables alone keeps them typed.
LEMMA VarsUnchangedType ==
    ASSUME TypeOK, UNCHANGED vars
    PROVE  TypeOK'
BY DEF TypeOK, vars

LEMMA TxnInitType == TxnInit => TxnTypeOK
BY InitTypeOK DEF TxnInit, TxnTypeOK, TxnVarsOK, Init

\* Marking one operation of a transaction committed keeps it a sequence of
\* operations.
LEMMA MarkCommittedType ==
    ASSUME NEW s \in Seq(TxnOp), NEW i \in 1 .. Len(s)
    PROVE  [s EXCEPT ![i].committed = TRUE] \in Seq(TxnOp)
<1>1. s[i] \in TxnOp
    BY ElementOfSeq
<1>2. [s[i] EXCEPT !.committed = TRUE] \in TxnOp
    BY <1>1 DEF TxnOp
<1>3. [s EXCEPT ![i].committed = TRUE] = [s EXCEPT ![i] = [s[i] EXCEPT !.committed = TRUE]]
    OBVIOUS
<1>. QED BY <1>2, <1>3, ExceptSeq

\* The operation at a transaction's loop index.
LEMMA CurrentOpType ==
    ASSUME TxnVarsOK, NEW t \in Txns, ti[t] <= Len(tops[t])
    PROVE  /\ ti[t] \in 1 .. Len(tops[t])
           /\ tops[t] \in Seq(TxnOp)
           /\ tops[t][ti[t]] \in TxnOp
<1>1. ti[t] \in 1 .. Len(tops[t]) /\ tops[t] \in Seq(TxnOp)
    BY LenProperties DEF TxnVarsOK
<1>. QED BY <1>1, ElementOfSeq

\* The keys of the transaction calls under way are keys.
LEMMA UnreturnedKeys ==
    ASSUME TxnVarsOK
    PROVE  TxnUnreturned \subseteq Keys
<1>. SUFFICES ASSUME NEW t \in Txns, NEW i \in DOMAIN tops[t]
              PROVE  tops[t][i].key \in Keys
    BY DEF TxnUnreturned
<1>1. tops[t] \in Seq(TxnOp)
    BY DEF TxnVarsOK
<1>2. tops[t][i] \in TxnOp
    BY <1>1, ElementOfSeq
<1>. QED BY <1>2 DEF TxnOp

\* A transaction step that leaves the engine alone: only TxnVarsOK is at
\* stake.
LEMMA TxnOnlyType ==
    ASSUME TxnTypeOK, UNCHANGED vars, TxnVarsOK'
    PROVE  TxnTypeOK'
BY VarsUnchangedType DEF TxnTypeOK

\* Every step of the composition keeps it well typed.
LEMMA TxnNextType == TxnTypeOK /\ [TxnNext]_allvars => TxnTypeOK'
<1>. SUFFICES ASSUME TxnTypeOK, [TxnNext]_allvars PROVE TxnTypeOK'
    OBVIOUS
<1>. USE ConstAssumption, TxnAssumption
<1>1. TypeOK /\ TxnVarsOK
    BY DEF TxnTypeOK
<1>2. ASSUME EngineNext /\ UNCHANGED tvars PROVE TxnTypeOK'
    <2>1. TypeOK'
        BY <1>1, <1>2, EngineIsNext, NextTypeOK
    <2>. QED BY <1>1, <1>2, <2>1 DEF TxnTypeOK, TxnVarsOK, tvars
<1>3. ASSUME TxnCrash PROVE TxnTypeOK'
    <2>0. TxnUnreturned \subseteq Keys
        BY <1>1, UnreturnedKeys
    <2>1. TypeOK'
        BY <1>1, <1>3, <2>0, CrashLosingType DEF TxnCrash
    <2>2. TxnVarsOK'
        BY <1>1, <1>3, EmptySeq DEF TxnCrash, TxnVarsOK
    <2>. QED BY <2>1, <2>2 DEF TxnTypeOK
<1>4. ASSUME TxnOpen PROVE TxnTypeOK'
    <2>1. TypeOK'
        BY <1>1, <1>4, NextTypeOK DEF TxnOpen, Next
    <2>2. TxnVarsOK'
        BY <1>1, <1>4 DEF TxnOpen, TxnVarsOK
    <2>. QED BY <2>1, <2>2 DEF TxnTypeOK
<1>5. ASSUME NEW t \in Txns, TxnThreadNext(t) PROVE TxnTypeOK'
    <2>1. CASE TxnBegin(t)
        <3>1. TxnVarsOK'
            BY <1>1, <2>1 DEF TxnBegin, TxnVarsOK, TypeOK
        <3>. QED BY <2>1, <3>1, TxnOnlyType DEF TxnBegin
    <2>2. ASSUME NEW rec \in TxnOp, TxnAppend(t, rec) PROVE TxnTypeOK'
        <3>1. TxnVarsOK'
            BY <1>1, <2>2, AppendProperties DEF TxnAppend, TxnVarsOK
        <3>. QED BY <2>2, <3>1, TxnOnlyType DEF TxnAppend
    <2>3. ASSUME NEW k \in Keys, NEW v \in Values, TxnPut(t, k, v) PROVE TxnTypeOK'
        <3>1. [code |-> "put", key |-> k, val |-> v, committed |-> FALSE] \in TxnOp
            BY DEF TxnOp
        <3>. QED BY <2>2, <2>3, <3>1 DEF TxnPut
    <2>4. ASSUME NEW k \in Keys, TxnDelete(t, k) PROVE TxnTypeOK'
        <3>1. [code |-> "delete", key |-> k, val |-> Tomb, committed |-> FALSE] \in TxnOp
            BY DEF TxnOp
        <3>. QED BY <2>2, <2>4, <3>1 DEF TxnDelete
    <2>5. ASSUME TxnFree(t) \/ TxnCommit(t) \/ TxnRollback(t) \/ TxnMemLock(t)
                \/ TxnSkipCommitted(t) \/ TxnCheck(t) \/ TxnUndoPutIgnored(t)
                \/ TxnUndoSkip(t)
         PROVE  TxnTypeOK'
        <3>1. CASE TxnFree(t)
            <4>1. TxnVarsOK'
                BY <1>1, <3>1, EmptySeq DEF TxnFree, TxnVarsOK
            <4>. QED BY <3>1, <4>1, TxnOnlyType DEF TxnFree
        <3>2. CASE TxnCommit(t)
            <4>1. TxnVarsOK'
                BY <1>1, <3>2 DEF TxnCommit, TxnVarsOK
            <4>. QED BY <3>2, <4>1, TxnOnlyType DEF TxnCommit
        <3>3. CASE TxnRollback(t)
            <4>1. TxnVarsOK'
                BY <1>1, <3>3 DEF TxnRollback, TxnVarsOK
            <4>. QED BY <3>3, <4>1, TxnOnlyType DEF TxnRollback
        <3>4. CASE TxnMemLock(t)
            <4>1. TxnVarsOK'
                BY <1>1, <3>4 DEF TxnMemLock, TxnVarsOK
            <4>. QED BY <3>4, <4>1, TxnOnlyType DEF TxnMemLock
        <3>5. CASE TxnSkipCommitted(t)
            <4>1. TxnVarsOK'
                BY <1>1, <3>5 DEF TxnSkipCommitted, TxnVarsOK
            <4>. QED BY <3>5, <4>1, TxnOnlyType DEF TxnSkipCommitted
        <3>6. CASE TxnCheck(t)
            <4>1. TxnVarsOK'
                BY <1>1, <3>6 DEF TxnCheck, TxnVarsOK
            <4>. QED BY <3>6, <4>1, TxnOnlyType DEF TxnCheck
        <3>7. CASE TxnUndoPutIgnored(t)
            <4>1. TxnVarsOK'
                BY <1>1, <3>7 DEF TxnUndoPutIgnored, AtCommitted, TxnVarsOK
            <4>. QED BY <3>7, <4>1, TxnOnlyType DEF TxnUndoPutIgnored, AtCommitted
        <3>8. CASE TxnUndoSkip(t)
            <4>1. TxnVarsOK'
                BY <1>1, <3>8 DEF TxnUndoSkip, TxnVarsOK
            <4>. QED BY <3>8, <4>1, TxnOnlyType DEF TxnUndoSkip
        <3>. QED BY <2>5, <3>1, <3>2, <3>3, <3>4, <3>5, <3>6, <3>7, <3>8
    <2>7. CASE TxnApply(t)
        <3>. DEFINE o == tops[t][ti[t]]
        <3>1. ti[t] \in 1 .. Len(tops[t]) /\ tops[t] \in Seq(TxnOp) /\ o \in TxnOp
            BY <1>1, <2>7, CurrentOpType DEF TxnApply
        <3>2. [tops[t] EXCEPT ![ti[t]].committed = TRUE] \in Seq(TxnOp)
            BY <3>1, MarkCommittedType
        <3>3. memtable' \in Table /\ store' \in [Keys -> Values \cup {None}]
            BY <1>1, <2>7, <3>1 DEF TxnApply, TypeOK, TxnOp, Table, Slot, IsTombstone
        <3>4. TypeOK'
            BY <1>1, <2>7, <3>3 DEF TxnApply, TypeOK
        <3>5. TxnVarsOK'
            BY <1>1, <2>7, <3>2 DEF TxnApply, TxnVarsOK
        <3>. QED BY <3>4, <3>5 DEF TxnTypeOK
    <2>8. CASE TxnEnqueue(t)
        <3>1. [mem |-> memtable, ckpt |-> Len(wal)] \in Entry
            BY <1>1, LenProperties DEF TypeOK, Entry
        <3>2. queue' \in Seq(Entry)
            BY <1>1, <2>8, <3>1, AppendProperties DEF TxnEnqueue, TypeOK
        <3>3. TypeOK'
            BY <1>1, <2>8, <3>2 DEF TxnEnqueue, TypeOK
        <3>4. TxnVarsOK'
            BY <1>1, <2>8 DEF TxnEnqueue, TxnVarsOK
        <3>. QED BY <3>3, <3>4 DEF TxnTypeOK
    <2>9. CASE TxnClear(t)
        <3>1. TypeOK'
            BY <1>1, <2>9 DEF TxnClear, TypeOK, EmptyTable, Table, Slot
        <3>2. TxnVarsOK'
            BY <1>1, <2>9 DEF TxnClear, TxnVarsOK
        <3>. QED BY <3>1, <3>2 DEF TxnTypeOK
    <2>10. CASE TxnUndoDelete(t)
        <3>1. tops[t][ti[t]] \in TxnOp
            BY <1>1, <2>10, CurrentOpType DEF TxnUndoDelete, AtCommitted
        <3>2. TypeOK'
            BY <1>1, <2>10, <3>1 DEF TxnUndoDelete, TypeOK, TxnOp, Table, Slot
        <3>3. TxnVarsOK'
            BY <1>1, <2>10 DEF TxnUndoDelete, TxnVarsOK
        <3>. QED BY <3>2, <3>3 DEF TxnTypeOK
    <2>11. CASE TxnRollbackEnd(t)
        <3>1. store' \in [Keys -> Values \cup {None}]
            BY <1>1, <2>11 DEF TxnRollbackEnd, TxnVarsOK, TypeOK
        <3>2. TypeOK'
            BY <1>1, <2>11, <3>1 DEF TxnRollbackEnd, TypeOK
        <3>3. TxnVarsOK'
            BY <1>1, <2>11, EmptySeq DEF TxnRollbackEnd, TxnVarsOK
        <3>. QED BY <3>2, <3>3 DEF TxnTypeOK
    <2>12. TxnStep(t) => TxnTypeOK'
        BY <2>5, <2>7, <2>8, <2>9, <2>10, <2>11 DEF TxnStep
    <2>. QED BY <1>5, <2>1, <2>3, <2>4, <2>5, <2>12 DEF TxnThreadNext
<1>6. ASSUME UNCHANGED allvars PROVE TxnTypeOK'
    BY <1>1, <1>6 DEF allvars, vars, tvars, TxnTypeOK, TxnVarsOK, TypeOK
<1>. QED BY <1>2, <1>3, <1>4, <1>5, <1>6 DEF TxnNext

(***************************************************************************)
(* The composition of the engine with the transaction calls is well typed  *)
(* for every value of the constants.                                       *)
(***************************************************************************)
THEOREM TxnTypeCorrect == TxnSpec => []TxnTypeOK
BY TxnInitType, TxnNextType, PTL DEF TxnSpec

(***************************************************************************)
(* The composition still implements the abstract flush pipeline.           *)
(***************************************************************************)

\* Every step of the composition is a step of the abstract pipeline or
\* leaves its state unchanged: the txn calls other than the commit's
\* enqueue leave the queue, the flush thread and the table list alone.
LEMMA TxnNextRefines == TxnTypeOK /\ [TxnNext]_allvars => [Fifo!FNext]_Fifo!fvars
<1>. SUFFICES ASSUME TxnTypeOK, [TxnNext]_allvars PROVE [Fifo!FNext]_Fifo!fvars
    OBVIOUS
<1>. DEFINE Stutter == UNCHANGED <<up, Sealed, disk, sstables>>
<1>1. TypeOK
    BY DEF TxnTypeOK
<1>2. Stutter => [Fifo!FNext]_Fifo!fvars
    BY DEF Fifo!fvars
<1>3. ASSUME EngineNext \/ TxnOpen PROVE [Fifo!FNext]_Fifo!fvars
    <2>1. Next
        BY <1>3, EngineIsNext DEF TxnOpen, Next
    <2>. QED BY <1>1, <2>1, NextRefines
<1>30. ASSUME TxnCrash PROVE Fifo!FNext
    <2>1. Fifo!FCrash
        BY <1>30, CrashLosingRefines DEF TxnCrash
    <2>. QED BY <2>1 DEF Fifo!FNext
<1>4. ASSUME NEW t \in Txns, TxnEnqueue(t) PROVE Fifo!FNext
    <2>1. Fifo!Seal(memtable)
        BY <1>1, <1>4, EnqueueSeals DEF TxnEnqueue
    <2>. QED BY <1>1, <2>1 DEF Fifo!FNext, Fifo!FTable, TypeOK, Table, Slot
<1>5. ASSUME NEW t \in Txns, NEW rec, TxnAppend(t, rec) PROVE Stutter
    BY <1>5, PipelineStutter DEF TxnAppend, vars

<1>6. ASSUME NEW t \in Txns, TxnBegin(t) PROVE Stutter
    BY <1>6, PipelineStutter DEF TxnBegin, vars
<1>7. ASSUME NEW t \in Txns, TxnFree(t) PROVE Stutter
    BY <1>7, PipelineStutter DEF TxnFree, vars
<1>8. ASSUME NEW t \in Txns, TxnCommit(t) PROVE Stutter
    BY <1>8, PipelineStutter DEF TxnCommit, vars
<1>9. ASSUME NEW t \in Txns, TxnRollback(t) PROVE Stutter
    BY <1>9, PipelineStutter DEF TxnRollback, vars
<1>10. ASSUME NEW t \in Txns, TxnMemLock(t) PROVE Stutter
    BY <1>10, PipelineStutter DEF TxnMemLock, vars
<1>11. ASSUME NEW t \in Txns, TxnSkipCommitted(t) PROVE Stutter
    BY <1>11, PipelineStutter DEF TxnSkipCommitted, vars
<1>12. ASSUME NEW t \in Txns, TxnCheck(t) PROVE Stutter
    BY <1>12, PipelineStutter DEF TxnCheck, vars
<1>13. ASSUME NEW t \in Txns, TxnUndoPutIgnored(t) PROVE Stutter
    BY <1>13, PipelineStutter DEF TxnUndoPutIgnored, AtCommitted, vars
<1>14. ASSUME NEW t \in Txns, TxnUndoSkip(t) PROVE Stutter
    BY <1>14, PipelineStutter DEF TxnUndoSkip, vars
<1>15. ASSUME NEW t \in Txns, TxnApply(t) PROVE Stutter
    BY <1>15, PipelineStutter DEF TxnApply, vars
<1>16. ASSUME NEW t \in Txns, TxnClear(t) PROVE Stutter
    BY <1>16, PipelineStutter DEF TxnClear, vars
<1>17. ASSUME NEW t \in Txns, TxnUndoDelete(t) PROVE Stutter
    BY <1>17, PipelineStutter DEF TxnUndoDelete, vars
<1>18. ASSUME NEW t \in Txns, TxnRollbackEnd(t) PROVE Stutter
    BY <1>18, PipelineStutter DEF TxnRollbackEnd, vars
<1>19. ASSUME UNCHANGED allvars PROVE Stutter
    BY <1>19, PipelineStutter DEF allvars, vars
<1>20. ASSUME NEW t \in Txns, TxnThreadNext(t) PROVE [Fifo!FNext]_Fifo!fvars
    BY <1>2, <1>20, <1>4, <1>5, <1>6, <1>7, <1>8, <1>9, <1>10, <1>11, <1>12, <1>13, <1>14, <1>15, <1>16, <1>17, <1>18 DEF TxnThreadNext, TxnStep, TxnPut, TxnDelete
<1>. QED BY <1>2, <1>3, <1>30, <1>19, <1>20 DEF TxnNext

(***************************************************************************)
(* The engine with the transaction calls implements FlushFifo, for every   *)
(* value of the constants: tidesdb_txn_commit seals the memtable under     *)
(* flush_lock exactly as tidesdb_put does, and no other txn call touches   *)
(* the flush queue, the flush thread or cf->sstables.                      *)
(***************************************************************************)
THEOREM TxnRefinesFifo == TxnSpec => FifoRefinement
<1>1. TxnInit => Fifo!FInit
    BY InitRefines DEF TxnInit
<1>2. TxnTypeOK /\ [TxnNext]_allvars => [Fifo!FNext]_Fifo!fvars
    BY TxnNextRefines
<1>. QED BY <1>1, <1>2, TxnTypeCorrect, PTL DEF TxnSpec, FifoRefinement, Fifo!FSpec

(***************************************************************************)
(* With transactions too, cf->sstables stays ordered oldest to newest: the *)
(* newest-wins scan of tidesdb_get is sound whichever call sealed the      *)
(* memtable.                                                               *)
(***************************************************************************)
THEOREM TxnSSTablesOrdered == TxnSpec => []SSTablesInOrder
<1>1. TxnSpec => FifoProofs!FSpec
    BY TxnRefinesFifo, SameFifoSpec
<1>2. FifoProofs!FSpec => [](FifoProofs!FTypeOK /\ FifoProofs!Increasing(sstables))
    BY FifoProofs!ListedOrdered
<1>3. FifoProofs!Increasing(sstables) <=> SSTablesInOrder
    BY DEF FifoProofs!Increasing, SSTablesInOrder
<1>. QED BY <1>1, <1>2, <1>3, PTL
=============================================================================
