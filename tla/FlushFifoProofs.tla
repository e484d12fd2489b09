-------------------------- MODULE FlushFifoProofs --------------------------
(***************************************************************************)
(* The abstract flush pipeline keeps the table list ordered oldest to      *)
(* newest: a publish appends the newest file, a reload lists written files *)
(* in order.  TidesDB inherits the fact through its refinement of          *)
(* FlushFifo (TidesDBProofs).                                              *)
(***************************************************************************)
EXTENDS FlushFifo, SequenceTheorems, TLAPS

\* The types of the abstract pipeline: the list indexes written files.
FTypeOK ==
    /\ running \in BOOLEAN
    /\ sealed \in Seq(FTable)
    /\ files \in Seq(FTable)
    /\ listed \in Seq(DOMAIN files)

\* The inductive invariant: typed, and the list increasing.
FOrderInv == FTypeOK /\ Increasing(listed)

\* The live entries of a table form a table.
LEMMA LiveType ==
    ASSUME NEW m \in FTable
    PROVE  Live(m) \in FTable
BY DEF Live, FTable

LEMMA FInitOrder == FInit => FOrderInv
BY DEF FInit, FOrderInv, FTypeOK, Increasing

\* Every step keeps the list typed and increasing.
LEMMA FNextOrder == FOrderInv /\ [FNext]_fvars => FOrderInv'
<1>. SUFFICES ASSUME FOrderInv, [FNext]_fvars PROVE FOrderInv'
    OBVIOUS
<1>1. /\ Len(files) \in Nat
      /\ DOMAIN files = 1 .. Len(files)
      /\ Len(listed) \in Nat
      /\ \A i \in 1 .. Len(listed) : listed[i] \in 1 .. Len(files)
    BY LenProperties DEF FOrderInv, FTypeOK
<1>2. ASSUME NEW m \in FTable, Seal(m) PROVE FOrderInv'
    BY <1>2, AppendProperties DEF Seal, FOrderInv, FTypeOK, Increasing
<1>3. ASSUME Publish PROVE FOrderInv'
    <2>1. Head(sealed) \in FTable /\ Tail(sealed) \in Seq(FTable)
        BY <1>3, HeadTailProperties DEF Publish, FOrderInv, FTypeOK
    <2>2. /\ files' \in Seq(FTable)
          /\ Len(files') = Len(files) + 1
          /\ DOMAIN files' = 1 .. Len(files) + 1
        BY <1>3, <2>1, LiveType, AppendProperties, LenProperties
        DEF Publish, FOrderInv, FTypeOK
    <2>3. /\ Len(listed') = Len(listed) + 1
          /\ \A i \in 1 .. Len(listed) : listed'[i] = listed[i]
          /\ listed'[Len(listed) + 1] = Len(files) + 1
          /\ listed' \in Seq(1 .. Len(files) + 1)
        <3>1. listed \in Seq(1 .. Len(files) + 1)
            BY <1>1, LenProperties DEF FOrderInv, FTypeOK
        <3>. QED BY <1>1, <1>3, <3>1, AppendProperties DEF Publish
    <2>4. Increasing(listed')
        <3>. SUFFICES ASSUME NEW i \in DOMAIN listed', NEW j \in DOMAIN listed', i < j
                      PROVE  listed'[i] < listed'[j]
            BY DEF Increasing
        <3>1. DOMAIN listed' = 1 .. Len(listed) + 1
            BY <2>3, LenProperties
        <3>2. i \in 1 .. Len(listed)
            BY <1>1, <3>1
        <3>3. CASE j \in 1 .. Len(listed)
            BY <1>1, <2>3, <3>2, <3>3 DEF FOrderInv, Increasing
        <3>4. CASE j = Len(listed) + 1
            BY <1>1, <2>3, <3>2, <3>4
        <3>. QED BY <1>1, <3>1, <3>3, <3>4
    <2>. QED BY <1>3, <2>1, <2>2, <2>3, <2>4 DEF Publish, FOrderInv, FTypeOK
<1>4. ASSUME Discard PROVE FOrderInv'
    BY <1>4, HeadTailProperties DEF Discard, FOrderInv, FTypeOK, Increasing
<1>5. ASSUME FCrash PROVE FOrderInv'
    BY <1>5, EmptySeq DEF FCrash, FOrderInv, FTypeOK, Increasing
<1>6. ASSUME Reload PROVE FOrderInv'
    <2>1. PICK n \in 0 .. Len(files) : listed' \in [1 .. n -> DOMAIN files]
        BY <1>6 DEF Reload, OrderedLists
    <2>2. listed' \in Seq(DOMAIN files)
        BY <2>1, SeqDef
    <2>3. Increasing(listed')
        BY <1>6 DEF Reload, OrderedLists
    <2>. QED BY <1>6, <2>2, <2>3 DEF Reload, FOrderInv, FTypeOK
<1>7. ASSUME UNCHANGED fvars PROVE FOrderInv'
    BY <1>7 DEF fvars, FOrderInv, FTypeOK, Increasing
<1>. QED BY <1>2, <1>3, <1>4, <1>5, <1>6, <1>7 DEF FNext

(***************************************************************************)
(* The table list of the abstract pipeline is always ordered oldest to     *)
(* newest: what tidesdb_get's scan from the last table, newest wins,       *)
(* relies on.                                                              *)
(***************************************************************************)
THEOREM ListedOrdered == FSpec => [](FTypeOK /\ Increasing(listed))
<1>1. FOrderInv => FTypeOK /\ Increasing(listed)
    BY DEF FOrderInv
<1>. QED BY <1>1, FInitOrder, FNextOrder, PTL DEF FSpec
=============================================================================
