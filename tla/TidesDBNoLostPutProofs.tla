----------------------- MODULE TidesDBNoLostPutProofs -----------------------
(***************************************************************************)
(* No put is lost in memory while a single writer thread runs, up to the   *)
(* first crash: the proof that NoLostPutInv is an inductive invariant of   *)
(* the engine, and that it implies NoLostPut.                              *)
(*                                                                         *)
(* The argument works key by key on the newest entry of the layer stack    *)
(* (memtable, queued snapshots newest first, the snapshot being written,   *)
(* SSTables newest first), which is assembled from the newest entries of   *)
(* its parts with Pick.                                                    *)
(***************************************************************************)
EXTENDS TidesDBProofs

\* The first of two lookups that found something.
Pick(a, b) == IF a # None THEN a ELSE b

\* The queued snapshots, newest first.
QLayers(q) == [i \in 1 .. Len(q) |-> q[Len(q) + 1 - i].mem]

\* The listed SSTables, newest first.
SLayers(s, d) == [i \in 1 .. Len(s) |-> d[s[Len(s) + 1 - i]]]

\* The layer stack of TidesDB!Layers over given parts.
LayersOf(m, q, fp, f, s, d) ==
    <<m>> \o QLayers(q) \o (IF fp = "write" THEN <<f.mem>> ELSE <<>>) \o SLayers(s, d)

\* The newest entry of k in that stack, part by part.
TopOf(m, q, fp, f, s, d, k) ==
    Pick(m[k], Pick(NewestEntry(QLayers(q), k),
                    Pick(IF fp = "write" THEN f.mem[k] ELSE None,
                         NewestEntry(SLayers(s, d), k))))

\* The newest entry of k in the engine's layer stack.
Top(k) == TopOf(memtable, queue, fpc, flushing, sstables, disk, k)

\* PutsNewest, part by part.
TopNewest ==
    crashes = 0 => \A k \in Keys : store[k] \in Values => Top(k) = store[k]

\* At most one writer thread: the case in which no put is lost.
OneWriter == \A w1, w2 \in Writers : w1 = w2

-----------------------------------------------------------------------------
(* The newest entry of a sequence of tables.                               *)

\* Least is the only least element.
LEMMA LeastIs ==
    ASSUME NEW S \in SUBSET Nat, NEW x \in S, \A j \in S : x <= j
    PROVE  Least(S) = x
<1>1. Least(S) \in S /\ Least(S) <= x
    BY LeastProperties
<1>2. x <= Least(S)
    BY <1>1
<1>. QED BY <1>1, <1>2, x \in Nat, Least(S) \in Nat

\* NewestEntry is None exactly when no table has an entry.
LEMMA NewestNone ==
    ASSUME NEW L \in Seq(Table), NEW k \in Keys
    PROVE  /\ NewestEntry(L, k) = None <=> \A i \in DOMAIN L : L[i][k] = None
           /\ NewestEntry(L, k) \in Slot
<1>. DEFINE hits == {i \in DOMAIN L : L[i][k] # None}
<1>1. hits \in SUBSET Nat
    BY LenProperties
<1>2. CASE hits = {}
    BY <1>2 DEF NewestEntry, Slot
<1>3. CASE hits # {}
    <2>1. Least(hits) \in hits
        BY <1>1, <1>3, LeastProperties
    <2>2. L[Least(hits)] \in Table
        BY <2>1, LenProperties
    <2>. QED BY <1>3, <2>1, <2>2 DEF NewestEntry, Table
<1>. QED BY <1>2, <1>3

\* The newest entry of the empty sequence, and of a single table.
LEMMA NewestBase ==
    ASSUME NEW t \in Table, NEW k \in Keys
    PROVE  /\ NewestEntry(<<>>, k) = None
           /\ NewestEntry(<<t>>, k) = t[k]
<1>1. NewestEntry(<<>>, k) = None
    BY DEF NewestEntry
<1>2. CASE t[k] = None
    BY <1>2 DEF NewestEntry
<1>3. CASE t[k] # None
    <2>1. {i \in DOMAIN <<t>> : <<t>>[i][k] # None} = {1}
        BY <1>3
    <2>2. Least({1}) = 1
        BY LeastIs
    <2>. QED BY <2>1, <2>2 DEF NewestEntry
<1>. QED BY <1>1, <1>2, <1>3

\* The newest entry of a concatenation: the first part's, if it has one.
LEMMA NewestConcat ==
    ASSUME NEW A \in Seq(Table), NEW B \in Seq(Table), NEW k \in Keys
    PROVE  NewestEntry(A \o B, k) = Pick(NewestEntry(A, k), NewestEntry(B, k))
<1>. DEFINE C == A \o B
            hA == {i \in DOMAIN A : A[i][k] # None}
            hB == {i \in DOMAIN B : B[i][k] # None}
            hC == {i \in DOMAIN C : C[i][k] # None}
<1>1. /\ C \in Seq(Table)
      /\ Len(C) = Len(A) + Len(B)
      /\ \A i \in 1 .. Len(A) + Len(B) :
            C[i] = IF i <= Len(A) THEN A[i] ELSE B[i - Len(A)]
    BY ConcatProperties
<1>2. /\ DOMAIN A = 1 .. Len(A) /\ Len(A) \in Nat
      /\ DOMAIN B = 1 .. Len(B) /\ Len(B) \in Nat
      /\ DOMAIN C = 1 .. Len(C)
    BY <1>1, LenProperties
<1>3. hA \in SUBSET Nat /\ hB \in SUBSET Nat /\ hC \in SUBSET Nat
    BY <1>2
<1>4. CASE hA # {}
    <2>1. Least(hA) \in hA /\ \A j \in hA : Least(hA) <= j
        BY <1>3, <1>4, LeastProperties
    <2>2. Least(hA) \in hC /\ C[Least(hA)] = A[Least(hA)]
        BY <1>1, <1>2, <2>1
    <2>3. \A j \in hC : Least(hA) <= j
        BY <1>1, <1>2, <2>1
    <2>4. Least(hC) = Least(hA)
        BY <1>3, <2>2, <2>3, LeastIs
    <2>5. hC # {}
        BY <2>2
    <2>6. NewestEntry(A, k) = A[Least(hA)][k] /\ NewestEntry(A, k) # None
        BY <1>4, <2>1 DEF NewestEntry
    <2>7. NewestEntry(C, k) = A[Least(hA)][k]
        BY <2>2, <2>4, <2>5 DEF NewestEntry
    <2>. QED BY <2>6, <2>7 DEF Pick
<1>5. CASE hA = {} /\ hB # {}
    <2>1. Least(hB) \in hB /\ \A j \in hB : Least(hB) <= j
        BY <1>3, <1>5, LeastProperties
    <2>2. Len(A) + Least(hB) \in hC /\ C[Len(A) + Least(hB)] = B[Least(hB)]
        BY <1>1, <1>2, <2>1
    <2>3. \A j \in hC : Len(A) + Least(hB) <= j
        <3>1. SUFFICES ASSUME NEW j \in hC PROVE Len(A) + Least(hB) <= j
            OBVIOUS
        <3>2. j \in 1 .. Len(A) + Len(B) /\ C[j][k] # None
            BY <1>1, <1>2
        <3>3. j > Len(A)
            BY <1>1, <1>2, <1>5, <3>2
        <3>4. C[j] = B[j - Len(A)] /\ j - Len(A) \in DOMAIN B
            BY <1>1, <1>2, <3>2, <3>3
        <3>5. j - Len(A) \in hB
            BY <3>2, <3>4
        <3>6. Least(hB) <= j - Len(A)
            BY <2>1, <3>5
        <3>7. Least(hB) \in Nat
            BY <1>3, <2>1
        <3>. QED BY <1>2, <3>2, <3>6, <3>7
    <2>4. Least(hC) = Len(A) + Least(hB)
        BY <1>3, <2>2, <2>3, LeastIs
    <2>5. hC # {}
        BY <2>2
    <2>6. NewestEntry(A, k) = None /\ NewestEntry(B, k) = B[Least(hB)][k]
        BY <1>5 DEF NewestEntry
    <2>7. NewestEntry(C, k) = B[Least(hB)][k]
        BY <2>2, <2>4, <2>5 DEF NewestEntry
    <2>. QED BY <2>6, <2>7 DEF Pick
<1>6. CASE hA = {} /\ hB = {}
    <2>1. hC = {}
        BY <1>1, <1>2, <1>6
    <2>. QED BY <1>6, <2>1 DEF NewestEntry, Pick
<1>. QED BY <1>4, <1>5, <1>6

-----------------------------------------------------------------------------
(* The parts of the layer stack.                                           *)

\* Dropping the last of n > 0 elements leaves n - 1 of them.
LEMMA DropLastLen ==
    ASSUME NEW n \in Nat \ {0}
    PROVE  /\ (IF 1 <= n - 1 THEN n - 1 - 1 + 1 ELSE 0) = n - 1
           /\ n - 1 - 1 + 1 = n - 1
           /\ \A i \in 1 .. n - 1 : 1 + i - 1 = i
OBVIOUS

\* Concatenating two sequences of tables, instantiated at Table.
LEMMA ConcatTables ==
    ASSUME NEW A \in Seq(Table), NEW B \in Seq(Table)
    PROVE  /\ A \o B \in Seq(Table)
           /\ Len(A \o B) = Len(A) + Len(B)
           /\ \A i \in 1 .. Len(A) + Len(B) :
                 (A \o B)[i] = IF i <= Len(A) THEN A[i] ELSE B[i - Len(A)]
BY ConcatProperties

\* The queued snapshots, newest first, form a sequence of tables.
LEMMA QLayersType ==
    ASSUME NEW q \in Seq(Entry)
    PROVE  /\ QLayers(q) \in Seq(Table)
           /\ Len(QLayers(q)) = Len(q)
<1>1. Len(q) \in Nat /\ \A i \in 1 .. Len(q) : q[i] \in Entry
    BY LenProperties
<1>2. QLayers(q) \in [1 .. Len(q) -> Table]
    BY <1>1 DEF QLayers, Entry
<1>. QED BY <1>1, <1>2, SeqDef

\* Enqueueing puts the new snapshot first.
LEMMA QLayersAppend ==
    ASSUME NEW q \in Seq(Entry), NEW e \in Entry
    PROVE  QLayers(Append(q, e)) = <<e.mem>> \o QLayers(q)
<1>1. /\ Append(q, e) \in Seq(Entry)
      /\ Len(Append(q, e)) = Len(q) + 1
      /\ \A i \in 1 .. Len(q) + 1 : Append(q, e)[i] = IF i <= Len(q) THEN q[i] ELSE e
    BY AppendProperties
<1>2. <<e.mem>> \in Seq(Table)
    BY DEF Entry
<1>3. /\ <<e.mem>> \o QLayers(q) \in Seq(Table)
      /\ Len(<<e.mem>> \o QLayers(q)) = Len(q) + 1
      /\ \A i \in 1 .. Len(q) + 1 :
            (<<e.mem>> \o QLayers(q))[i] = IF i <= 1 THEN e.mem ELSE QLayers(q)[i - 1]
    BY <1>2, QLayersType, ConcatProperties
<1>4. /\ QLayers(Append(q, e)) \in Seq(Table)
      /\ Len(QLayers(Append(q, e))) = Len(q) + 1
    BY <1>1, QLayersType
<1>5. \A i \in 1 .. Len(q) + 1 :
         QLayers(Append(q, e))[i] = (<<e.mem>> \o QLayers(q))[i]
    BY <1>1, <1>3 DEF QLayers
<1>. QED BY <1>3, <1>4, <1>5, SeqEqual

\* Dequeueing takes the oldest snapshot, the last of the stack part.
LEMMA QLayersTail ==
    ASSUME NEW q \in Seq(Entry), q # <<>>
    PROVE  QLayers(q) = QLayers(Tail(q)) \o <<Head(q).mem>>
<1>1. /\ Head(q) = q[1]
      /\ Tail(q) \in Seq(Entry)
      /\ Len(Tail(q)) = Len(q) - 1
      /\ \A i \in 1 .. Len(q) - 1 : Tail(q)[i] = q[i + 1]
      /\ Len(q) \in Nat \ {0}
      /\ q[1] \in Entry
    BY HeadTailProperties, LenProperties
<1>2. <<Head(q).mem>> \in Seq(Table)
    BY <1>1 DEF Entry
<1>3. /\ QLayers(Tail(q)) \o <<Head(q).mem>> \in Seq(Table)
      /\ Len(QLayers(Tail(q)) \o <<Head(q).mem>>) = Len(q)
      /\ \A i \in 1 .. Len(q) :
            (QLayers(Tail(q)) \o <<Head(q).mem>>)[i] =
               IF i <= Len(q) - 1 THEN QLayers(Tail(q))[i] ELSE Head(q).mem
  <2>1. QLayers(Tail(q)) \in Seq(Table) /\ Len(QLayers(Tail(q))) = Len(q) - 1
    BY <1>1, QLayersType
  <2>. DEFINE A == QLayers(Tail(q))
               B == <<Head(q).mem>>
  <2>2. Len(B) = 1 /\ B[1] = Head(q).mem
    OBVIOUS
  <2>3. /\ A \o B \in Seq(Table)
        /\ Len(A \o B) = Len(A) + Len(B)
        /\ \A i \in 1 .. Len(A) + Len(B) :
              (A \o B)[i] = IF i <= Len(A) THEN A[i] ELSE B[i - Len(A)]
    BY <1>2, <2>1, ConcatTables
  <2>0. Len(q) \in Nat \ {0}
    BY <1>1
  <2>4. Len(A) + Len(B) = Len(q)
    BY <2>0, <2>1, <2>2
  <2>5. \A i \in 1 .. Len(q) : ~(i <= Len(q) - 1) => i - Len(A) = 1
    BY <2>0, <2>1
  <2>. QED BY <2>1, <2>2, <2>3, <2>4, <2>5
<1>4. \A i \in 1 .. Len(q) : QLayers(q)[i] = (QLayers(Tail(q)) \o <<Head(q).mem>>)[i]
  <2>. SUFFICES ASSUME NEW i \in 1 .. Len(q)
                PROVE  QLayers(q)[i] = (QLayers(Tail(q)) \o <<Head(q).mem>>)[i]
    OBVIOUS
  <2>1. QLayers(q)[i] = q[Len(q) + 1 - i].mem
    BY <1>1 DEF QLayers
  <2>2. CASE i <= Len(q) - 1
    <3>0. Len(Tail(q)) = Len(q) - 1 /\ Len(q) \in Nat
      BY <1>1
    <3>1. QLayers(Tail(q))[i] = Tail(q)[Len(q) - i].mem
      BY <3>0, <2>2 DEF QLayers
    <3>2. Tail(q)[Len(q) - i] = q[Len(q) + 1 - i]
      BY <1>1, <2>2
    <3>. QED BY <1>3, <2>1, <2>2, <3>1, <3>2
  <2>3. CASE ~(i <= Len(q) - 1)
    <3>0. Len(q) \in Nat /\ Head(q) = q[1]
      BY <1>1
    <3>1. i = Len(q)
      BY <3>0, <2>3
    <3>. QED BY <3>0, <1>3, <2>1, <2>3, <3>1
  <2>. QED BY <2>2, <2>3
<1>5. QLayers(q) \in Seq(Table) /\ Len(QLayers(q)) = Len(q)
    BY QLayersType
<1>. QED BY <1>3, <1>4, <1>5, SeqEqual

\* The newest queued snapshot comes first.
LEMMA QLayersLast ==
    ASSUME NEW q \in Seq(Entry), q # <<>>
    PROVE  QLayers(q) = <<q[Len(q)].mem>> \o QLayers(SubSeq(q, 1, Len(q) - 1))
<1>. DEFINE f == SubSeq(q, 1, Len(q) - 1)
<1>1. /\ Len(q) \in Nat \ {0}
      /\ q[Len(q)] \in Entry
    BY LenProperties
<1>2. /\ f \in Seq(Entry)
      /\ Len(f) = Len(q) - 1
      /\ \A i \in 1 .. Len(q) - 1 : f[i] = q[i]
  <2>1. \A i \in 1 .. Len(q) - 1 : q[i] \in Entry
    BY <1>1
  <2>2. /\ f \in Seq(Entry)
        /\ Len(f) = IF 1 <= Len(q) - 1 THEN Len(q) - 1 - 1 + 1 ELSE 0
        /\ \A i \in 1 .. Len(q) - 1 - 1 + 1 : f[i] = q[1 + i - 1]
    BY <1>1, <2>1, SubSeqProperties
  <2>0. Len(q) \in Nat \ {0}
    BY <1>1
  <2>3. /\ (IF 1 <= Len(q) - 1 THEN Len(q) - 1 - 1 + 1 ELSE 0) = Len(q) - 1
        /\ Len(q) - 1 - 1 + 1 = Len(q) - 1
        /\ \A i \in 1 .. Len(q) - 1 : 1 + i - 1 = i
    BY <2>0, DropLastLen
  <2>. QED BY <2>2, <2>3
<1>3. <<q[Len(q)].mem>> \in Seq(Table)
    BY <1>1 DEF Entry
<1>4. /\ <<q[Len(q)].mem>> \o QLayers(f) \in Seq(Table)
      /\ Len(<<q[Len(q)].mem>> \o QLayers(f)) = Len(q)
      /\ \A i \in 1 .. Len(q) :
            (<<q[Len(q)].mem>> \o QLayers(f))[i] =
               IF i <= 1 THEN q[Len(q)].mem ELSE QLayers(f)[i - 1]
  <2>. DEFINE A == <<q[Len(q)].mem>>
               B == QLayers(f)
  <2>1. B \in Seq(Table) /\ Len(B) = Len(q) - 1
    BY <1>2, QLayersType
  <2>2. Len(A) = 1 /\ A[1] = q[Len(q)].mem
    OBVIOUS
  <2>3. /\ A \o B \in Seq(Table)
        /\ Len(A \o B) = Len(A) + Len(B)
        /\ \A i \in 1 .. Len(A) + Len(B) :
              (A \o B)[i] = IF i <= Len(A) THEN A[i] ELSE B[i - Len(A)]
    BY <1>3, <2>1, ConcatTables
  <2>4. Len(A) + Len(B) = Len(q)
    BY <1>1, <2>1, <2>2
  <2>. QED BY <2>2, <2>3, <2>4
<1>5. \A i \in 1 .. Len(q) : QLayers(q)[i] = (<<q[Len(q)].mem>> \o QLayers(f))[i]
  <2>. SUFFICES ASSUME NEW i \in 1 .. Len(q)
                PROVE  QLayers(q)[i] = (<<q[Len(q)].mem>> \o QLayers(f))[i]
    OBVIOUS
  <2>1. QLayers(q)[i] = q[Len(q) + 1 - i].mem
    BY <1>1 DEF QLayers
  <2>2. CASE i <= 1
    <3>1. i = 1
      BY <1>1, <2>2
    <3>. QED BY <1>4, <2>1, <3>1
  <2>3. CASE ~(i <= 1)
    <3>1. QLayers(f)[i - 1] = f[Len(q) - 1 + 1 - (i - 1)].mem
      BY <1>1, <1>2, <2>3 DEF QLayers
    <3>2. f[Len(q) + 1 - i] = q[Len(q) + 1 - i]
      BY <1>1, <1>2, <2>3
    <3>3. Len(q) - 1 + 1 - (i - 1) = Len(q) + 1 - i
      BY <1>1
    <3>. QED BY <1>4, <2>1, <2>3, <3>1, <3>2, <3>3
  <2>. QED BY <2>2, <2>3
<1>6. QLayers(q) \in Seq(Table) /\ Len(QLayers(q)) = Len(q)
    BY QLayersType
<1>. QED BY <1>4, <1>5, <1>6, SeqEqual

\* The listed SSTables, newest first, form a sequence of tables.
LEMMA SLayersType ==
    ASSUME NEW d \in Seq(Table), NEW s \in Seq(DOMAIN d)
    PROVE  SLayers(s, d) \in Seq(Table)
<1>1. Len(s) \in Nat /\ \A i \in 1 .. Len(s) : s[i] \in DOMAIN d
    BY LenProperties
<1>2. \A x \in DOMAIN d : d[x] \in Table
    BY LenProperties
<1>3. SLayers(s, d) \in [1 .. Len(s) -> Table]
    BY <1>1, <1>2 DEF SLayers
<1>4. SLayers(s, d) \in UNION {[1 .. n -> Table] : n \in Nat}
    BY <1>1, <1>3
<1>. QED BY <1>4, SeqDef

\* Writing a new file and listing it last puts it first.
LEMMA SLayersAppend ==
    ASSUME NEW d \in Seq(Table), NEW s \in Seq(DOMAIN d), NEW t \in Table
    PROVE  SLayers(Append(s, Len(d) + 1), Append(d, t)) = <<t>> \o SLayers(s, d)
<1>. DEFINE d2 == Append(d, t)
            s2 == Append(s, Len(d) + 1)
<1>1. /\ d2 \in Seq(Table)
      /\ Len(d2) = Len(d) + 1
      /\ \A i \in 1 .. Len(d) + 1 : d2[i] = IF i <= Len(d) THEN d[i] ELSE t
      /\ Len(d) \in Nat
    BY AppendProperties, LenProperties
<1>2. DOMAIN d = 1 .. Len(d) /\ DOMAIN d2 = 1 .. Len(d) + 1
    BY <1>1, LenProperties
<1>3. /\ s2 \in Seq(DOMAIN d2)
      /\ Len(s2) = Len(s) + 1
      /\ \A i \in 1 .. Len(s) + 1 : s2[i] = IF i <= Len(s) THEN s[i] ELSE Len(d) + 1
      /\ Len(s) \in Nat
      /\ \A i \in 1 .. Len(s) : s[i] \in 1 .. Len(d)
    BY <1>2, AppendProperties, LenProperties
<1>4. /\ SLayers(s2, d2) \in Seq(Table)
      /\ SLayers(s, d) \in Seq(Table)
      /\ Len(SLayers(s2, d2)) = Len(s) + 1
      /\ Len(SLayers(s, d)) = Len(s)
    BY <1>1, <1>3, SLayersType DEF SLayers
<1>5. /\ <<t>> \o SLayers(s, d) \in Seq(Table)
      /\ Len(<<t>> \o SLayers(s, d)) = Len(s) + 1
      /\ \A i \in 1 .. Len(s) + 1 :
            (<<t>> \o SLayers(s, d))[i] = IF i <= 1 THEN t ELSE SLayers(s, d)[i - 1]
    BY <1>4, ConcatProperties
<1>6. \A i \in 1 .. Len(s) + 1 : SLayers(s2, d2)[i] = (<<t>> \o SLayers(s, d))[i]
    <2>1. SUFFICES ASSUME NEW i \in 1 .. Len(s) + 1
                   PROVE  SLayers(s2, d2)[i] = (<<t>> \o SLayers(s, d))[i]
        OBVIOUS
    <2>2. CASE i = 1
        BY <1>1, <1>3, <1>5, <2>2 DEF SLayers
    <2>3. CASE i > 1
        <3>1. s2[Len(s) + 2 - i] = s[Len(s) + 2 - i] /\ s[Len(s) + 2 - i] \in 1 .. Len(d)
            BY <1>3, <2>3
        <3>6. Len(s2) + 1 - i = Len(s) + 2 - i /\ Len(s) + 2 - i \in 1 .. Len(s)
            BY <1>3, <2>3
        <3>7. SLayers(s2, d2)[i] = d2[s2[Len(s) + 2 - i]]
            BY <1>3, <3>6 DEF SLayers
        <3>8. d2[s[Len(s) + 2 - i]] = d[s[Len(s) + 2 - i]]
            BY <1>1, <3>1
        <3>9. Len(s) + 2 - i = Len(s) + 1 - (i - 1)
            BY <1>3, <2>3
        <3>2. SLayers(s2, d2)[i] = d[s[Len(s) + 1 - (i - 1)]]
            BY <3>1, <3>7, <3>8, <3>9
        <3>3. i - 1 \in 1 .. Len(s)
            BY <1>3, <2>3
        <3>4. SLayers(s, d)[i - 1] = d[s[Len(s) + 1 - (i - 1)]]
            BY <3>3 DEF SLayers
        <3>5. (<<t>> \o SLayers(s, d))[i] = SLayers(s, d)[i - 1]
            BY <1>5, <2>3
        <3>. QED BY <3>2, <3>4, <3>5
    <2>4. i = 1 \/ i > 1
        BY <1>3
    <2>. QED BY <2>2, <2>3, <2>4
<1>. QED BY <1>4, <1>5, <1>6, SeqEqual


-----------------------------------------------------------------------------
(* The newest entry of the layer stack, part by part.                      *)

\* The newest entry of the stack is Pick over the newest entries of its
\* parts: the memtable, the queue, the snapshot being written, the SSTables.
LEMMA LayersOfTop ==
    ASSUME NEW m \in Table, NEW q \in Seq(Entry), NEW fp, NEW f \in Entry,
           NEW d \in Seq(Table), NEW s \in Seq(DOMAIN d), NEW k \in Keys
    PROVE  NewestEntry(LayersOf(m, q, fp, f, s, d), k) = TopOf(m, q, fp, f, s, d, k)
<1>. DEFINE M == <<m>>
            Q == QLayers(q)
            D == IF fp = "write" THEN <<f.mem>> ELSE <<>>
            S == SLayers(s, d)
<1>1. M \in Seq(Table)
    OBVIOUS
<1>2. Q \in Seq(Table)
    BY QLayersType
<1>3. D \in Seq(Table)
    BY DEF Entry
<1>4. S \in Seq(Table)
    BY SLayersType
<1>5. M \o Q \in Seq(Table) /\ M \o Q \o D \in Seq(Table)
    BY <1>1, <1>2, <1>3, ConcatTables
<1>6. NewestEntry(M, k) = m[k]
    BY NewestBase
<1>7. NewestEntry(D, k) = IF fp = "write" THEN f.mem[k] ELSE None
    BY NewestBase DEF Entry
<1>8. NewestEntry(M \o Q \o D \o S, k) =
        Pick(NewestEntry(M \o Q \o D, k), NewestEntry(S, k))
    BY <1>4, <1>5, NewestConcat
<1>9. NewestEntry(M \o Q \o D, k) = Pick(NewestEntry(M \o Q, k), NewestEntry(D, k))
    BY <1>3, <1>5, NewestConcat
<1>10. NewestEntry(M \o Q, k) = Pick(NewestEntry(M, k), NewestEntry(Q, k))
    BY <1>1, <1>2, NewestConcat
<1>11. \A a, b, c : Pick(Pick(a, b), c) = Pick(a, Pick(b, c))
    BY DEF Pick
<1>. QED BY <1>6, <1>7, <1>8, <1>9, <1>10, <1>11 DEF LayersOf, TopOf

\* The engine's layer stack is LayersOf its parts.
LEMMA LayersIsLayersOf ==
    Layers = LayersOf(memtable, queue, fpc, flushing, sstables, disk)
BY DEF Layers, LayersOf, QLayers, SLayers

\* Under the type invariant, PutsNewest and TopNewest say the same.
LEMMA PutsNewestTop ==
    TypeOK => (PutsNewest <=> TopNewest)
<1>. SUFFICES ASSUME TypeOK PROVE \A k \in Keys : NewestEntry(Layers, k) = Top(k)
    BY DEF PutsNewest, TopNewest
<1>. QED BY LayersIsLayersOf, LayersOfTop DEF TypeOK, Top

\* The same after a step: TypeOK', PutsNewest' and TopNewest'.
LEMMA PutsNewestTopPrimed ==
    TypeOK' => (PutsNewest' <=> TopNewest')
<1>1. Layers' = LayersOf(memtable', queue', fpc', flushing', sstables', disk')
    BY DEF Layers, LayersOf, QLayers, SLayers
<1>. SUFFICES ASSUME TypeOK' PROVE \A k \in Keys : NewestEntry(Layers', k) = Top(k)'
    BY DEF PutsNewest, TopNewest
<1>. QED BY <1>1, LayersOfTop DEF TypeOK, Top


-----------------------------------------------------------------------------
(* NoLostPutInv is inductive for one writer.                               *)

\* The initial state: nothing stored, no writer in a call.
LEMMA InitNoLostPut == Init => NoLostPutInv
<1>. SUFFICES ASSUME Init PROVE NoLostPutInv
    OBVIOUS
<1>1. UpUntilCrash /\ ClearHoldsSnapshot
    BY DEF Init, UpUntilCrash, ClearHoldsSnapshot
<1>2. \A k \in Keys : store[k] \notin Values
    BY ConstAssumption DEF Init
<1>. QED BY <1>1, <1>2 DEF NoLostPutInv, PutsNewest

\* A step that leaves the layer stack, the store and the crash count alone
\* keeps TopNewest.
LEMMA StackUnchanged ==
    ASSUME TopNewest,
           UNCHANGED <<memtable, queue, fpc, flushing, sstables, disk, store, crashes>>
    PROVE  TopNewest'
BY DEF TopNewest, Top, TopOf

\* A step that leaves pc, flushLock, queue and memtable alone keeps
\* ClearHoldsSnapshot.
LEMMA ClearUnchanged ==
    ASSUME ClearHoldsSnapshot, UNCHANGED <<pc, flushLock, queue, memtable>>
    PROVE  ClearHoldsSnapshot'
BY DEF ClearHoldsSnapshot

\* While flush_lock is free, no writer is about to clear.
LEMMA FreeLockNoClear ==
    ASSUME ClearHoldsSnapshot, flushLock = NoHolder
    PROVE  \A w \in Writers : pc[w] # "clear"
BY ConstAssumption DEF ClearHoldsSnapshot


\* Every step keeps NoLostPutInv when there is one writer.  Only the
\* MemtablePut step needs that: with two writers, another writer's
\* skiplist_put between a snapshot and its skiplist_clear breaks
\* ClearHoldsSnapshot (run concurrent_lost_put).
LEMMA NextNoLostPut ==
    ASSUME OneWriter, TypeOK, NoLostPutInv, [Next]_vars
    PROVE  NoLostPutInv'
<1>0. TypeOK'
    BY NextTypeOK
<1>1. UpUntilCrash /\ ClearHoldsSnapshot /\ TopNewest
    BY PutsNewestTop DEF NoLostPutInv
<1>. SUFFICES UpUntilCrash' /\ ClearHoldsSnapshot' /\ TopNewest'
    BY <1>0, PutsNewestTopPrimed DEF NoLostPutInv
<1>2. ASSUME NEW w \in Writers, NEW rec, AppendToWal(w, rec)
      PROVE  UpUntilCrash' /\ ClearHoldsSnapshot' /\ TopNewest'
    <2>1. UpUntilCrash'
        BY <1>1, <1>2 DEF AppendToWal, UpUntilCrash
    <2>2. ClearHoldsSnapshot'
        BY <1>1, <1>2 DEF AppendToWal, ClearHoldsSnapshot, TypeOK
    <2>3. TopNewest'
        BY <1>1, <1>2, StackUnchanged DEF AppendToWal
    <2>. QED BY <2>1, <2>2, <2>3
<1>3. ASSUME NEW w \in Writers, MemtablePut(w)
      PROVE  UpUntilCrash' /\ ClearHoldsSnapshot' /\ TopNewest'
    <2>1. UpUntilCrash'
        BY <1>1, <1>3 DEF MemtablePut, UpUntilCrash
    <2>2. ClearHoldsSnapshot'
        <3>1. pc'[w] # "clear"
            BY <1>3 DEF MemtablePut, TypeOK
        <3>. QED BY <3>1 DEF OneWriter, ClearHoldsSnapshot
    <2>3. TopNewest'
        <3>1. SUFFICES ASSUME crashes' = 0, NEW k \in Keys, store'[k] \in Values
                       PROVE  Top(k)' = store'[k]
            BY DEF TopNewest
        <3>2. op[w] \in OpRec
            BY DEF TypeOK
        <3>3. CASE k = op[w].key
            <4>1. op[w].val \in Values /\ store'[k] = op[w].val
                BY <1>3, <3>1, <3>2, <3>3, ConstAssumption DEF MemtablePut, TypeOK, IsTombstone, OpRec
            <4>2. memtable'[k] = op[w].val /\ op[w].val # None
                BY <1>3, <3>3, <4>1, ConstAssumption DEF MemtablePut, TypeOK, Table
            <4>. QED BY <4>1, <4>2 DEF Top, TopOf, Pick
        <3>4. CASE k # op[w].key
            <4>1. memtable'[k] = memtable[k] /\ store'[k] = store[k] /\ crashes = 0
                BY <1>3, <3>1, <3>4 DEF MemtablePut, TypeOK, Table
            <4>2. Top(k)' = Top(k)
                BY <1>3, <4>1 DEF MemtablePut, Top, TopOf
            <4>. QED BY <1>1, <3>1, <4>1, <4>2 DEF TopNewest
        <3>. QED BY <3>3, <3>4
    <2>. QED BY <2>1, <2>2, <2>3
<1>4. ASSUME NEW w \in Writers, CheckThreshold(w)
      PROVE  UpUntilCrash' /\ ClearHoldsSnapshot' /\ TopNewest'
    <2>1. UpUntilCrash'
        BY <1>1, <1>4 DEF CheckThreshold, UpUntilCrash
    <2>2. ClearHoldsSnapshot'
        BY <1>1, <1>4 DEF CheckThreshold, ClearHoldsSnapshot, TypeOK
    <2>3. TopNewest'
        BY <1>1, <1>4, StackUnchanged DEF CheckThreshold
    <2>. QED BY <2>1, <2>2, <2>3
<1>5. ASSUME NEW w \in Writers, EnqueueFlush(w)
      PROVE  UpUntilCrash' /\ ClearHoldsSnapshot' /\ TopNewest'
    <2>. DEFINE e == [mem |-> memtable, ckpt |-> Len(wal)]
    <2>1. e \in Entry /\ queue' = Append(queue, e)
        BY <1>5, LenProperties DEF EnqueueFlush, TypeOK, Entry
    <2>2. UpUntilCrash'
        BY <1>1, <1>5 DEF EnqueueFlush, UpUntilCrash
    <2>3. ClearHoldsSnapshot'
        <3>1. \A x \in Writers : pc[x] # "clear"
            BY <1>1, <1>5, FreeLockNoClear DEF EnqueueFlush
        <3>2. queue' # <<>> /\ queue'[Len(queue')].mem = memtable'
            <4>1. queue \in Seq(Entry) /\ memtable' = memtable
                BY <1>5 DEF EnqueueFlush, TypeOK
            <4>2. /\ Append(queue, e) # <<>>
                  /\ Len(Append(queue, e)) = Len(queue) + 1
                  /\ Append(queue, e)[Len(queue) + 1] = e
                BY <2>1, <4>1, AppendProperties
            <4>. QED BY <2>1, <4>1, <4>2
        <3>3. SUFFICES ASSUME NEW x \in Writers, pc'[x] = "clear"
                       PROVE  /\ flushLock' = x
                              /\ queue' # <<>>
                              /\ queue'[Len(queue')].mem = memtable'
            BY DEF ClearHoldsSnapshot
        <3>4. x = w
            BY <1>5, <3>1, <3>3 DEF EnqueueFlush, TypeOK
        <3>. QED BY <1>5, <3>2, <3>4 DEF EnqueueFlush
    <2>4. TopNewest'
        <3>1. SUFFICES ASSUME NEW k \in Keys PROVE Top(k)' = Top(k)
            BY <1>1, <1>5 DEF EnqueueFlush, TopNewest
        <3>2. NewestEntry(QLayers(queue'), k) =
                Pick(memtable[k], NewestEntry(QLayers(queue), k))
            <4>1. QLayers(queue') = <<e.mem>> \o QLayers(queue)
                BY <2>1, QLayersAppend DEF TypeOK
            <4>2. <<e.mem>> \in Seq(Table) /\ QLayers(queue) \in Seq(Table)
                BY QLayersType DEF TypeOK
            <4>3. NewestEntry(<<e.mem>>, k) = memtable[k]
                BY NewestBase DEF TypeOK
            <4>. QED BY <4>1, <4>2, <4>3, NewestConcat
        <3>. QED BY <1>5, <3>2 DEF EnqueueFlush, Top, TopOf, Pick
    <2>. QED BY <2>2, <2>3, <2>4
<1>6. ASSUME NEW w \in Writers, ClearMemtable(w)
      PROVE  UpUntilCrash' /\ ClearHoldsSnapshot' /\ TopNewest'
    <2>1. flushLock = w /\ queue # <<>> /\ queue[Len(queue)].mem = memtable
        BY <1>1, <1>6 DEF ClearMemtable, ClearHoldsSnapshot
    <2>2. UpUntilCrash'
        BY <1>1, <1>6 DEF ClearMemtable, UpUntilCrash
    <2>3. ClearHoldsSnapshot'
        <3>1. \A x \in Writers \ {w} : pc[x] # "clear"
            BY <1>1, <2>1 DEF ClearHoldsSnapshot
        <3>. QED BY <1>6, <3>1 DEF ClearMemtable, ClearHoldsSnapshot, TypeOK
    <2>4. TopNewest'
        <3>1. SUFFICES ASSUME NEW k \in Keys PROVE Top(k)' = Top(k)
            BY <1>1, <1>6 DEF ClearMemtable, TopNewest
        <3>. DEFINE F == SubSeq(queue, 1, Len(queue) - 1)
        <3>2. F \in Seq(Entry)
            BY <2>1, SubSeqProperties, LenProperties DEF TypeOK
        <3>3. NewestEntry(QLayers(queue), k) = Pick(memtable[k], NewestEntry(QLayers(F), k))
            <4>1. QLayers(queue) = <<queue[Len(queue)].mem>> \o QLayers(F)
                BY <2>1, QLayersLast DEF TypeOK
            <4>2. <<memtable>> \in Seq(Table) /\ QLayers(F) \in Seq(Table)
                <5>1. QLayers(F) \in Seq(Table)
                    BY <3>2, QLayersType
                <5>2. memtable \in Table
                    BY DEF TypeOK
                <5>. QED BY <5>1, <5>2
            <4>3. NewestEntry(<<memtable>>, k) = memtable[k]
                BY NewestBase DEF TypeOK
            <4>. QED BY <2>1, <4>1, <4>2, <4>3, NewestConcat
        <3>4. memtable'[k] = None
            BY <1>6 DEF ClearMemtable, EmptyTable
        <3>. QED BY <1>6, <3>3, <3>4 DEF ClearMemtable, Top, TopOf, Pick
    <2>. QED BY <2>2, <2>3, <2>4
<1>7. ASSUME FlushDequeue
      PROVE  UpUntilCrash' /\ ClearHoldsSnapshot' /\ TopNewest'
    <2>1. UpUntilCrash'
        BY <1>1, <1>7 DEF FlushDequeue, UpUntilCrash
    <2>2. ClearHoldsSnapshot'
        BY <1>1, <1>7, FreeLockNoClear DEF FlushDequeue, ClearHoldsSnapshot
    <2>3. TopNewest'
        <3>1. SUFFICES ASSUME NEW k \in Keys PROVE Top(k)' = Top(k)
            BY <1>1, <1>7 DEF FlushDequeue, TopNewest
        <3>2. /\ Head(queue) \in Entry
              /\ Tail(queue) \in Seq(Entry)
            BY <1>7, HeadTailProperties DEF FlushDequeue, TypeOK
        <3>3. NewestEntry(QLayers(queue), k) =
                Pick(NewestEntry(QLayers(Tail(queue)), k), Head(queue).mem[k])
            <4>1. QLayers(queue) = QLayers(Tail(queue)) \o <<Head(queue).mem>>
                BY <1>7, QLayersTail DEF FlushDequeue, TypeOK
            <4>2. <<Head(queue).mem>> \in Seq(Table) /\ QLayers(Tail(queue)) \in Seq(Table)
                <5>1. QLayers(Tail(queue)) \in Seq(Table)
                    BY <3>2, QLayersType
                <5>2. Head(queue).mem \in Table
                    BY <3>2 DEF Entry
                <5>. QED BY <5>1, <5>2
            <4>3. NewestEntry(<<Head(queue).mem>>, k) = Head(queue).mem[k]
                BY <3>2, NewestBase DEF Entry
            <4>. QED BY <4>1, <4>2, <4>3, NewestConcat
        <3>. QED BY <1>7, <3>3 DEF FlushDequeue, Top, TopOf, Pick
    <2>. QED BY <2>1, <2>2, <2>3
<1>8. ASSUME FlushWrite
      PROVE  UpUntilCrash' /\ ClearHoldsSnapshot' /\ TopNewest'
    <2>1. UpUntilCrash'
        BY <1>1, <1>8 DEF FlushWrite, UpUntilCrash
    <2>2. ClearHoldsSnapshot'
        BY <1>1, <1>8, ClearUnchanged DEF FlushWrite
    <2>3. TopNewest'
        <3>1. SUFFICES ASSUME crashes' = 0, NEW k \in Keys, store'[k] \in Values
                       PROVE  Top(k)' = store'[k]
            BY DEF TopNewest
        <3>. DEFINE f == flushing.mem
                    NQ == NewestEntry(QLayers(queue), k)
                    S == NewestEntry(SLayers(sstables, disk), k)
        <3>2. f \in Table /\ LiveEntries(f) \in Table
            BY LiveEntriesType DEF TypeOK, Entry
        <3>3. NewestEntry(SLayers(sstables', disk'), k) = Pick(LiveEntries(f)[k], S)
            <4>1. SLayers(sstables', disk') = <<LiveEntries(f)>> \o SLayers(sstables, disk)
                BY <1>8, <3>2, SLayersAppend DEF FlushWrite, TypeOK
            <4>2. <<LiveEntries(f)>> \in Seq(Table) /\ SLayers(sstables, disk) \in Seq(Table)
                BY <3>2, SLayersType DEF TypeOK
            <4>3. NewestEntry(<<LiveEntries(f)>>, k) = LiveEntries(f)[k]
                BY <3>2, NewestBase
            <4>. QED BY <4>1, <4>2, <4>3, NewestConcat
        <3>4. Top(k) = Pick(memtable[k], Pick(NQ, Pick(f[k], S)))
            BY <1>8 DEF FlushWrite, Top, TopOf
        <3>5. Top(k)' = Pick(memtable[k], Pick(NQ, Pick(LiveEntries(f)[k], S)))
            BY <1>8, <3>3 DEF FlushWrite, Top, TopOf, Pick
        <3>6. Top(k) = store[k] /\ store[k] = store'[k]
            BY <1>1, <1>8, <3>1 DEF FlushWrite, TopNewest
        <3>7. LiveEntries(f)[k] = IF f[k] = Tomb THEN None ELSE f[k]
            BY DEF LiveEntries, IsTombstone
        <3>. QED BY <3>1, <3>4, <3>5, <3>6, <3>7, ConstAssumption DEF Pick
    <2>. QED BY <2>1, <2>2, <2>3
<1>9. ASSUME FlushAbortEmpty
      PROVE  UpUntilCrash' /\ ClearHoldsSnapshot' /\ TopNewest'
    <2>1. UpUntilCrash'
        BY <1>1, <1>9 DEF FlushAbortEmpty, UpUntilCrash
    <2>2. ClearHoldsSnapshot'
        BY <1>1, <1>9, ClearUnchanged DEF FlushAbortEmpty
    <2>3. TopNewest'
        <3>1. SUFFICES ASSUME crashes' = 0, NEW k \in Keys, store'[k] \in Values
                       PROVE  Top(k)' = store'[k]
            BY DEF TopNewest
        <3>. DEFINE f == flushing.mem
                    NQ == NewestEntry(QLayers(queue), k)
                    S == NewestEntry(SLayers(sstables, disk), k)
        <3>2. f[k] \in {None, Tomb}
            <4>1. LiveEntries(f)[k] = None
                BY <1>9 DEF FlushAbortEmpty, EmptyTable
            <4>. QED BY <4>1 DEF LiveEntries, IsTombstone
        <3>3. Top(k) = Pick(memtable[k], Pick(NQ, Pick(f[k], S)))
            BY <1>9 DEF FlushAbortEmpty, Top, TopOf
        <3>4. Top(k)' = Pick(memtable[k], Pick(NQ, Pick(None, S)))
            BY <1>9 DEF FlushAbortEmpty, Top, TopOf
        <3>5. Top(k) = store[k] /\ store[k] = store'[k]
            BY <1>1, <1>9, <3>1 DEF FlushAbortEmpty, TopNewest
        <3>. QED BY <3>1, <3>2, <3>3, <3>4, <3>5, ConstAssumption DEF Pick
    <2>. QED BY <2>1, <2>2, <2>3
<1>10. ASSUME FlushTruncate
       PROVE  UpUntilCrash' /\ ClearHoldsSnapshot' /\ TopNewest'
    <2>1. UpUntilCrash'
        BY <1>1, <1>10 DEF FlushTruncate, UpUntilCrash
    <2>2. ClearHoldsSnapshot'
        BY <1>1, <1>10, ClearUnchanged DEF FlushTruncate
    <2>3. TopNewest'
        <3>1. \A k \in Keys : Top(k)' = Top(k)
            BY <1>10 DEF FlushTruncate, Top, TopOf
        <3>. QED BY <1>1, <1>10, <3>1 DEF FlushTruncate, TopNewest
    <2>. QED BY <2>1, <2>2, <2>3
<1>11. ASSUME Crash
       PROVE  UpUntilCrash' /\ ClearHoldsSnapshot' /\ TopNewest'
    <2>1. crashes' # 0
        BY <1>11 DEF Crash, CrashLosing, TypeOK
    <2>. QED BY <1>1, <1>11, <2>1, ClearUnchanged DEF Crash, CrashLosing, UpUntilCrash, TopNewest
<1>12. ASSUME Open
       PROVE  UpUntilCrash' /\ ClearHoldsSnapshot' /\ TopNewest'
    <2>1. crashes' # 0
        BY <1>1, <1>12 DEF Open, UpUntilCrash
    <2>2. ClearHoldsSnapshot'
        BY <1>12 DEF Open, ClearHoldsSnapshot
    <2>. QED BY <2>1, <2>2 DEF UpUntilCrash, TopNewest
<1>13. ASSUME UNCHANGED vars
       PROVE  UpUntilCrash' /\ ClearHoldsSnapshot' /\ TopNewest'
    BY <1>1, <1>13, ClearUnchanged, StackUnchanged DEF vars, UpUntilCrash
<1>. QED BY <1>2, <1>3, <1>4, <1>5, <1>6, <1>7, <1>8, <1>9, <1>10, <1>11, <1>12, <1>13
         DEF Next, WriterNext, WriterStep, FlushNext, Put, Delete

-----------------------------------------------------------------------------
(* The theorems.                                                           *)

\* NoLostPutInv gives NoLostPut: the newest entry of a stored key is its
\* value, which is no tombstone, so the lookup returns it.
LEMMA InvNoLostPut ==
    TypeOK /\ NoLostPutInv => (crashes = 0 => NoLostPut)
<1>. SUFFICES ASSUME TypeOK, NoLostPutInv, crashes = 0, up,
                     NEW k \in Keys, ~Pending(k), store[k] \in Values
              PROVE  Resolve(k) = store[k]
    BY DEF NoLostPut
<1>1. NewestEntry(Layers, k) = store[k]
    BY DEF NoLostPutInv, PutsNewest
<1>. QED BY <1>1, ConstAssumption DEF Resolve, NewestEntry, IsTombstone

(***************************************************************************)
(* With one writer thread, NoLostPutInv holds in every reachable state.    *)
(* It is the inductive invariant behind NoLostPut: the flush holding its   *)
(* snapshot until the memtable is cleared (ClearHoldsSnapshot) and the     *)
(* newest table holding a key carrying the last value put (PutsNewest).   *)
(***************************************************************************)
THEOREM NoLostPutInductive ==
    ASSUME OneWriter
    PROVE  Spec => [](TypeOK /\ NoLostPutInv)
<1>1. Init => TypeOK /\ NoLostPutInv
    BY InitTypeOK, InitNoLostPut
<1>2. TypeOK /\ NoLostPutInv /\ [Next]_vars => (TypeOK /\ NoLostPutInv)'
    BY NextTypeOK, NextNoLostPut
<1>. QED BY <1>1, <1>2, PTL DEF Spec

(***************************************************************************)
(* No put is lost in memory: with one writer thread and before the first   *)
(* crash, a lookup of a key returns the last value tidesdb_put stored      *)
(* under it, through every memtable swap, enqueue, flush and truncation.   *)
(***************************************************************************)
THEOREM NoLostPutOneWriter ==
    ASSUME OneWriter
    PROVE  Spec => [](crashes = 0 => NoLostPut)
BY NoLostPutInductive, InvNoLostPut, PTL
=============================================================================
