----------------------------- MODULE FlushFifo -----------------------------
(***************************************************************************)
(* What the flush pipeline of a column family promises (spec 4.4, 4.5),    *)
(* abstractly: memtables are sealed in order; the sealed ones are          *)
(* published one at a time in the order they were sealed, each as a new    *)
(* table file holding its live (non-tombstone) entries, appended as the    *)
(* newest table of the list; a sealed memtable without live entries may be *)
(* dropped.  A crash discards what was sealed and not yet published; on    *)
(* reopen the list holds some of the files written, oldest first.          *)
(***************************************************************************)
EXTENDS Naturals, Sequences

CONSTANTS Keys, Values, Tomb, None

VARIABLES
    running,  \* the engine is open
    sealed,   \* memtables sealed and not yet published, oldest first
    files,    \* table files written, in order
    listed    \* the column family's table list: indices into files

fvars == <<running, sealed, files, listed>>

FTable == [Keys -> Values \cup {Tomb, None}]

\* The live entries of a table: tombstones removed.
Live(m) == [k \in Keys |-> IF m[k] = Tomb THEN None ELSE m[k]]

\* Strictly increasing: the table list is ordered oldest to newest.
Increasing(s) == \A i, j \in DOMAIN s : i < j => s[i] < s[j]

\* Table lists over the files written so far, oldest first.
OrderedLists == {s \in UNION {[1 .. n -> DOMAIN files] : n \in 0 .. Len(files)} :
                   Increasing(s)}

FInit ==
    /\ running = TRUE
    /\ sealed = <<>>
    /\ files = <<>>
    /\ listed = <<>>

Seal(m) ==
    /\ running
    /\ sealed' = Append(sealed, m)
    /\ UNCHANGED <<running, files, listed>>

Publish ==
    /\ running
    /\ sealed # <<>>
    /\ files' = Append(files, Live(Head(sealed)))
    /\ listed' = Append(listed, Len(files) + 1)
    /\ sealed' = Tail(sealed)
    /\ UNCHANGED running

Discard ==
    /\ running
    /\ sealed # <<>>
    /\ Live(Head(sealed)) = [k \in Keys |-> None]
    /\ sealed' = Tail(sealed)
    /\ UNCHANGED <<running, files, listed>>

FCrash ==
    /\ running
    /\ running' = FALSE
    /\ sealed' = <<>>
    /\ UNCHANGED <<files, listed>>

Reload ==
    /\ ~running
    /\ running' = TRUE
    /\ listed' \in OrderedLists
    /\ UNCHANGED <<sealed, files>>

FNext ==
    \/ \E m \in FTable : Seal(m)
    \/ Publish
    \/ Discard
    \/ FCrash
    \/ Reload

FSpec == FInit /\ [][FNext]_fvars

=============================================================================
