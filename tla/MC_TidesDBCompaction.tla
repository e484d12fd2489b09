------------------------ MODULE MC_TidesDBCompaction ------------------------
(* Model-checking instance of TidesDBCompaction: constants for the .cfg.   *)
EXTENDS TidesDBCompaction

CONSTANTS k1, k2, v1, v2, w1

MCKeys == {k1, k2}
MCValues == {v1, v2}
MCOneWriter == {w1}
MCThreadCounts == {1, 2, 3}

=============================================================================
