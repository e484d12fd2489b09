----------------------------- MODULE MC_TidesDB -----------------------------
(* Model-checking instance of TidesDB: constants for the .cfg files.       *)
EXTENDS TidesDB

CONSTANTS k1, k2, v1, v2, w1, w2

MCKeys == {k1, k2}
MCValues == {v1, v2}
MCOneWriter == {w1}
MCTwoWriters == {w1, w2}

=============================================================================
