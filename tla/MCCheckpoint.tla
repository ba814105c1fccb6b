---------------------------- MODULE MCCheckpoint ----------------------------
(* Small instances of SeriesCheckpoint for TLC: the values of MCRefine.    *)
EXTENDS MCRefine, SeriesCheckpoint
=============================================================================
