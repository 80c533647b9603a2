------------------------- MODULE MCVectorIndexing --------------------------
(***************************************************************************)
(* VectorIndexing for TLC: the configurations differ in constants only.    *)
(***************************************************************************)
EXTENDS VectorIndexing
=============================================================================
