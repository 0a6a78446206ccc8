---------------------------- MODULE MCBufferPool -----------------------------
(***************************************************************************)
(* A small buffer pool for TLC.                                            *)
(***************************************************************************)
EXTENDS BufferPoolRefinement, TLC

Symmetry == Permutations(Holder)
=============================================================================
