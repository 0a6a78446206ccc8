---------------------------- MODULE MCCheckpoint -----------------------------
(* Checkpoint for TLC: a pool of one frame, so that every second fetch     *)
(* evicts, over two files of one page, and two images to tell apart.       *)
EXTENDS Checkpoint, TLC

Symmetry == Permutations(Value)
=============================================================================
