---------------------------- MODULE MCDiskManager ----------------------------
(* DiskManager for TLC.                                                    *)
EXTENDS DiskManager, TLC

Symmetry == Permutations(Thread)

=============================================================================
