---------------------------- MODULE MCBatchWrite ----------------------------
(* Instances of BatchWrite for TLC.                                        *)
EXTENDS BatchWrite, TLC

Symmetry == Permutations(Conns)
=============================================================================
