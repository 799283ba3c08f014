------------------------------ MODULE MCSyncPool ------------------------------
(* Instances of SyncPool for TLC.                                          *)
EXTENDS SyncPool, TLC

Symmetry == Permutations(Threads) \cup Permutations(Conn)
=============================================================================
