----------------------------- MODULE MCAsyncPool -----------------------------
(* Instances of AsyncPool for TLC.                                         *)
EXTENDS AsyncPool, TLC

\* Calls and connections are interchangeable in every safety property.
Symmetry == Permutations(Calls) \cup Permutations(Conn)
=============================================================================
