----------------------------- MODULE MCQueryRead -----------------------------
(* Instances of QueryRead for TLC.                                          *)
EXTENDS QueryRead, TLC

\* The connections are interchangeable.
Symmetry == Permutations(Threads)
==============================================================================
