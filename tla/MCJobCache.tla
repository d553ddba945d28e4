----------------------------- MODULE MCJobCache -----------------------------
(* Instances of JobCache for TLC. *)
EXTENDS JobCache, TLC

CONSTANTS j1, j2, r1, r2, w1, w2

CacheSymmetry == Permutations(Jobs) \cup Permutations(Readers) \cup Permutations(Writers)
=============================================================================
