----------------------------- MODULE MCSessions -----------------------------
(* Instances of Sessions for TLC. *)
EXTENDS Sessions, TLC

CONSTANTS u1, r1, l1, l2

Symmetry == Permutations({l1, l2})
=============================================================================
