------------------------ MODULE MCApplicationOutbox ------------------------
(* Instances of ApplicationOutbox for TLC. *)
EXTENDS ApplicationOutbox, TLC

CONSTANTS r1, r2, r3, a1, a2

\* The same job seeker applies twice for one job, and once for another.
MCTarget == (r1 :> a1) @@ (r2 :> a1) @@ (r3 :> a2)
\* Two pairs, one request each: what the liveness runs need.
MCTargetEach == (r1 :> a1) @@ (r2 :> a2)
=============================================================================
