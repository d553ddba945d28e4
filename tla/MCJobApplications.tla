-------------------------- MODULE MCJobApplications --------------------------
(* Instances of JobApplications for TLC. *)
EXTENDS JobApplications, TLC

Symmetry == Permutations(Requests) \cup Permutations(Employers) \cup Permutations(Decisions)
=============================================================================
