----------------------------- MODULE MCJobQueue -----------------------------
(* Instances of JobQueue for TLC. *)
EXTENDS JobQueue, TLC

Symmetry == Permutations(Jobs) \cup Permutations(Slots)
=============================================================================
