----------------------------- MODULE MCRoutes -----------------------------
(* Instances of Routes for TLC.                                             *)
EXTENDS Routes, TLC

CONSTANTS p1, p2, d1, d2

Symmetric == Permutations(Project) \cup Permutations(Domain)

=============================================================================
