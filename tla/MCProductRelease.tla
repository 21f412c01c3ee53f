--------------------------- MODULE MCProductRelease ---------------------------
(***************************************************************************)
(* ProductRelease on small instances: runs are interchangeable.             *)
(***************************************************************************)
EXTENDS ProductRelease, TLC

Symmetry == Permutations(BuildRuns) \cup Permutations(EvidenceRuns)
=============================================================================
