------------------------- MODULE MCProductTerraform -------------------------
(***************************************************************************)
(* Small instances of ProductTerraform.                                    *)
(***************************************************************************)
EXTENDS ProductTerraform, TLC

Symmetry == Permutations(Runs) \cup Permutations(Shas)

=============================================================================
