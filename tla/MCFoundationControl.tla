------------------------ MODULE MCFoundationControl ------------------------
(***************************************************************************)
(* Small instances of FoundationControl.                                   *)
(***************************************************************************)
EXTENDS FoundationControl, TLC

Symmetry == Permutations(Runs) \cup Permutations(Issues)

\* What happens when no run is active, none will start and no issue is on its
\* way is not explored.
MayRun ==
    \/ events < MaxEvents
    \/ \E r \in Runs : run[r].stage \in Active
    \/ late # {}

=============================================================================
