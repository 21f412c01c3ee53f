-------------------------- MODULE MCProductAcceptance --------------------------
(***************************************************************************)
(* A small instance of ProductAcceptance: two releases with an authority   *)
(* for each, and two runs each that deploy and that accept.                *)
(***************************************************************************)
EXTENDS ProductAcceptance, TLC

CONSTANTS l1, l2, k1, k2

MCAuthorises == k1 :> l1 @@ k2 :> l2

\* The releases change places with their authorities.
Swapped == l1 :> l2 @@ l2 :> l1 @@ k1 :> k2 @@ k2 :> k1

Symmetry == Permutations(DeployRuns) \cup Permutations(AcceptRuns) \cup {Swapped}

=============================================================================
