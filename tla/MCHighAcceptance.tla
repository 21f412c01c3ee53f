-------------------------- MODULE MCHighAcceptance --------------------------
(***************************************************************************)
(* A small instance of HighAcceptance: two runs, one build that is stale   *)
(* once main has moved and one that is preserved; the issue starts with    *)
(* the historical acceptance of the preserved build's findings.            *)
(***************************************************************************)
EXTENDS HighAcceptance, TLC

CONSTANTS b1, b2, f1, f2, k1, k2, k3, k4

MCSourceOf == [b \in Builds |-> 0]

MCPreserved == {b2}

Acceptance(b, f, version) ==
    [kind |-> "acceptance", version |-> version, build |-> b, findings |-> f]

MCWritten == [c \in Cids |-> IF c = k1 THEN Acceptance(b2, f1, 1) ELSE None]

\* The acceptance the scenario is about, and by hand a consumption that
\* names another build than its token does.
MCOwnerWrites ==
    {Acceptance(b1, f1, 2)} \cup
    [kind : {"consumption"}, token : {k2}, build : {b2}, findings : {f1}, run : Runs]

Symmetry == {p @@ q : p \in Permutations(Runs), q \in Permutations({k3, k4})}

============================================================================
