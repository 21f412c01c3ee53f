-------------------------- MODULE MCSliceCRecovery --------------------------
(***************************************************************************)
(* A small instance of SliceCRecovery: the two merges with every detour,   *)
(* and upon the merges as they should be two generations of attempts.      *)
(***************************************************************************)
EXTENDS SliceCRecovery, TLC

C == {<<"control", 1>>}

A == C \cup {<<"activation", 1>>}

Nothing == [claim |-> 11, observer |-> CHOOSE o \in Observers : TRUE, attempt |-> 1,
            serial |-> 0, live |-> {Old}, unlocked |-> TRUE, absent |-> TRUE,
            reconciliation |-> "pending"]

MCSmooth == <<
    [kind |-> "merge_review", pr |-> "control", head |-> 1, tree |-> C],
    [kind |-> "merge_authority", pr |-> "control", review |-> 1],
    [kind |-> "merge", pr |-> "control", head |-> 1, base |-> 0, tree |-> C],
    [kind |-> "record", pr |-> "control", merge |-> 3, authority |-> 2],
    [kind |-> "merge_review", pr |-> "activation", head |-> 1, tree |-> A],
    [kind |-> "merge_authority", pr |-> "activation", review |-> 5],
    [kind |-> "merge", pr |-> "activation", head |-> 1, base |-> 3, tree |-> A],
    [kind |-> "record", pr |-> "activation", merge |-> 7, authority |-> 6],
    [kind |-> "repin_review"],
    [kind |-> "repin_authority", review |-> 9],
    [kind |-> "claim", generation |-> 1, authority |-> 10],
    [kind |-> "observation", facts |-> Nothing, observedAt |-> 0, createdAt |-> 0],
    [kind |-> "observation", facts |-> Nothing, observedAt |-> 1, createdAt |-> 1],
    [kind |-> "terminal", claim |-> 11, first |-> 12, second |-> 13,
     outcome |-> "NO_EFFECT_STABLE"],
    [kind |-> "repin_review"],
    [kind |-> "repin_authority", review |-> 15],
    [kind |-> "claim", generation |-> 2, authority |-> 16]>>

Merged(merges, pushes) ==
    [merge_review |-> 2, merge_authority |-> 2, merge |-> merges, record |-> 2, push |-> pushes]

Attempted(reviews, claims, observations, terminals, dispatches, executions, active) ==
    [repin_review |-> reviews, repin_authority |-> reviews, claim |-> claims,
     observation |-> observations, terminal |-> terminals, dispatch |-> dispatches,
     execution |-> executions, run |-> active]

Reruns(agreed) == [attempt |-> IF agreed = 12 THEN 2 ELSE 1]

MCLimit == [agreed \in 0..17 |-> Reruns(agreed) @@
    (IF agreed = 0 THEN Merged(2, 0) @@ Attempted(0, 0, 0, 0, 0, 0, 0)
    ELSE IF agreed < 4 THEN Merged(2, 2) @@ Attempted(1, 1, 0, 0, 0, 0, 0)
    ELSE IF agreed < 8 THEN Merged(3, 3) @@ Attempted(1, 1, 0, 0, 0, 0, 0)
    ELSE Merged(2, 0) @@ (IF agreed < 11 THEN Attempted(2, 2, 0, 0, 0, 1, 1)
                          ELSE IF agreed = 11 THEN Attempted(1, 1, 1, 1, 1, 2, 1)
                          ELSE IF agreed = 12 THEN Attempted(1, 1, 2, 1, 0, 1, 1)
                          ELSE IF agreed < 17 THEN Attempted(2, 2, 2, 1, 0, 1, 1)
                          ELSE Attempted(2, 2, 3, 2, 1, 2, 1)))]

Symmetry == Permutations(Executors) \cup Permutations(Recoveries)

=============================================================================
