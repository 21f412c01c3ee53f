------------------------------- MODULE OneUse -------------------------------
(***************************************************************************)
(* What a one-use authority promises: a token the owner has given is spent *)
(* by at most one workflow run, and what it permits is done at most once,  *)
(* after it was spent.                                                     *)
(***************************************************************************)
CONSTANTS Tokens, Runs, None

VARIABLES
    spentBy,  \* Tokens -> the run that has spent it, or None
    used      \* tokens whose permitted effect has taken place

vars == <<spentBy, used>>

Init == spentBy = [t \in Tokens |-> None] /\ used = {}

Spend(t, r) ==
    /\ spentBy[t] = None
    /\ spentBy' = [spentBy EXCEPT ![t] = r]
    /\ UNCHANGED used

Use(t) ==
    /\ spentBy[t] # None
    /\ t \notin used
    /\ used' = used \cup {t}
    /\ UNCHANGED spentBy

Next == \E t \in Tokens : Use(t) \/ \E r \in Runs : Spend(t, r)

Spec == Init /\ [][Next]_vars

============================================================================
