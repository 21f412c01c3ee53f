----------------------- MODULE MCCloudRunDeployment -----------------------
(***************************************************************************)
(* A small instance of CloudRunDeployment: one release that creates the    *)
(* service, one that replaces its first revision, an authority for each,   *)
(* and two runs, of one workflow or of both.                               *)
(***************************************************************************)
EXTENDS CloudRunDeployment, TLC

CONSTANTS create, update, i1, i2, k1, k2, k3, k4

MCEnvelope == [l \in Releases |->
    IF l = create
    THEN [transition |-> "CREATE_IF_ABSENT", image |-> i1, previous |-> 0,
          previous_image |-> None]
    ELSE [transition |-> "UPDATE_EXISTING_REVISION", image |-> i2, previous |-> 1,
          previous_image |-> i1]]

Authority(l) == [kind |-> "authority", release |-> l]

MCWritten == [c \in Cids |-> IF c = k1 THEN Authority(create)
                             ELSE IF c = k2 THEN Authority(update) ELSE None]

\* A second authority to create, a consumption by the owner's hand, and one
\* that does not parse.
MCOwnerWrites ==
    {Authority(create), [kind |-> "malformed", transition |-> "UPDATE_EXISTING_REVISION"]}
    \cup [kind : {"consumption"}, authority : {k1}, release : {create}, run : Runs]

NothingMore == {}

Symmetry == Permutations(Runs)

============================================================================
