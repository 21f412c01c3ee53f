SPECIFICATION Spec
CONSTANTS
    l1 = l1
    l2 = l2
    k1 = k1
    k2 = k2
    Releases = {l1, l2}
    Authorities = {k1, k2}
    Authorises <- MCAuthorises
    DeployRuns = {d1, d2}
    VerifyRuns = {v1}
    AcceptRuns = {a1, a2}
    MaxDeletions = 1
    None = None
SYMMETRY Symmetry
CHECK_DEADLOCK FALSE
INVARIANTS
    TypeOK
    AuthorityIsSpentOnce
    OneRunServes
    BindingHolds
    AcceptedOnce
