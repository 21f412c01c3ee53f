SPECIFICATION Spec
CONSTANTS
    Runs = {r1, r2, r3}
    PullRequests = {p1}
    Shas = {s1, s2, s3}
    Comments = {k1}
    Uris = {u1}
    Releases = {v1, v2}
    BaseAddresses = {b1, b2}
    RoutingAddress = routing
    Idempotent = {b1}
    Declared = Declared
    Changed = Changed
    Editable = {}
    MaxVersion = 3
    None = None
SYMMETRY Symmetry
INVARIANTS
    RoutingIsVerified
    AppliedOnce
