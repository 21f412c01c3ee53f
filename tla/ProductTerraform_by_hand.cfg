SPECIFICATION Spec
CONSTANTS
    Runs = {r1, r2}
    PullRequests = {p1}
    Shas = {s1, s2, s3, s4}
    Comments = {}
    Uris = {u1}
    Releases = {v1}
    BaseAddresses = {b1}
    RoutingAddress = routing
    Idempotent = {b1}
    Declared = Declared
    Changed = Changed
    Editable = {b1}
    MaxVersion = 3
    None = None
SYMMETRY Symmetry
INVARIANTS
    EvidenceIsConsistent
    CreatedAsReviewed
PROPERTIES
    NeverDestroys
