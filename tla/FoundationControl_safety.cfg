SPECIFICATION Spec
CHECK_DEADLOCK FALSE
CONSTANTS
    Runs = {r1, r2}
    PullRequests = {p1}
    Shas = {1, 2, 3}
    Issues = {i1, i2}
    Sentinel = Sentinel
    Phase4Addresses = {service}
    Idempotent = {service}
    Declared = Declared
    Changed = Changed
    Editable = {service}
    MaxVersion = 3
    MaxEvents = 3
    None = None
SYMMETRY Symmetry
CONSTRAINT MayRun
INVARIANTS
    TypeOK
    OneIssue
PROPERTIES
    AppliesTheReviewed
