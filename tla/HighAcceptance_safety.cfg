SPECIFICATION Spec
CONSTANTS
    b1 = b1
    b2 = b2
    f1 = f1
    f2 = f2
    k1 = k1
    k2 = k2
    k3 = k3
    k4 = k4
    Builds = {b1, b2}
    Findings = {f1, f2}
    Runs = {r1, r2}
    Cids = {k1, k2, k3, k4}
    Written <- MCWritten
    OwnerWrites <- MCOwnerWrites
    SourceOf <- MCSourceOf
    MaxMain = 1
    Preserved <- MCPreserved
    Exclusive = FALSE
    None = None
SYMMETRY Symmetry
INVARIANTS
    TypeOK
    EvidenceIsAuthorised
    ManifestBindsSbom
    OneRunPerToken
PROPERTIES
    ImplementsOneUse
