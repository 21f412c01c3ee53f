SPECIFICATION Spec
CONSTANTS
    BuildRuns = {b1, b2, b3}
    EvidenceRuns = {e1, e2}
    Commits = {1, 2}
    FirstCommit = 1
    MaxFindings = 2
    None = None
SYMMETRY Symmetry
CHECK_DEADLOCK FALSE
INVARIANTS
    TypeOK
    OneBuild
    OneRelease
