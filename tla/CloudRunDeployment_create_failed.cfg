SPECIFICATION Spec
CONSTANTS
    create = create
    update = update
    i1 = i1
    i2 = i2
    k1 = k1
    k2 = k2
    k3 = k3
    k4 = k4
    Releases = {create, update}
    Envelope <- MCEnvelope
    Images = {i1, i2}
    Runs = {r1}
    Cids = {k1, k2, k3, k4}
    Written <- MCWritten
    OwnerWrites <- NothingMore
    MaxRevision = 0
    None = None
CHECK_DEADLOCK FALSE
INVARIANTS
    CreateFailureIsKnown
