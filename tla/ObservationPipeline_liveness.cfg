SPECIFICATION FairSpec
CONSTANTS
    Events = {e1}
    Contents = {c1, c2}
    Mids = {m1, m2}
    RawForms = {r1}
    Handlers = {h1}
    None = None
    Others <- OneMalformed
PROPERTIES
    EveryMessageSettles
