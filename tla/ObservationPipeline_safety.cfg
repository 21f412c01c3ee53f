SPECIFICATION Spec
CONSTANTS
    Events = {e1}
    Contents = {c1, c2}
    Mids = {m1, m2}
    RawForms = {r1, r2}
    Handlers = {h1, h2}
    None = None
    Others <- AllMessages
SYMMETRY Symmetry
INVARIANTS
    TypeOK
    AckedIsDurable
    SameBytesReconcile
    ReceiptRefusedOnlyForConflict
PROPERTIES
    AnswersNeverChange
    ImplementsLedger
