SPECIFICATION Spec
CONSTANTS
    Old = Old
    New = New
    Observers = {o1}
    Executors = {e1, e2}
    Recoveries = {r1, r2}
    Serial0 = 0
    MaxSerial = 1
    MaxHead = 2
    MaxGeneration = 2
    MaxAttempt = 2
    MaxClock = 1
    Smooth <- MCSmooth
    Limit <- MCLimit
    None = None
SYMMETRY Symmetry
CHECK_DEADLOCK FALSE
INVARIANTS
    TypeOK
    AttemptsInOrder
    EffectIsAuthorised
    DispatchMeansEffect
PROPERTIES
    SettledEffect
    ImplementsOneUse
