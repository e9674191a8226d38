SPECIFICATION Spec
CONSTANTS
    Threads = {t1, t2}
    Keys = {k1, k2}
    Caps <- AllCaps
    TTLs = {}
    DefaultCap = 2
    DefaultTTL = 1
    MaxClock = 2
    MaxBuilds = 2
SYMMETRY Perms
CHECK_DEADLOCK FALSE
INVARIANTS
    TypeOK
    NoOverwrite
    CountExact
    Conservation
    CapRespected
PROPERTY
    InsertSurvives
