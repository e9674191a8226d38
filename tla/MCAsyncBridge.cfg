SPECIFICATION FairSpec
CONSTANTS
    Reqs = {r1, r2}
    Owned = {r1}
CHECK_DEADLOCK FALSE
INVARIANTS
    TypeOK
    NoLostFuture
    RescueArmed
    FreedOnceWhileOpen
    NoLeak
PROPERTIES
    KeepsPromise
    RegistryDrains
