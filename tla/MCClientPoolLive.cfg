SPECIFICATION FairSpec
CONSTANTS
    Threads = {t1, t2}
    Keys = {k1}
    Caps = {1}
    TTLs = {2}
    DefaultCap = 2
    DefaultTTL = 1
    MaxClock = 2
    MaxBuilds = 1
CHECK_DEADLOCK FALSE
PROPERTIES
    RequestsReturn
    IdleReclaimed
