SPECIFICATION Spec
CONSTANTS
    Threads = {t1}
    MaxWs = 1
    MaxConns = 1
INVARIANTS
    CloseReachesSocket
