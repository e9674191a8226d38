SPECIFICATION FairSpec
CONSTANTS
    Threads = {t1, t2}
    MaxWs = 2
    MaxConns = 2
INVARIANTS
    TypeOK
    RegisteredIsOpen
    LostOnlyByNamesake
    ReleasedOnlyByNamesake
PROPERTY
    CloseWakesReader
