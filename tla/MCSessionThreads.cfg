SPECIFICATION Spec
CONSTANTS
    Threads = {t1, t2}
    Identifiers = {chrome, safari}
    Default = chrome
    Own = own
    LibraryAbi = 3
    MaxOps = 3
    None = None
    Nobody = Nobody
CHECK_DEADLOCK FALSE
INVARIANTS
    TypeOK
    FreshSnapshot
    PairedHeaders
    CallsSound
PROPERTY
    OperationsEnd
