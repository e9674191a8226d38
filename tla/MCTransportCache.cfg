SPECIFICATION Spec
CONSTANTS
    Goroutines = {g1, g2}
    Addrs = {a1}
    Copies = {c1, c2, c3}
    Kinds = {"h1", "h2"}
    Schemes = {"http", "https"}
    MaxMoves = 2
    None = None
SYMMETRY Perms
INVARIANTS
    TypeOK
    NoPanic
    StashFits
    KindsHonest
PROPERTY
    MixupOnlyStale
