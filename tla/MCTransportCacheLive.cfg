SPECIFICATION FairSpec
CONSTANTS
    Goroutines = {g1, g2}
    Addrs = {a1}
    Copies = {c1, c2, c3}
    Kinds = {"h1","h2","h3"}
    Schemes = {"https","other"}
    MaxMoves = 2
    None = None
PROPERTY
    RequestsReturn
    Settles
