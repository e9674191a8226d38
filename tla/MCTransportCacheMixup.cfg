SPECIFICATION Spec
CONSTANTS
    Goroutines = {g1, g2}
    Addrs = {a1}
    Copies = {c1, c2}
    Kinds = {"h1", "h2"}
    Schemes = {"https"}
    MaxMoves = 1
    None = None
INVARIANTS
    NoMixup
