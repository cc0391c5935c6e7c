SPECIFICATION PausedSpec
CONSTANTS
    w1 = w1
    w2 = w2
    w3 = w3
    p1 = p1
    p2 = p2
    Packages = {p1}
    Top = p1
    None = None
    Workers = {w1, w2}
    Queries = {"recovery"}
CHECK_DEADLOCK FALSE
PROPERTY
    ReleasesOwnHold
SYMMETRY Symmetry
