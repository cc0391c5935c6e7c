SPECIFICATION Spec
CONSTANTS
    NoPackage = NoPackage
    Nobody = Nobody
    x1 = x1
    x2 = x2
    c1 = c1
    c2 = c2
    t1 = t1
    t2 = t2
    p1 = p1
    p2 = p2
CHECK_DEADLOCK FALSE
INVARIANTS
    TurnIsTold
    HistoryIsClosed
    StreamIsWhole
    ScopeIsKept
    SearchIsOfOneMoment
    PageIsHonest
PROPERTIES
    MemoryIsTheTravelers
    CheckpointsAreWhole
    SessionIsKept
SYMMETRY Symmetry
