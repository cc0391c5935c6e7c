SPECIFICATION EitherSpec
CONSTANTS
    w1 = w1
    w2 = w2
    w3 = w3
    p1 = p1
    p2 = p2
    Packages = {p1, p2}
    Top = p1
    None = None
    Workers = {w1, w2}
    Queries = {"recovery", "plan", "search", "availability", "memory"}
CHECK_DEADLOCK FALSE
SYMMETRY Symmetry
INVARIANTS
    SavedPlanStands
    BookedFromSavedIntent
PROPERTIES
    PromiseSpec
    OwnerDecides
