\* Calls end, so the system may stop.
SPECIFICATION Spec
CHECK_DEADLOCK FALSE
CONSTANTS
    Creates = {c1, c2, c3}
    Confirms = {x1}
    Releases = {y1}
    Journeys = {j1, j2}
    c1 = c1
    c2 = c2
    c3 = c3
    x1 = x1
    y1 = y1
    j1 = j1
    j2 = j2
    None = None
    Capacity = 2
    MaxParty = 1
    HoldTicks = 1
    MaxTime = 2
    MaxChain = 2
SYMMETRY Symmetry
INVARIANTS
    WithinCapacity
    OneLiveBooking
    WorkflowBooksOnce
    IInv
PROPERTIES
    SettledOnce
