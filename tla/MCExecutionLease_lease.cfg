\* Requests end, so the system may stop.
SPECIFICATION Spec
CHECK_DEADLOCK FALSE
CONSTANTS
    Runs = {r1, r2}
    Stops = {s1, s2}
    r1 = r1
    r2 = r2
    s1 = s1
    s2 = s2
    None = None
    LeaseTicks = 1
    MaxTime = 1
    Steps = 1
    MaxSnapshots = 2
SYMMETRY Symmetry
INVARIANTS
    IInv
    OneRunning
    StopOnce
    ProgressKept
PROPERTIES
    SnapshotsByOwner
    StoppedWritesNothing
    LogSpec
