SPECIFICATION Spec
CONSTANTS
    None = None
    w1 = w1
    w2 = w2
    w3 = w3
    p1 = p1
    p2 = p2
CHECK_DEADLOCK FALSE
PROPERTIES
    RunsEnd
    CallsEnd
