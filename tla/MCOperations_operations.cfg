SPECIFICATION Spec
CONSTANTS
    none = none
    r1 = r1
    r2 = r2
    r3 = r3
    a = a
    b = b
CHECK_DEADLOCK FALSE
INVARIANTS
    HostedIsWhole
    
PROPERTIES
    
    LoginsWork
    SchemaIsOnce
SYMMETRY Symmetry
