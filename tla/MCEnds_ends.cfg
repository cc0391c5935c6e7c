SPECIFICATION Spec
CHECK_DEADLOCK FALSE
PROPERTIES
    TurnsEnd
    OperatorFinishes
    EveryWaitEnds
    PageCatchesUp
