SPECIFICATION Spec
CONSTANTS
    Turns = {t1}
    ann = ann
    ben = ben
    eve = eve
    People = {ann, ben, eve}
    Bindings <- BoundTravelers
    Travelers = {"v", "w"}
    ApiTraveler = "v"
    Kinds = {"concierge", "workflow"}
    Designs = {"both"}
    Lifetime = 3
    Skew = 1
    Margin = 1
    MaxTime = 4
    MaxCalls = 2
    MaxConflicts = 1
CHECK_DEADLOCK FALSE
INVARIANTS
    TurnKeepsItsCaller
