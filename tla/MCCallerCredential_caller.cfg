SPECIFICATION Spec
CONSTANTS
    Turns = {t1, t2}
    ann = ann
    ben = ben
    eve = eve
    People = {ann, ben, eve}
    Bindings <- BoundTravelers
    Travelers = {"v", "w"}
    ApiTraveler = "v"
    Kinds = {"concierge", "workflow"}
    Designs = {"cedar", "interceptor"}
    Lifetime = 2
    Skew = 1
    Margin = 1
    MaxTime = 3
    MaxCalls = 1
    MaxConflicts = 1
CHECK_DEADLOCK FALSE
CONSTRAINT Bounded
SYMMETRY Symmetry
INVARIANTS
    ActsForItsCaller
    ExpiredConciergeWroteNothing
    TokenStaysWithItsRequest
PROPERTIES
    OutlivedSendsNothing
