CONSTANTS
    a = a
    b = b
    Tasks = {a, b}
    Expired = Expired
    Ops <- MCOps
    AddMayFail = TRUE
    MaxOpens = 2
SPECIFICATION LiveSpec
INVARIANTS TypeOK InterestIsExact NoLostEvent NoFalseTimeout NoStrandedWaiter
PROPERTIES EventWakes
CHECK_DEADLOCK FALSE
