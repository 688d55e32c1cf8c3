CONSTANTS
    a = a
    b = b
    Tasks = {a, b}
    Expired = Expired
    Ops <- MCOps
    AddMayFail = FALSE
    MaxOpens = 1
SPECIFICATION Spec
INVARIANTS NoThreadBlocks
CHECK_DEADLOCK FALSE
