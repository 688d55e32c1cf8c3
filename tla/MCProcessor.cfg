CONSTANTS
    Procs = {p1, p2}
    Tasks = {a, b}
    Wakers = {timer, reactor}
    NoTask = NoTask
    NoProc = NoProc
    NoRef = NoRef
    MaxSuspends = 2
    MaxList = 2
SYMMETRY Symmetry
SPECIFICATION Spec
INVARIANTS TypeOK OneOwner FreshWakeUp NoLostAdd NextTaskKept
