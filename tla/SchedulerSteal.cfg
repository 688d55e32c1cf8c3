CONSTANTS
    Procs = {0, 1}
    Tasks = {a}
    Wakers = {timer}
    NoTask = NoTask
    NoProc = NoProc
    NoRef = NoRef
    MaxSuspends = 2
    MaxList = 2
    SizeMax = 1073741824
    MaxRounds = 1
    MaxCalls = 1
SPECIFICATION WakeSpec
INVARIANTS SuspendAsserts
