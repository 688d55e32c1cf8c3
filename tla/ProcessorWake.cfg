CONSTANTS
    Procs = {p1}
    Tasks = {a}
    Wakers = {timer}
    NoTask = NoTask
    NoProc = NoProc
    NoRef = NoRef
    MaxSuspends = 2
    MaxList = 2
SPECIFICATION Spec
PROPERTIES WokenTaskRuns
