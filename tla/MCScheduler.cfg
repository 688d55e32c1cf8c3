CONSTANTS
    Procs = {0, 1}
    Tasks = {a, b}
    Wakers = {}
    NoTask = NoTask
    NoProc = NoProc
    NoRef = NoRef
    MaxSuspends = 0
    MaxList = 2
    SizeMax = 1073741824
    MaxRounds = 2
    MaxCalls = 2
VIEW View
SYMMETRY Symmetry
SPECIFICATION SchedSpec
INVARIANTS SchedTypeOK SchedOneOwner NoLostAdd NoGiveToBlocked RestIsSmall CountCovers
