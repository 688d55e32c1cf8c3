CONSTANTS
    Ids = {t1, t2}
    NoId = NoId
    MaxTime = 1
    LoopInterval = 2
SPECIFICATION Spec
INVARIANTS TypeOK NoOversleep InvokeMutexOwner
PROPERTIES CanceledNeverStarts TimerLeavesSet CancelReturns StopReturns
