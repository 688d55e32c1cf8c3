CONSTANTS
    Ids = {t1, t2}
    NoId = NoId
    MaxTime = 1
    LoopInterval = 2
SPECIFICATION TestSpec
PROPERTIES EveryTimerFires
