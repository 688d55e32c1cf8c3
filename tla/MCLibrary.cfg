SPECIFICATION Spec
CONSTANTS
    Producers = {p1, p2}
    NoProducer = NoProducer
    NoBuffer = NoBuffer
    Capacity = 3
    Sizes = {1, 2, 4}
    MaxLines = 4
    Values = {0, 1, 2}
    InitialValue = 0
    Setters = {t1, t2}
    Listeners = {l1, l2}
    NoKey = NoKey
    NoValue = NoValue
    MaxSets = 2
    MaxKey = 2
    BlockSize = 3
    NoByte = NoByte
    NoNode = NoNode
    MaxSize = 7
    MaxBytes = 9
INVARIANTS LibraryTypeOK BuffersKept ToldOfValue ReadBack
PROPERTIES LogKeepsPromise
CHECK_DEADLOCK FALSE
