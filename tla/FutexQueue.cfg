SPECIFICATION Spec
CONSTANTS
    t1 = t1
    t2 = t2
    t3 = t3
    a1 = a1
    a2 = a2
    Tasks = {t1, t2, t3}
    Addrs = {a1, a2}
    Values = {0, 1}
    Counts = {1}
    Calls <- CallsQueue
    StallMax = 1
    Unmapped = Unmapped
    NoTask = NoTask
    NoFutex = NoFutex
SYMMETRY Alike
CHECK_DEADLOCK FALSE
INVARIANTS RefcountExact QueueConsistent WakeByteExact
PROPERTIES ContractHolds
