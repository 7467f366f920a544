SPECIFICATION FairSpec
CONSTANTS
    t1 = t1
    t2 = t2
    t3 = t3
    a1 = a1
    a2 = a2
    Tasks = {t1, t2}
    Addrs = {a1}
    Values = {0, 1}
    Counts = {1}
    Calls <- CallsLive
    StallMax = 1
    Unmapped = Unmapped
    NoTask = NoTask
    NoFutex = NoFutex
CHECK_DEADLOCK FALSE
PROPERTIES WaiterReleased ChangedWordNoticed StallBroken
