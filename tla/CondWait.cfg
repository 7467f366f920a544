SPECIFICATION FairSpec
CONSTANTS
    w1 = w1
    w2 = w2
    s1 = s1
    s2 = s2
    Waiters = {w1, w2}
    Senders = {s1, s2}
    Kind <- KindPair
    Timed <- TimedSecond
    HoldsPids <- HoldsSome
    Nobody = Nobody
INVARIANTS NoMissedSignal NoMissedEvent
PROPERTY SignalInterrupts
