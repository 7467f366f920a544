SPECIFICATION FairSpec
CONSTANTS
    u1 = u1
    u2 = u2
    fd = fd
    it = it
    px = px
    cx = cx
    t1 = t1
    w1 = w1
    Users = {u1, u2}
    GroupOf <- Threads
    Parent = Parent
    Child = Child
    Slots = {fd, it, px, cx}
    Kind <- KindAll
    Home <- HomeAll
    Original <- OriginalAll
    Timers = {t1}
    Workers = {w1}
    Values <- ValuesAll
    Intervals = {0, 1}
    Horizon = 2
    Pids = Pids
    Poll = Poll
    Nobody = Nobody
    Lost = Lost
    None = None
CHECK_DEADLOCK FALSE
INVARIANTS NoUseAfterFree NotEarly
PROPERTIES ArmedFires FreedInTheEnd
