SPECIFICATION Spec
CONSTANTS
    Tasks = {1, 2, 3, 4}
    InitTask = 1
    Codes = {7}
    Kinds = {"thread", "fork", "vfork"}
    Makers = {1, 2, 3, 4}
    Ignoring = {}
    Blocking = FALSE
    ValveFires = FALSE
    NoTask = 0
CHECK_DEADLOCK FALSE
INVARIANTS GroupSound NoOrphan MmRefsExact NoDangling NoSleepBesideZombie
