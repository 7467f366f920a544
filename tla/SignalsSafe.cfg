SPECIFICATION Spec
CONSTANTS
    t1 = t1
    t2 = t2
    kill = kill
    stop = stop
    cont = cont
    usr = usr
    rt = rt
    Threads = {t1}
    Sigs = {kill, stop, cont, usr, rt}
    RealTime = {rt}
    Kill = kill
    Stop = stop
    Cont = cont
    Ignored = {cont}
    Masks <- MasksUsr
    Actions <- ActionsMixed
    Directed <- DirectedOne
    Calls = {"sigaction", "sigprocmask", "sigsuspend", "ppoll", "read", "sigtimedwait", "overflow"}
    MaxSends = 3
    NoMask = NoMask
CHECK_DEADLOCK FALSE
INVARIANTS TypeOK QueueHasBits RealTimeKept MaskKept UnblockableInHandlerOnly
