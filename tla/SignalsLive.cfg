SPECIFICATION FairSpec
CONSTANTS
    t1 = t1
    t2 = t2
    kill = kill
    stop = stop
    cont = cont
    usr = usr
    rt = rt
    Threads = {t1, t2}
    Sigs = {kill, stop, cont, usr, rt}
    RealTime = {rt}
    Kill = kill
    Stop = stop
    Cont = cont
    Ignored = {cont}
    Masks <- MasksRt
    Actions <- ActionsIgnore
    Directed <- DirectedTwo
    Calls = {"sigaction", "sigsuspend", "pause"}
    MaxSends = 3
    NoMask = NoMask
CHECK_DEADLOCK FALSE
PROPERTIES KillEnds SignalTaken
