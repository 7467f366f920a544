------------------------------- MODULE MCTimer -------------------------------
\* Instances of Timer for TLC.
EXTENDS Timer, TLC

CONSTANTS u1, u2,   \* threads of the parent
    fd, it, px,     \* a timerfd, the itimer and a POSIX timer of the parent
    cx,             \* the child's copy of px
    t1, w1      \* memory for one timer, and its host thread

Threads == u1 :> Parent @@ u2 :> Parent
KindAll == fd :> "timerfd" @@ it :> "itimer" @@ px :> "posix" @@ cx :> "posix"
HomeAll == fd :> Parent @@ it :> Parent @@ px :> Parent @@ cx :> Child
OriginalAll == fd :> fd @@ it :> it @@ px :> px @@ cx :> px
ValuesAll == {-1, 0, 1}
=============================================================================
