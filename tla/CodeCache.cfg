CONSTANTS
    t1 = t1
    t2 = t2
    p1 = p1
    q1 = q1
    x = x
    y = y
    b1 = b1
    b2 = b2
    Tasks = {t1, t2}
    Pages = {p1, q1}
    Written = {q1}
    Private = {q1}
    Addrs = {x, y}
    First <- FirstPage
    Last <- LastPage
    Succ <- Loops
    Blocks = {b1, b2}
    None = None
SPECIFICATION Spec
INVARIANTS NoFreedRun ChainsLive NoWritableOnCode VerifiedWhole
SYMMETRY Interchangeable
CHECK_DEADLOCK FALSE
