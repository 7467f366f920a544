----------------------------- MODULE MCCodeCache -----------------------------
\* Instances of CodeCache for TLC.
EXTENDS CodeCache, TLC

CONSTANTS t1, t2,   \* threads
    p1, q1,         \* pages
    x, y,           \* a block within q1, and one from p1 into q1
    b1, b2          \* blocks

FirstPage == x :> q1 @@ y :> p1
LastPage == x :> q1 @@ y :> q1
Loops == x :> y @@ y :> x
Interchangeable == Permutations(Tasks) \cup Permutations(Blocks)
=============================================================================
