SPECIFICATION Spec
CONSTANTS
    a = a
    b = b
    T1 = T1
    T2 = T2
    d1 = d1
    d2 = d2
    f1 = f1
    Tasks = {a, b}
    Tables = {T1, T2}
    Descs = {d1, d2}
    Files = {f1}
    File <- FileTwo
    Limit = 2
    MaxAccidents = 1
    NoDesc = NoDesc
    NoTable = NoTable
    NoFile = NoFile
SYMMETRY Alike
CHECK_DEADLOCK FALSE
INVARIANTS RefsExact LocksOwned CloexecOpen
