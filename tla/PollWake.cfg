CONSTANTS
    a = a
    b = b
    e = e
    h = h
    p = p
    Tasks = {a, b}
    Descs = {e, h, p}
    Kind <- KindAll
    Regs <- RegsAll
    Modes <- ModesSome
    Batch = 1
    PipeMax = 1
    MaxRegs = 2
    ValveArmed = TRUE
    Nobody = Nobody
SPECIFICATION Spec
SYMMETRY Interchangeable
INVARIANTS PipeExact EdgeKept NoSleepThrough VisitsExist
CHECK_DEADLOCK FALSE
