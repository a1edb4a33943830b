CONSTANTS
    c1 = c1
    c2 = c2
    Conns = {c1, c2}
    FdLimit = 1
    MayInherit = {}
    Timeout = 1
    MaxTime = 2
    MaxChunks = 1
    CallsMayFail = FALSE
SPECIFICATION Spec
PROPERTY ReapedWereIdle
CHECK_DEADLOCK FALSE
