CONSTANTS
    s1 = s1
    s2 = s2
    Senders = {s1}
    Size <- OneFile
    Block = 2
    OldContent = TRUE
    MayFail = FALSE
SPECIFICATION Spec
INVARIANT SuccessMeansComplete
CHECK_DEADLOCK FALSE
