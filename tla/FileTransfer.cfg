CONSTANTS
    s1 = s1
    s2 = s2
    Senders = {s1, s2}
    Size <- TwoFiles
    Block = 1
    OldContent = TRUE
    MayFail = TRUE
SPECIFICATION Spec
INVARIANT TypeOK
INVARIANT QueueCountsThreads
INVARIANT FilesAreSeparate
INVARIANT SentInOrder
PROPERTY TakesTurns
CHECK_DEADLOCK FALSE
