CONSTANTS
    s1 = s1
    s2 = s2
    Senders = {s1, s2}
    Size <- ShortFiles
    Block = 1
    OldContent = TRUE
    MayFail = TRUE
SPECIFICATION FairSpec
PROPERTY EverySenderIsServed
CHECK_DEADLOCK FALSE
