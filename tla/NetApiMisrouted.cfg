CONSTANTS
    c1 = c1
    c2 = c2
    c3 = c3
    n1 = n1
    n2 = n2
    Clients = {c1, c2}
    Names = {n1, n2}
    NameOf <- MCNameOf
    ServerName = server1
    BadFd = BadFd
    ShortReads = FALSE
    Window = 4
    MaxListenQueue = 2
    MaxAcceptErrors = 0
    MaxThreadErrors = 0
    StartupMayFail = FALSE
    MayExit = FALSE
    MaxSend <- SendTwo
    Staggered = FALSE
SPECIFICATION Spec
INVARIANT ReachesAddressee
CHECK_DEADLOCK FALSE
