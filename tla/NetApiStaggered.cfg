CONSTANTS
    c1 = c1
    c2 = c2
    c3 = c3
    n1 = n1
    n2 = n2
    Clients = {c1, c2, c3}
    Names = {n1, n2}
    NameOf <- MCNameOf
    ServerName = server1
    BadFd = BadFd
    ShortReads = FALSE
    Window = 4
    MaxListenQueue = 2
    MaxAcceptErrors = 1
    MaxThreadErrors = 0
    StartupMayFail = TRUE
    MayExit = TRUE
    MaxSend <- FirstSendsTwo
    Staggered = TRUE
SPECIFICATION Spec
INVARIANT RegisteredRight
INVARIANT ReachesAddressee
INVARIANT EveryConnectionServed
INVARIANT FirstRegistrationWins
INVARIANT CrashCauses
PROPERTY ImplementsMailbox
CHECK_DEADLOCK FALSE
