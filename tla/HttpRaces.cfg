CONSTANTS
    c1 = c1
    c2 = c2
    Conns = {c1, c2}
    FdLimit = 2
    MayInherit = {1}
    Timeout = 1
    MaxTime = 1
    MaxChunks = 1
    CallsMayFail = TRUE
SPECIFICATION FairSpec
INVARIANT TableConsistent
INVARIANT EventsAreFresh
INVARIANT CrashCauses
INVARIANT AnswersRequests
PROPERTY RequestsAreHandled
PROPERTY IdleAreReaped
CHECK_DEADLOCK FALSE
