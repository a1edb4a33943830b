CONSTANTS
    s1 = s1
    s2 = s2
    nobody = nobody
    Senders <- TwoSenders
    None <- nobody
    MSG_AMOUNT = 3
    Size = 3
    Window = 4
    MayFail = TRUE
    MayQuit = TRUE
SPECIFICATION FairSpec
INVARIANT CountsEnough
INVARIANT DeathCauses
PROPERTY AcceptedIsCounted
CHECK_DEADLOCK FALSE
