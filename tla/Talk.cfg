CONSTANTS
    chatchit = chatchit
    chitchat = chitchat
    Peers = {chatchit, chitchat}
    Other <- TheOther
    Cap = 3
    Widths <- SomeWidths
    MaxLines <- SomeLines
    MayFail = TRUE
    MayQuit = TRUE
SPECIFICATION FairSpec
INVARIANT TypeOK
INVARIANT SaidInOrder
INVARIANT NeverOlder
INVARIANT FitsBuffer
INVARIANT DeathCauses
PROPERTY LinkForms
PROPERTY LinesArrive
CHECK_DEADLOCK FALSE
