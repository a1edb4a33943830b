CONSTANTS
    p1 = p1
    p2 = p2
    p3 = p3
    minusOne = minusOne
    Pids <- ThreePids
    Failed <- minusOne
SPECIFICATION FairSpec
INVARIANT NoneForgotten
INVARIANT ZombiesAnnounced
PROPERTY KillsItsOwn
PROPERTY ChildrenEnd
