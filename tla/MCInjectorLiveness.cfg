CONSTANTS
    p1 = p1
    p2 = p2
    t1 = t1
    t2 = t2
    Proc <- TwoProcs
    Root = p1
    Thread <- TwoThreads
    Main = t1
    OpKinds = {"RENAME", "TRANSFER"}
    Free = Free
    Orphan = Orphan
    MaxClock = 2
    KillAllowed = FALSE
    SaveMayFail = FALSE
SPECIFICATION FairSpec
PROPERTY CallsReturn
CHECK_DEADLOCK FALSE
