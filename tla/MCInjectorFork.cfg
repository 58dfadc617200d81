CONSTANTS
    p1 = p1
    p2 = p2
    t1 = t1
    t2 = t2
    Proc <- TwoProcs
    Root = p1
    Thread <- OneThread
    Main = t1
    OpKinds = {"WRITE", "UNLINK"}
    Free = Free
    Orphan = Orphan
    MaxClock = 4
    KillAllowed = TRUE
    SaveMayFail = TRUE
SPECIFICATION Spec
INVARIANT FilesAreSegments
INVARIANT ExitedIsComplete
CHECK_DEADLOCK FALSE
