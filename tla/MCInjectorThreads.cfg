CONSTANTS
    p1 = p1
    p2 = p2
    t1 = t1
    t2 = t2
    Proc <- OneProc
    Root = p1
    Thread <- TwoThreads
    Main = t1
    OpKinds = {"READ"}
    Free = Free
    Orphan = Orphan
    MaxClock = 3
    KillAllowed = TRUE
    SaveMayFail = TRUE
SPECIFICATION Spec
INVARIANT TypeOK
INVARIANT FlushCoversOwnEvents
INVARIANT QueueKeepsThreadOrder
PROPERTY SavedStaySaved
CHECK_DEADLOCK FALSE
