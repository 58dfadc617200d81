CONSTANTS
    t1 = t1
    t2 = t2
    p1 = p1
    p2 = p2
    a = a
    b = b
    c = c
    x = x
    y = y
    NoCall = NoCall
    Thread <- TwoThreads
    Proc <- TwoProcesses
    ProcOf <- OneEach
    Born <- TwoProcesses
    IdOf <- TwoIds
    Path <- ThreePaths
    Original <- TwoPaths
    Kinds <- AllKinds
    FailAllowed = TRUE
    RelativeAllowed = TRUE
    MaxCalls = 3
SYMMETRY Alike
SPECIFICATION Spec
INVARIANT OperationsAreFound
INVARIANT OperationsAreTrue
INVARIANT RenamesAreTraced
INVARIANT ChecksumsAreTrue
CHECK_DEADLOCK FALSE
