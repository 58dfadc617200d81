CONSTANTS
    t1 = t1
    t2 = t2
    p1 = p1
    p2 = p2
    a = a
    b = b
    c = c
    x = x
    y = y
    NoCall = NoCall
    Thread <- TwoThreads
    Proc <- TwoProcesses
    ProcOf <- BothOfOne
    Born <- OneProcess
    IdOf <- OneId
    Path <- ThreePaths
    Original <- FirstPath
    Kinds <- ReadWrite
    FailAllowed = FALSE
    RelativeAllowed = FALSE
    MaxCalls = 3
SPECIFICATION Spec
INVARIANT ProcessesAreNamed
INVARIANT OperationsAreFound
CHECK_DEADLOCK FALSE
