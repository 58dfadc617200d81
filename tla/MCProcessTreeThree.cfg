CONSTANTS
    q0 = q0
    q1 = q1
    q2 = q2
    sh = sh
    x = x
    y = y
    Outside = Outside
    Pid <- ThreePids
    Root = q0
    Id <- ThreePrograms
    RootId = sh
    Thresholds <- SmallThresholds
    KillAllowed = FALSE
    SetenvAllowed = FALSE
    VforkAllowed = TRUE
    EveryOrder = TRUE
    MaxEvents = 4
SYMMETRY Alike
SPECIFICATION Spec
INVARIANT PairsAreTrue
INVARIANT ExecsAreFound
CHECK_DEADLOCK FALSE
