CONSTANTS
    q0 = q0
    q1 = q1
    q2 = q2
    sh = sh
    x = x
    y = y
    Outside = Outside
    Pid <- TwoPids
    Root = q0
    Id <- TwoPrograms
    RootId = sh
    Thresholds <- NoThresholds
    KillAllowed = TRUE
    SetenvAllowed = TRUE
    VforkAllowed = TRUE
    EveryOrder = FALSE
    MaxEvents = 4
SPECIFICATION Spec
INVARIANT PairsAreTrue
INVARIANT PopsArePushed
INVARIANT ExecsAreFound
CHECK_DEADLOCK FALSE
