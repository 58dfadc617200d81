CONSTANTS
    e1 = e1
    e2 = e2
    k1 = k1
    End = End
    Shell = Shell
    Exec <- TwoExecs
    ChildrenOf <- OneChild
SPECIFICATION Spec
INVARIANT TypeOK
INVARIANT EventsAreTheCommands
INVARIANT ExitedIsAccounted
INVARIANT DisturbedByOutliving
INVARIANT DiesOfOthers
CHECK_DEADLOCK FALSE
