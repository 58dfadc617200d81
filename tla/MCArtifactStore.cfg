CONSTANTS
    p1 = p1
    p2 = p2
    f1 = f1
    f2 = f2
    c1 = c1
    c2 = c2
    Absent = Absent
    Partial = Partial
    Prov <- TwoProvs
    File <- TwoFiles
    RootOf <- Nested
    Content <- TwoContents
    FirstContent <- SameContents
    MaxChanges = 2
    KillAllowed = TRUE
    BusyAllowed = TRUE
SPECIFICATION Spec
INVARIANT TypeOK
INVARIANT RecordedIsKept
INVARIANT ArtifactsAreTrue
INVARIANT WrittenIsKept
PROPERTY SettledStays
PROPERTY RecordedIsStored
CHECK_DEADLOCK FALSE
