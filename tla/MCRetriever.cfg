CONSTANTS
    e1 = e1
    e2 = e2
    i1 = i1
    i2 = i2
    a = a
    b = b
    below = below
    bare = bare
    c1 = c1
    c2 = c2
    Exec <- TwoExecs
    Id <- TwoIds
    Path <- Paths
    Root <- UnderRoot
    Above <- Tree
    Bare <- Named
    ByText <- TwoContents
    FirstContent <- OneFile
    Kinds <- AllKinds
    MaxCalls = 3
SYMMETRY Alike
VIEW View
SPECIFICATION Spec
INVARIANT TypeOK
INVARIANT RebuiltIsTrue
INVARIANT RestoredIsTrue
INVARIANT RetrieverDiesOfOthers
CHECK_DEADLOCK FALSE
