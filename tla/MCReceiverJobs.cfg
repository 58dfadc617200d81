CONSTANTS
    j1 = j1
    j2 = j2
    j3 = j3
    Job <- TwoJobs
    KeyOf <- DistinctKeys
    Bodies <- PairedOnly
    NoJob = NoJob
    MaxPosts = 6
    CrashAllowed = FALSE
    LateAllowed = FALSE
SPECIFICATION FairSpec
INVARIANT StaysUp
PROPERTY RequestsAreServed
PROPERTY EndIsStored
CHECK_DEADLOCK FALSE
