CONSTANTS
    j1 = j1
    j2 = j2
    j3 = j3
    Job <- ThreeJobs
    KeyOf <- SharedKey
    Bodies <- BothBodies
    NoJob = NoJob
    MaxPosts = 5
    CrashAllowed = TRUE
    LateAllowed = TRUE
SPECIFICATION Spec
INVARIANT TypeOK
INVARIANT ExecIsWhole
INVARIANT OperationsBelong
PROPERTY RefinesJobStore
CHECK_DEADLOCK FALSE
