CONSTANTS
    b1 = b1
    b2 = b2
    d1 = d1
    NoBuild = NoBuild
    Builds <- MCBuilds
    Dirs <- MCDirs
    DirOf <- MCDirOf
    Together = FALSE
SPECIFICATION FairSpec
INVARIANTS
    TypeOK
    DoneStored
    ContainersRemoved
    FailureStands
PROPERTY
    TimeLimited
CHECK_DEADLOCK FALSE
