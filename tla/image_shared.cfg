CONSTANTS
    b1 = b1
    b2 = b2
    d1 = d1
    NoBuild = NoBuild
    Builds <- MCBuilds
    Dirs <- MCDirs
    DirOf <- MCDirOf
    Together = TRUE
SPECIFICATION Spec
INVARIANTS
    NotAffected
CHECK_DEADLOCK FALSE
