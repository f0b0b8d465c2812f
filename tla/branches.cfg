CONSTANTS
    t1 = t1
    t2 = t2
    Threads <- MCThreads
    BranchSeq <- MCBranchSeq
    VersionSeq <- MCVersionSeq
    BranchOf <- MCBranchOf
    NoVersion = "none"
    Repeats = 2
SPECIFICATION Spec
SYMMETRY Symmetric
INVARIANTS
    TypeOK
    AloneComplete
    CopiesBounded
