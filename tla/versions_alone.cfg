CONSTANTS
    t1 = t1
    t2 = t2
    NoVersion = NoVersion
    Threads <- MCThreads
    Versions <- MCVersions
    Supported <- MCSupported
    First <- MCFirst
    MaxReloads = 3
SPECIFICATION Spec
SYMMETRY Symmetric
INVARIANTS
    TypeOK
    AloneRepairs
CHECK_DEADLOCK FALSE
