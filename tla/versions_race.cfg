CONSTANTS
    t1 = t1
    t2 = t2
    NoVersion = NoVersion
    Threads <- MCThreads
    Versions <- MCVersions
    Supported <- MCSupported
    First <- MCFirst
    MaxReloads = 2
SPECIFICATION Spec
INVARIANTS
    NoRaceConditions
CHECK_DEADLOCK FALSE
