CONSTANTS
    t1 = t1
    t2 = t2
    Threads <- MCThreads
    Targets <- MCTargets
    Names <- MCNames
    Generic = "generic"
    MapsOf <- MCMapsOf
    NoTarget = "none"
    MaxChanges = 1
SPECIFICATION Spec
SYMMETRY Symmetric
INVARIANTS
    TypeOK
    AcceptedWasOffered
    ServedInCalm
CHECK_DEADLOCK FALSE
