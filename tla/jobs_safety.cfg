CONSTANTS
    t1 = t1
    t2 = t2
    w1 = w1
    w2 = w2
    a = a
    b = b
    NoId = NoId
    Ids <- MCTwoIds
    Threads <- MCThreads
    Workers <- MCWorkers
    MaxPending = 1
    MaxPosts = 4
    MaxCrashes = 1
SPECIFICATION StatsSpec
SYMMETRY Symmetric
INVARIANTS
    StatsTypeOK
    QueueBounded
    JobOwned
    SingleCopy
    StatusAgrees
    BuildsAccounted
    LookupsAccounted
PROPERTIES
    ImagesKept
CHECK_DEADLOCK FALSE
