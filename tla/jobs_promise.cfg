CONSTANTS
    t1 = t1
    t2 = t2
    w1 = w1
    w2 = w2
    a = a
    b = b
    NoId = NoId
    Ids <- MCTwoIds
    Threads <- MCThreads
    Workers <- MCWorkers
    MaxPending = 0
    MaxPosts = 3
    MaxCrashes = 1
SPECIFICATION FairSpec
PROPERTIES
    RequestsSettle
    KeepsPromise
CHECK_DEADLOCK FALSE
