CONSTANTS
    r1 = r1
    w1 = w1
    w2 = w2
    Readers <- MCReaders
    Workers <- MCWorkers
    MaxEnqueues = 2
    MaxAhead = 1
    MaxEntries = 1
    MaxErrors = 3
SPECIFICATION ReportSpec
SYMMETRY Symmetric
INVARIANTS
    TypeOK
    LogBounded
    NewestKept
    FailuresLogged
    ToldIsLogged
PROPERTIES
    SuccessIsSafe
    AnswerWasTrue
CHECK_DEADLOCK FALSE
