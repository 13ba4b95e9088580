CONSTANTS
    Threads = {t1, t2, t3}
    NoThread = NoThread
    MaxCount = 2
    InitCount = 1
    FifoOrder = FALSE
    Priority <- ThreadPriorities
    Bound = 3
    ValueMax = 2
    MaxPosixCalls = 7
    Queues = {q}
    Waiters = {w1}
    NoQueue = NoQueue
    MaxSent = 3
SPECIFICATION MCSpec
INVARIANTS SemaSound UnitsKept EventsKept
PROPERTIES WakesRight CallsEnd
CHECK_DEADLOCK FALSE
