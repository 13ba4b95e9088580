CONSTANTS
    Threads = {t1, t2, t3}
    Mutexes = {m1}
    Conds = {c1, c2}
    None = None
    Recursive = {m1}
    MaxCalls <- CallsOfEach
    Creators = {g1, g2}
    Sizes = {1}
    StackSpace = 2
    MaxRecords = 2
    MaxCreates = 3
    KeyThreads = {k1, k2}
    NoData = NoData
    KeysMax = 2
    DestructorIterations = 2
    MaxMade = 3
    MaxSet = 2
    MaxOnceCalls = 2
    Sources <- Movies
    Delay <- CodecDelay
    Starts = {0, 1}
    Capacity = 1
    VideoBuffers = 2
    AudioBuffers = 2
    MaxPlays = 2
    MaxFaults = 1
    FiberThreads = {h1, h2, h3}
    FiberObjects = {f1, f2}
    NoOne = NoOne
    MaxFiberCalls = 4
SPECIFICATION MCSpec
INVARIANTS CondSound WakeupsConserved ThreadsSound KeysAndOnceSound PlayerSound FibersSound
PROPERTIES WokenReturns ThreadsSettle
CHECK_DEADLOCK FALSE
