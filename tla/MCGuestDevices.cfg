CONSTANTS
    Queues = {q}
    Waiters = {}
    Idents = {"flip"}
    NoQueue = NoQueue
    Ports = {1, 2}
    NoPort = NoPort
    Guests = {g1, g2}
    Frames = {f1}
    NoFrame = NoFrame
    Indexes = {"buffer"}
    QueueOf <- OneQueue
    Capacity = 2
    MaxFlips = 3
    MaxOpens = 3
    MaxRate = 1
    Calls <- TwoRoles
    Ime = FALSE
    Labels <- SingleLabels
    Values = {0, 1}
    NoValue = NoValue
    QueueCount = 2
    Submissions = {1, 2, 3, 4}
    SubmissionQueueOf <- SingleQueueOf
    Program <- SingleProgram
    Threads = {t1, t2}
    NoSubmission = NoSubmission
    MaxStores = 1
    MaxCommands = 2
    VirtualPages = 3
    DirectPages = 3
    FlexiblePages = 1
    Prots = {rw}
    NoProt = NoProt
    HostFails = TRUE
SPECIFICATION MCSpec
INVARIANTS FlipsSound FlipsReported QueuesSound MemorySound
PROPERTIES DoneMeansExecuted DevicesSettle
CHECK_DEADLOCK FALSE
