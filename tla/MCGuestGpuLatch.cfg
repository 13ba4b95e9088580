CONSTANTS
    Labels <- PulseLabels
    Values = {0, 1}
    NoValue = NoValue
    QueueCount = 2
    Submissions = {1, 2}
    QueueOf <- PulseQueueOf
    Program <- PulseProgram
    Threads = {t1}
    NoSubmission = NoSubmission
    MaxStores = 0
    MaxCommands = 0
SPECIFICATION FairSpec
PROPERTY LatchedWaitPasses
CHECK_DEADLOCK FALSE
