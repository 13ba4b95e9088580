CONSTANTS
    Labels <- TwoWaitsLabels
    Values = {0, 1}
    NoValue = NoValue
    QueueCount = 2
    Submissions = {1, 2}
    QueueOf <- TwoWaitsQueueOf
    Program <- TwoWaitsProgram
    Threads = {t1}
    NoSubmission = NoSubmission
    MaxStores = 0
    MaxCommands = 0
SPECIFICATION FairSpec
PROPERTY WaitRespected
CHECK_DEADLOCK FALSE
