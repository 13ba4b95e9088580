CONSTANTS
    Queues = {q}
    Waiters = {}
    Idents = {"flip"}
    NoQueue = NoQueue
    Ports = {1}
    NoPort = NoPort
    Guests = {g1, g2}
    Frames = {f1}
    NoFrame = NoFrame
    Indexes = {"buffer"}
    QueueOf <- FirstReports
    Capacity = 2
    MaxFlips = 2
    MaxOpens = 3
    MaxRate = 1
    Calls <- RateRaces
    Ime = FALSE
SPECIFICATION Spec
INVARIANTS OpenFindsReset
CHECK_DEADLOCK FALSE
