SPECIFICATION MCSpec
CONSTANTS
    Graphics = Graphics
    Compute = Compute
    None = None
    GrowStep = 2
    MaxTick = 3
    MaxOps = 2
    RingSize = 6
    Atom = 2
    Requests = {1, 3}
    Alignments = {1, 4}
    CachePages = 2
    PageCells = 2
    Stored = {0, 2}
    Operations <- Uses
    Age = 1
    CriticalAge = 0
    Limit = 1
    CriticalLimit = 2
    MaxWrites = 2
    MaxBuffers = 3
    MaxCollections = 1
INVARIANTS SchedulerSound RingSound BufferCacheSound BindingsCurrent
PROPERTIES DeviceDoneFirst GpuThreadReturns EndOfPipeReported
