CONSTANTS
    Threads = {t1, t2, t3}
    NoThread = NoThread
    MaxCalls = 3
    Bits = {1, 2}
    Patterns = {{1}, {1, 2}}
    MaxFlagCalls = 3
    Addresses = {a}
    Values = {0, 1}
    Entries = {e1, e2, e3}
    NoEntry = NoEntry
    Counts = {1, 2}
    MaxWaits = 3
SPECIFICATION MCSpec
INVARIANTS RwlockSound FlagSound Reachable
PROPERTIES EveryCallReturns FlagCallsEnd KeepsPromise
CHECK_DEADLOCK FALSE
