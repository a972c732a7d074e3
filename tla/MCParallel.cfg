SPECIFICATION FairSpec
CONSTANTS
    ok = ok
    exc = exc
    TaskCounts <- MCTaskCounts
    WorkerCounts <- MCWorkerCounts
    CpuCount = 2
    Results <- MCResults
INVARIANTS
    TypeOK
    NoTaskLostOrDoubled
    NoTaskLeftByWorkers
    ReturnsInOrder
PROPERTIES
    EveryCallReturns
    ImplementsMap
