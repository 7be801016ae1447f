SPECIFICATION PoolSpec
CONSTANTS
    w1 = w1
    w2 = w2
    j1 = j1
    j2 = j2
    Pools <- MCPools
    NoJob = NoJob
    NoWorker = NoWorker
INVARIANTS
    EachJobInOnePlace
    StagedIsDue
PROPERTIES
    JobsMoveForward
    CallsEnd
CHECK_DEADLOCK FALSE
