SPECIFICATION FairSpec
CONSTANTS
    t1 = t1
    t2 = t2
    t3 = t3
    t4 = t4
    p1 = p1
    p2 = p2
    Threads = {t1, t2, t3, t4}
    Procs = {p1, p2}
    ProcOf <- MCProcOf
    Peers = {c1}
    NoThread = NoThread
    NoHolder = NoHolder
    MaxDepth = 2
    MaxCalls = 2
CHECK_DEADLOCK FALSE
INVARIANTS
    TypeOK
    Exclusion
    FlockHasReleaser
    NoLostWakeup
PROPERTIES
    ImplementsReentrantLock
    EveryAcquireReturns
