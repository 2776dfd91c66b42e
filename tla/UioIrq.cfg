SPECIFICATION Spec
CONSTANTS
    t1 = t1
    t2 = t2
    t3 = t3
    f1 = f1
    f2 = f2
    Threads = {t1, t2, t3}
    Files = {f1, f2}
    FileOf <- TwoFiles
    MaxRaises = 2
    MaxCalls = 2
CHECK_DEADLOCK FALSE
INVARIANTS
    TypeOK
    MaskHasServer
    DeliveredOnce
PROPERTIES
    LoneWaitEnds
    RaisedIsServed
