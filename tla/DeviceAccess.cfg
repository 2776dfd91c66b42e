SPECIFICATION FairSpec
CONSTANTS
    t1 = t1
    t2 = t2
    lo = lo
    big = big
    view = view
    sub = sub
    uio0 = uio0
    PageSize = 8
    RegisterBits = 4
    Threads = {t1, t2}
    Devices = {lo, big, view, sub}
    Window <- MCWindow
    UioLock <- MCUioLock
    UioAddr <- MCUioAddr
    Calls <- MCCalls
    NoLock = NoLock
    NoDevice = NoDevice
    MaxSequencePages = 3
    MaxCalls = 3
CHECK_DEADLOCK FALSE
INVARIANTS
    TypeOK
    NothingLeaked
    ByteExclusion
    MappingAssertHolds
PROPERTIES
    ImplementsAtomicRegisters
    EveryCallReturns
