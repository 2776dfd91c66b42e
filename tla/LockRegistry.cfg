SPECIFICATION Spec
CONSTANTS
    d1 = d1
    d2 = d2
    k1 = k1
    k2 = k2
    Threads = {t1, t2}
    Keys = {k1, k2}
    Devices = {d1, d2}
    BaseKey <- MCBaseKey
    Locks = {a, b, c, d}
    Nothing = Nothing
    MaxNest = 2
    MaxCalls = 2
SYMMETRY Symmetry
CHECK_DEADLOCK FALSE
INVARIANTS
    TypeOK
    OneLockPerFile
    HeldLockStaysOpen
    NoSelfDeadlock
