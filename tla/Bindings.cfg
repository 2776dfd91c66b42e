SPECIFICATION MCSpec
CONSTANTS
    Threads = {t1, t2}
    a = a
    b = b
    Handles = {a, b}
    g1 = g1
    g2 = g2
    g3 = g3
    Guards = {g1, g2, g3}
    GuardDevice <- MCGuardDevice
    NoThread = none
    NoHandle = none
    NoGuard = none
    Reuse = FALSE
    MaxNesting = 2
    MaxCalls = 4
    MaxPythonCalls = 3
    RegisterBits = 2
    Definitions <- MCDefinitions
INVARIANTS HeldUntilUnlock GuardsMatchDepth  FieldsIndependent
PROPERTIES EveryCallReturns ImplementsInlineRegister
CHECK_DEADLOCK FALSE
