SPECIFICATION Spec
CONSTANTS
    Handles = {h1, h2}
    Custom = {}
    Kinds = {"DevMem", "Uio"}
    Debug = TRUE
    Root = {h1, h2}
    Kills = FALSE
    InitControl = "auto"
    MaxCalls = 2
CHECK_DEADLOCK FALSE
INVARIANTS
    PowerHeldWhileMapped
