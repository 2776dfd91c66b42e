SPECIFICATION Spec
CONSTANTS
    Handles = {h1}
    Custom = {h1}
    Kinds = {"DevMem", "Uio"}
    Debug = TRUE
    Root = {}
    Kills = TRUE
    InitControl = "auto"
    MaxCalls = 3
CHECK_DEADLOCK FALSE
INVARIANTS
    CustomMapperKept
