SPECIFICATION Spec
CONSTANTS
    Handles = {h1, h2, h3}
    Custom = {h3}
    Kinds = {"DevMem", "Uio"}
    Debug = TRUE
    Root = {h1, h2}
    Kills = TRUE
    InitControl = "auto"
    MaxCalls = 2
CHECK_DEADLOCK FALSE
INVARIANTS
    TypeOK
    ErrorPathsRelease
    UioWindowHasLock
    ControlRestored
    CustomMapperReturned
PROPERTIES
    RestoreAfterUnmap
