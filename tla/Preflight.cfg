SPECIFICATION FSpec
CONSTANTS
    Width = 4
    Page = 8
    Devices = {d, u}
    NoDevice = none
    d = d
    u = u
    Systems <- MCSystems
    Top64 = 16
    Top32 = 8
    WidthBits <- MCWidthBits
    MockMax = 8
    Contents <- MCContents
INVARIANTS RightOwner IomemExact ClocksExact VerdictExact AccessWarranted CommandExact
CHECK_DEADLOCK FALSE
