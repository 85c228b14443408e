SPECIFICATION Spec
CONSTANTS
    Second = 2
    MaxBackoff = 10
    Window = 8
    SyncTime = 3
    DialTime = 3
    NoticeTime = 6
    Transit = 2
    Skews <- MCSkews
INVARIANTS
    TypeOK
    BackWithinBound
    WindowDecides
