SPECIFICATION Spec
CONSTANTS
    None = None
    MaxNotices = 3
    MaxClock = 4
    Window = 1
    MAX_NOTICE_LISTING = 2
    Events <- AllEvents
    MaxMishaps = 2
INVARIANTS
    TypeOK
    NothingOverlooked
    TrueIsOwed
CHECK_DEADLOCK FALSE
