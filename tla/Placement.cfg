SPECIFICATION Spec
CONSTANTS
    r = r
    s = s
    b1 = b1
    b2 = b2
    b3 = b3
    None = None
    Recipients = {r, s}
    Bytes = {b1, b2, b3}
    Size <- MCSize
    Docs <- MCDocs
    MaxCount = 2
    MaxBytes = 2
    MaxTotal = 3
    Files <- MCFiles
    Events = {"crash", "open", "read", "place", "anchor", "sweep"}
    MaxEdits = 1
    MaxMoves = 1
    MaxMishaps = 1
INVARIANTS
    TypeOK
    DeliveredAsDeclared
    NoticeComesLast
    Confined
    HonestIsSent
PROPERTIES
    ImplementsAtomicDelivery
CHECK_DEADLOCK FALSE
