SPECIFICATION FairSpec
CONSTANTS
    None = None
    AllowAny = AllowAny
    a = a
    b = b
    c = c
    p = p
    ghost = ghost
    q1 = q1
    q2 = q2
    Strangers = {ghost}
    Instances = {a, b, c}
    Peers <- MailPeers
    PeerSenders <- NoEdges
    PeerTree = {}
    Requests = {q1}
    Owner <- ReuseOwner
    Rank <- Order
    Docs <- ReuseDocs
    Kinds = {"plain", "large", "linked", "special"}
    Earlier <- NoRecords
    Legacy <- FreshFleet
    Events = {"crash", "anchor", "root", "archive", "remove", "sweep", "read", "replace", "submit", "snapshot", "marker", "list", "place", "judge", "copy", "publish"}
    MaxEdits = 2
    MaxMishaps = 1
INVARIANTS
    AnchorComesFirst
    QuarantineHolds
    CopyIsWhatWasJudged
PROPERTIES
    AnsweredOnce
    MarkerStays
    FiledUnderOwnVerdict
    KeepsPromise
    EveryRequestAnswered
