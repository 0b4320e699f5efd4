SPECIFICATION Spec
CONSTANTS
    None = None
    AllowAny = AllowAny
    a = a
    b = b
    c = c
    p = p
    ghost = ghost
    q1 = q1
    q2 = q2
    Strangers = {ghost}
    Instances = {a, b, c, p}
    Peers <- MixedPeers
    PeerSenders <- MixedEdges
    PeerTree = {a, b, p}
    Requests = {q1, q2}
    Owner <- MixedOwner
    Rank <- Order
    Docs <- MixedDocs
    Kinds = {"plain"}
    Earlier <- MixedRecords
    Legacy <- Unstaged
    Events = {"crash", "place", "judge", "anchor", "race", "replace", "withdraw", "sight", "publish"}
    MaxEdits = 1
    MaxMishaps = 1
INVARIANTS
    TypeOK
    RecipientsHaveIt
    NobodyElseHasIt
    NoDuplicates
    EveryNoticeOnRecord
    EveryNoticeAuthorised
