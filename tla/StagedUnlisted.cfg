SPECIFICATION Spec
CONSTANTS
    None = None
    AllowAny = AllowAny
    a = a
    b = b
    c = c
    p = p
    ghost = ghost
    q1 = q1
    q2 = q2
    Strangers = {ghost}
    Instances = {a, b, c}
    Peers <- MailPeers
    PeerSenders <- NoEdges
    PeerTree = {}
    Requests = {q1}
    Owner <- ReuseOwner
    Rank <- Order
    Docs <- ReuseDocs
    Kinds = {"plain"}
    Earlier <- NoRecords
    Legacy <- FreshFleet
    Events = {"snapshot"}
    MaxEdits = 0
    MaxMishaps = 1
INVARIANTS
    StagedIsNeverDelivered
