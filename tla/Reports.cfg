SPECIFICATION Spec
CONSTANTS
    None = None
    a = a
    b = b
    s = s
    ghost = ghost
    Strangers = {ghost}
    Fleet = {a, b, s}
    Reporters = {a, b}
    Connectors <- TwoConnectors
    Ids = {1, 2}
    Issued <- Sent
    Reports = {"denied", "delivered", "malformed"}
    Budget = 2
    Events = {"crash", "race", "retract", "open", "scan", "read", "ledger", "record", "audit", "tell", "unlink"}
    MaxReports = 3
    MaxMishaps = 1
INVARIANTS
    TypeOK
    SenderToldOnce
    EveryDsnIsWarranted
PROPERTIES
    FailuresStayListed
