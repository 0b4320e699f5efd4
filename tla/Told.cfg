SPECIFICATION FairSpec
CONSTANTS
    None = None
    a = a
    b = b
    s = s
    ghost = ghost
    Strangers = {ghost}
    Fleet = {a, b, s}
    Reporters = {a}
    Connectors <- TwoConnectors
    Ids = {1, 2}
    Issued <- SentByGone
    Reports = {"denied", "held", "unreadable", "malformed"}
    Budget = 3
    Events = {"open", "read", "unlink"}
    MaxReports = 3
    MaxMishaps = 2
INVARIANTS
    AlarmsAreRaised
PROPERTIES
    FailuresAreTold
