SPECIFICATION Spec
CONSTANTS
    None = None
    a = a
    b = b
    Instances = {a}
    MaxName = 2
    MaxSends = 3
    Events = {"abort", "crash", "scan", "list", "snapshot", "sight", "read", "anchor",
              "publish", "archive"}
    MaxMishaps = 3
INVARIANTS
    TypeOK
    DeliveredOnce
    NoPoisonedName
