SPECIFICATION Spec
CONSTANTS
    None = None
    AllowAny = AllowAny
    Garbled = Garbled
    Alice = Alice
    alice = alice
    bob = bob
    amap = amap
    here = here
    there = there
    Slugs <- Names
    Reserved = {amap}
    Rank <- Sorted
    Fold <- Folded
    Folding = FALSE
    Places = {here, there}
    Documents <- AllDocuments
    Events = {"crash", "torn", "garbled", "stat", "roster"}
    MaxMishaps = 2
    MaxChanges = 5
INVARIANTS
    TypeOK
    ConfigIsSound
    StateStaysHome
    IncumbentStays
    AnnouncedIsAdopted
    MissingIsReal
PROPERTIES
    DroppedByJudgement
