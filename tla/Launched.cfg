SPECIFICATION FairSpec
CONSTANTS
    None = None
    AllowAny = AllowAny
    Garbled = Garbled
    Alice = Alice
    alice = alice
    bob = bob
    amap = amap
    here = here
    there = there
    Slugs <- Three
    Reserved = {}
    Rank <- Sorted
    Fold <- Folded
    Folding = FALSE
    Places = {here}
    Documents <- FewDocuments
    Events = {"crash", "scan", "drain"}
    MaxMishaps = 2
    MaxChanges = 5
PROPERTIES
    EveryLaunchIsServed
