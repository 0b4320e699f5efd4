SPECIFICATION Spec
CONSTANTS
    None = None
    AllowAny = AllowAny
    Garbled = Garbled
    Alice = Alice
    alice = alice
    bob = bob
    amap = amap
    here = here
    there = there
    Slugs <- Three
    Reserved = {}
    Rank <- Sorted
    Fold <- Folded
    Folding = FALSE
    Places = {here}
    Documents <- FewDocuments
    Events = {"scan"}
    MaxMishaps = 1
    MaxChanges = 4
PROPERTIES
    DroppedByJudgement
