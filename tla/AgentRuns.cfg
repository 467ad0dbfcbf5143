CONSTANTS
    Null = Null
    File = {f1, f0}
    Empty = {f0}
    Answer <- MCAnswer
    MaxUploads = 1
    Agent = {a1, a2}
    Declares = {a1}
    TakesIds = FALSE
    MaxLoads = 1
    Draft = {"blank", "wrong"}
SPECIFICATION FairSpec
INVARIANT
    AgentsInvariant
PROPERTY
    NothingHangs
