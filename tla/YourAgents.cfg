SPECIFICATION FairSpec
CONSTANTS
    Null = Null
    Token = {t1}
    Names = {"n", "q"}
    Query = {"", "q"}
    PageSize = 1
    MostRows = 2
    MaxAgents = 3
    MaxActs = 3
    TotalReported = FALSE
INVARIANT
    GoneStaysGone
PROPERTY
    EveryWaitEnds
CHECK_DEADLOCK FALSE
