CONSTANTS
    Node = {1, 2, 3, 4}
    Branch = {"yes", "no"}
    NoBranch = "none"
    Workflows <- MCWorkflows
    Replay = TRUE
    Position <- MCPosition
    MAX_CONCURRENCY = 2
    MaxRouters = 1
    MaxGates = 1
    MaxRetriers = 1
    RetryBudgets <- HandWrittenBudgets
SPECIFICATION FairSpec
INVARIANTS
    EngineInvariant
    ResultIsTrue
    DrawnAsItRan
PROPERTIES
    ImplementsWorkflowRun
    Termination
