SPECIFICATION Spec
CONSTANTS
    Screen = {"pages", "audit", "shell", "mcp", "header", "pipeline", "flow", "scenario", "thumbnail"}
    Null = Null
    Token = {t1, t2}
    Pages = {"runs", "applications", "run", "case", "overview", "usage", "admin"}
    Answers <- MCAnswers
    Hits <- MCHits
    RunOf <- MCRunOf
    RowLimit = 1
    PageRows = 2
    Agents = {"kyc", "bre"}
    CaseId = {"app", "gravai"}
    Failure = {"server"}
    MaxSteps <- MCMaxSteps
    MaxPosts = 1
    Tenant = {t1, t2}
    NoToken = NoToken
    Broken <- MCBroken
    MaxEntries = 4
    PageLimit = 3
    StripLength = 3
    ActionOf <- MCActionOf
    Tokens = {t1, t2}
    NoBearer = NoBearer
    Expired = {t2}
    Routes = {"settings", "admin"}
    Places <- MCPlaces
    MaxAsks = 1
    ToolName = {"assess", "read", "gone"}
    Offered <- MCOffered
    ListedAgent <- MCListed
    CompiledAgent <- MCCompiled
    Value = {"", "1", "x"}
    Wrong = {"x"}
    MaxHistory = 2
    MaxRuns = 2
    Bearers = {b1}
    None = None
    Paths = {"/", "/agents"}
    Hand = {"slow", "quick"}
    Entry <- MCEntry
    MostStages = 2
    FlowLength = 3
    Rpm = 10
    BusinessDays = 22
    Step = 2500
    Shares = {0, 20, 100}
    Hours = {4, 10, 24}
    Monthly = {4, 12, 35, 80}
    Backlogs = {0, 10, 60}
    ProjectedDays = 30
    Steps <- MCSteps
    Connections <- MCConnections
    Branching = {"branch"}
    Coordinate = {0, 40, 900}
    Sendable = 2
    Nowhere = Nowhere
    NoStep = NoStep
INVARIANTS
    ListsStopAloud
    LiveIsOfYourToken
    NothingSaidUnasked
    EvidenceIsTheApis
    ShellTellsTheTruth
    DeskTellsWhatRan
    MenuFollowsThePointer
    ExplainersPlay
    PicturesAreTrue
CHECK_DEADLOCK FALSE
