SPECIFICATION Spec
CONSTANTS
    Screen = {"editor", "build", "studio", "inputs"}
    Visit = {"calm", "lossy"}
    Record = {w1}
    NewRecord = {n1, n2}
    MaxNew = 1
    Rev = {0, 1}
    Broken = {1}
    MaxWrites = 2
    HISTORY = 1
    Null = Null
    Block = {"condition", "output"}
    Branches <- MCBranches
    seedSketch <- MCSeed
    Visitor = {"tidy", "hasty"}
    MaxEdits = 3
    MaxSelected = 1
    HISTORY_LIMIT = 2
    NotLinking = NotLinking
    NodeType = {"router", "agent", "output"}
    Labels <- MCLabels
    defaultLabels <- MCDefaultLabels
    opened <- MCOpened
    MaxChanges = 3
    MaxDeleted = 2
    Nothing = Nothing
    FieldName = {"field", "field_2", "field_3", "field_4", "loan_id", "1"}
    Number = {"1"}
    Suggested <- MCSuggested
    Declared = {"any", "string", "number"}
    MaxFields = 3
CHECK_DEADLOCK FALSE
INVARIANTS
    WorkIsKept
    RunIsOfTheScreen
    DrawingsAreSound
PROPERTIES
    EditsCanBeTakenBack
    DrawingsComeBack
    InputsKeepTheirPlace
