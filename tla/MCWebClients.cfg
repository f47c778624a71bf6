SPECIFICATION ClientsSpec
CONSTANTS
    s1 = s1
    s2 = s2
    s3 = s3
    s4 = s4
    MaxSends = 2
    MaxTokens = 2
    MaxInputs = 1
    MaxMessages = 4
    Steps = {s1, s2, s3, s4}
    LabelOf <- MCLabelOf
    MaxRows = 3
    MaxPieces = 4
    MaxContents = 2
    BypassLength = 1
    Sidebars = {"desktop", "mobile"}
    MaxLoads = 3
    MaxChanges = 2
    MaxQuestions = 2
    MaxWords = 2
    MaxThreads = 2
    MaxClicks = 1
    MaxRetries = 1
    MaxMade = 4
    MaxFiles = 1
    MaxHttpSends = 1
    MaxSteps = 5
    MaxAttached = 2
    MaxAnswers = 2
    ToolSteps = {s1, s2}
    MaxRuns = 2
    Rails = {"desktop", "mobile"}
    MaxSessions = 3
    MaxVisits = 3
    NoParent = NoParent
    StepIds = {s1, s2, s3}
    StepNames = {"start", "end"}
    ParentId <- MCParentId
    MaxHeard = 5
    MaxReveal = 4
    MaxMessage = 3
    MaxPrompts = 2
    Timeouts = {0, 2, 3}
INVARIANTS RowsCanBeTrusted FileSentOnce TitleIsOwn EveryPieceOnce LegacyAnswersArrive NoStepLost AttemptsInOrder
PROPERTIES UndisturbedAnswer RefreshShowsItsChange InputComesBack NothingLost
CHECK_DEADLOCK FALSE
