SPECIFICATION ServerSpec
CONSTANTS
    k1 = k1
    alice = alice
    root = root
    c1 = c1
    c2 = c2
    r1 = r1
    r2 = r2
    t1 = t1
    t2 = t2
    t3 = t3
    Absent = Absent
    Torn = Torn
    Malformed = Malformed
    Missing = Missing
    Keys = {k1}
    Users = {alice, root}
    Admins = {root}
    Calls = {r1, r2}
    Chats = {c1, c2}
    KeyOf <- MCKeyOf
    AskedBy <- MCAskedBy
    Reactions = {"up"}
    MaxWords = 1
    large = large
    spare = spare
    alias = alias
    unheard = unheard
    Names = {large, alias, unheard}
    Aliases <- MCAliases
    Registry <- MCRegistry
    Price <- MCPrice
    UnitPrice = 1
    Callers <- MCCallers
    Configs <- MCConfigs
    SoftLimit = 2
    HardLimit = 3
    Prompts = {1}
    Usages = {2}
    MaxBills = 3
    Requests = {"a", "b", "c"}
    Emails = {"x", "y"}
    Founder = "y"
    MaxText = 6
    MaxPiece = 3
    MaxSymbols = 10
    MaxChunk = 3
    TraceLines <- MCLines
    MaxTraceLines = 4
    MaxLines = 5
    TrendBuckets = 2
    Window = 3
    NamedTools = {"the_tool"}
    ManySkipped = 2
    MsPerSecond = 2
    Gets = {"g1", "g2"}
    Upgrades = {"w1"}
    Dialogs = {"d1"}
    Down = Down
    Items = {i1, i2}
    MaxAsks = 2
    MaxTurns = 3
    KnownStreams = {0, 1}
    Uuids = {u1, u2}
    Times = {1, 2}
    MaxEvents = 2
    MaxPicks = 1
    MaxPolls = 2
INVARIANTS StoredOnceWhole BudgetsAddUp EmailsUnique ChunksInvisible LinesSurviveChunks DashboardAddsUp AnsweredOnce
PROPERTIES RemovedByItsCreator StreamCloses PanelsCatchUp ViewsCatchUp
CHECK_DEADLOCK FALSE
