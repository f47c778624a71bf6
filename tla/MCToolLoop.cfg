\* The guards, budgets, compaction and repair of one request.
SPECIFICATION Spec
CONSTANTS
    Raw = {"a", "a_", "w"}
    ToolOf <- MCToolOf
    SigOf <- MCSigOf
    WriteCalls = {"w"}
    Modes = {"ops", "analyze"}
    Limit <- MCLimit
    MaxParallel = 2
    LoopThreshold = 2
    RecursionLimit = 6
    HasSummaryLLM = TRUE
    MessageThreshold = 3
    RetainRecent = 1
    CooldownMessages = 1
    MaxBatch = 2
INVARIANTS BudgetsHold EveryCallAnswered EvidenceKeepsItsCall
PROPERTY RequestEnds
CHECK_DEADLOCK FALSE
