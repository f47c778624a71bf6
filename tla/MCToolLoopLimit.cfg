\* The statement of ARCHITECTURE.md that the limits are deterministic budgets.
SPECIFICATION Spec
CONSTANTS
    Raw = {"a", "b"}
    ToolOf <- MCToolOf
    SigOf <- MCSigOf
    WriteCalls = {}
    Modes = {"ops"}
    Limit <- MCLimit
    MaxParallel = 1
    LoopThreshold = 3
    RecursionLimit = 8
    HasSummaryLLM = TRUE
    MessageThreshold = 3
    RetainRecent = 2
    CooldownMessages = 1
    MaxBatch = 1
INVARIANT LimitEnforced
CHECK_DEADLOCK FALSE
