\* The statement of ARCHITECTURE.md that a denied call never ends a request.
SPECIFICATION Spec
CONSTANTS
    Raw = {"a", "b"}
    ToolOf <- MCToolOf
    SigOf <- MCSigOf
    WriteCalls = {}
    Modes = {"ops"}
    Limit <- MCNoLimit
    MaxParallel = 3
    LoopThreshold = 2
    RecursionLimit = 8
    HasSummaryLLM = FALSE
    MessageThreshold = 30
    RetainRecent = 8
    CooldownMessages = 0
    MaxBatch = 2
INVARIANT GuardrailsNonTerminating
CHECK_DEADLOCK FALSE
