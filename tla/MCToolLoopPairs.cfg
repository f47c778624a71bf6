\* The statement of the compaction specification that no pair is parted.
SPECIFICATION Spec
CONSTANTS
    Raw = {"a", "b"}
    ToolOf <- MCToolOf
    SigOf <- MCSigOf
    WriteCalls = {}
    Modes = {"ops"}
    Limit <- MCLimit
    MaxParallel = 1
    LoopThreshold = 3
    RecursionLimit = 8
    HasSummaryLLM = TRUE
    MessageThreshold = 3
    RetainRecent = 2
    CooldownMessages = 1
    MaxBatch = 1
PROPERTY CompactionPartsNoPair
CHECK_DEADLOCK FALSE
