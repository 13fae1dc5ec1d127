CONSTANTS
    t1 = t1  t2 = t2  c1 = c1  c2 = c2
    Starters = {t1}
    Users = {c1, c2}
    None = None
    Unknown = Unknown
    Absent = Absent
    Requests <- MCRequests
    Answers <- MCAnswers
    Chunks <- MCChunks
    Running <- MCRunning
    PriceList <- MCPriceList
    MaxTokens = 1
SYMMETRY Symmetry
SPECIFICATION LlmSpec
INVARIANTS ResponseAttributed OwnTokens StreamCounted CostAsConfigured
PROPERTIES ConfigLocked
CHECK_DEADLOCK FALSE
