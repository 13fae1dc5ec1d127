CONSTANTS
    MaxQueue = 2
    SoftPct = 50
    HardPct = 95
    Payloads <- MCPayloads
    MaxRequests = 4
SPECIFICATION Spec
INVARIANTS Conservation CleanStopDrains
PROPERTIES  ImplementsQueue StopAnswered
CHECK_DEADLOCK FALSE
