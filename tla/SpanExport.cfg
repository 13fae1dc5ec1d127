CONSTANTS
    MaxQueue = 2
    BatchSize = 1
    MaxRetries = 2
    MaxSpans = 3
SPECIFICATION Spec
INVARIANTS Conservation Delivery StopFlushes SettledInOrder
PROPERTIES EventuallySettled
CHECK_DEADLOCK FALSE
