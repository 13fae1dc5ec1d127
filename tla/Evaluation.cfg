CONSTANTS
    MaxQueue = 1
    Concurrency = 1
    Requests <- MCRequests
    MaxTasks = 2
SPECIFICATION Spec
INVARIANTS OneFate PartialEmit StoppedClean
PROPERTIES TimedOutNeverStarts EventuallyJudged
CHECK_DEADLOCK FALSE
