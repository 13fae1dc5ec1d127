CONSTANTS
    Traces = {t1, t2, t3, t4}
    MaxTraces = 2
    MaxSpansPerTrace = 2
    TTL = 1
    MaxBatch = 3
    MaxClock = 4
    MaxOffered = 6
SYMMETRY Symmetry
SPECIFICATION Spec
INVARIANTS Bounded BooksAgree OrderFollowsTime
PROPERTIES EvictionJustified LiveTracesOnlyGrow NoStaleAfterOperation
