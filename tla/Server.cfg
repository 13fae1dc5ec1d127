CONSTANTS
    Clients = {c1, c2}
    Services = {"s1", "__stop__"}
    ClientLimit = 1
    ServiceLimit = 1
    Window = 2
    MaxQueue = 2
    MaxTasks = 1
    MaxRequests = 4
    MaxClock = 2
SYMMETRY Symmetry
SPECIFICATION Spec
INVARIANTS CleanShutdownLosesNothing LimitsKept
CHECK_DEADLOCK FALSE
