SPECIFICATION FairSpec

CONSTANTS
    Dispatch = {d1}
    Drain = {p1, p2}
    Reconciler = {q1}
    Stoppable = {d1}
    MaxAttempts = 2
    RunLimit = 2
    StaleAfter = 1
    Delay = 1
    MaxTime = 12
    MaxFaults = 1
    MaxCrashes = 1
    MaxMishaps = 1
    MaxRegistry = 1

PROPERTY DispatchesSettle

CHECK_DEADLOCK FALSE
