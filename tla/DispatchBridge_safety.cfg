SPECIFICATION Spec

CONSTANTS
    Dispatch = {d1}
    Drain = {p1, p2}
    Reconciler = {q1}
    Stoppable = {d1}
    MaxAttempts = 3
    RunLimit = 1
    StaleAfter = 1
    Delay = 1
    MaxTime = 7
    MaxFaults = 1
    MaxCrashes = 2
    MaxMishaps = 2
    MaxRegistry = 1

INVARIANTS
    TypeOK
    OneLiveRun
    CancelledNotRun
    RunsWithinBudget

PROPERTY AckOutlivesOldHolders

CHECK_DEADLOCK FALSE
