SPECIFICATION FairSpec

CONSTANTS
    Flow = {f1, f2}
    AckFirst = {f1, f2}
    AckOnly = {f2}
    Stoppable = {f1}
    Silent = {f2}
    Request = {}
    WebApp = {}
    Sender = {s1}
    Drain = {d1}
    Reconciler = {q1}
    Mortal = {s1, d1}
    Redeliverable = {}
    MarkedAs = {}
    MaxAttempts = 1
    Parts = 1
    PartTime = 1
    Lease = 2
    LateTurns = FALSE
    RecoverLimit = 1
    MaxTime = 6
    MaxBegun = 2
    MaxTexts = 2
    MaxMarks = 0
    MaxFaults = 1
    MaxCrashes = 1
    MaxMishaps = 1

PROPERTIES
    MessagesSettle
    ContinuationsFollow

CHECK_DEADLOCK FALSE
