SPECIFICATION FairSpec
CONSTANTS
    w1 = w1
    w2 = w2
    r1 = r1
    r2 = r2
    t1 = t1
    t2 = t2
    c1 = c1
    b1 = b1
    m1 = m1
    m2 = m2
    Nobody = Nobody
    Worker = {w1}
    Local = {w1}
    Ticker = {t1}
    Recorder = {}
    Runner = {}
    Pulling = {}
    Reporter = {b1}
    Manager = {m1}
    Decision = {"accepted"}
    MaxAttempts = 2
    MaxTries = 2
    WorkerLease = 1
    JobLease = 1
    WorkerDelay = 1
    JobDelay = 1
    Slots = 1
    MaxIterations = 1
    PlanMayClose = FALSE
    MaxTime = 7
    MaxFaults = 1
    MaxCrashes = 1
PROPERTIES
    WorkersSettle
CHECK_DEADLOCK FALSE
