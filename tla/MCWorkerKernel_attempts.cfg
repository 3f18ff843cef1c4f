SPECIFICATION Spec
CONSTANTS
    w1 = w1
    w2 = w2
    r1 = r1
    r2 = r2
    t1 = t1
    t2 = t2
    c1 = c1
    b1 = b1
    m1 = m1
    m2 = m2
    Nobody = Nobody
    Worker = {w1}
    Local = {}
    Ticker = {t1}
    Recorder = {c1}
    Runner = {r1, r2}
    Pulling = {}
    Reporter = {}
    Manager = {}
    Decision = {"accepted"}
    MaxAttempts = 2
    MaxTries = 2
    WorkerLease = 1
    JobLease = 2
    WorkerDelay = 1
    JobDelay = 1
    Slots = 1
    MaxIterations = 0
    PlanMayClose = TRUE
    MaxTime = 3
    MaxFaults = 0
    MaxCrashes = 0
INVARIANTS
    CompletedJobsKeepResult
PROPERTIES
    ResultsFollowAttempts
SYMMETRY Symmetry
CHECK_DEADLOCK FALSE
