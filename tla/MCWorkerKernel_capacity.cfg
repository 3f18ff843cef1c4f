SPECIFICATION Spec
CONSTANTS
    w1 = w1
    w2 = w2
    r1 = r1
    r2 = r2
    t1 = t1
    t2 = t2
    c1 = c1
    b1 = b1
    m1 = m1
    m2 = m2
    Nobody = Nobody
    Worker = {w1, w2}
    Local = {}
    Ticker = {t1}
    Recorder = {c1}
    Runner = {r1, r2}
    Pulling = {r1, r2}
    Reporter = {}
    Manager = {}
    Decision = {"accepted"}
    MaxAttempts = 1
    MaxTries = 1
    WorkerLease = 2
    JobLease = 1
    WorkerDelay = 1
    JobDelay = 2
    Slots = 1
    MaxIterations = 0
    PlanMayClose = FALSE
    MaxTime = 2
    MaxFaults = 0
    MaxCrashes = 0
INVARIANTS
    TypeOK
PROPERTIES
    ClaimsWithinCapacity
    RunnerLeaseRespected
SYMMETRY Symmetry
CHECK_DEADLOCK FALSE
