SPECIFICATION ChainSpec
CONSTANTS
    t1 = t1
    b1 = b1
    m1 = m1
    m2 = m2
    Nobody = Nobody
    Worker = {1, 2, 3}
    Local = {1, 2, 3}
    Ticker = {t1}
    Recorder = {}
    Runner = {}
    Pulling = {}
    Reporter = {}
    Manager = {m1}
    Decision = {"revise_required"}
    MaxAttempts = 1
    MaxTries = 1
    WorkerLease = 1
    JobLease = 1
    WorkerDelay = 1
    JobDelay = 1
    Slots = 1
    MaxIterations = 2
    PlanMayClose = FALSE
    MaxTime = 2
    MaxFaults = 0
    MaxCrashes = 0
    MaxThrows = 1
    MaxCalls = 5
INVARIANTS
    ChainTypeOK
    LineageAgrees
CHECK_DEADLOCK FALSE
PROPERTIES
    IterationsInTurn
