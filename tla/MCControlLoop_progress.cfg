SPECIFICATION LoopFairSpec
CONSTANTS
    p1 = p1
    p2 = p2
    j1 = j1
    k1 = k1
    Job = {j1}
    Key = {k1}
    KeyOf <- OneKey
    Prio <- Ranks
    WorkflowJobs = {}
    Proc = {p1, p2}
    Operator = {}
    NoProc = NoProc
    MaxAttempts = 2
    JobLimit = 1
    LeaseLen = 1
    TickLeaseLen = 2
    DelayStep = 1
    DelayCap = 1
    Cooldown = 0
    Retention = 20
    MaxTime = 8
    MaxCrashes = 1
    MaxRequeues = 0
    MaxMishaps = 1
INVARIANTS
    LoopTypeOK
PROPERTIES
    TicksGoOn
    LoopSettlesJobs
CHECK_DEADLOCK FALSE
