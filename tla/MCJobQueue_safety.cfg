SPECIFICATION Spec
CONSTANTS
    p1 = p1
    p2 = p2
    j1 = j1
    j2 = j2
    k1 = k1
    op1 = op1
    Job = {j1, j2}
    Key = {k1}
    KeyOf <- OneKey
    Prio <- Ranks
    WorkflowJobs = {j1}
    Proc = {p1, p2}
    Operator = {op1}
    NoProc = NoProc
    MaxAttempts = 2
    JobLimit = 1
    LeaseLen = 1
    DelayStep = 1
    DelayCap = 1
    Cooldown = 1
    Retention = 1
    MaxTime = 3
    MaxCrashes = 1
    MaxRequeues = 1
    MaxMishaps = 1
INVARIANTS
    TypeOK
    ActiveDedupe
    LeaseExclusion
    RetryBudget
PROPERTIES
    LeaseRespected
    OutcomeIsFinal
    ImplementsLeasedTasks
SYMMETRY ProcSymmetry
CHECK_DEADLOCK FALSE
