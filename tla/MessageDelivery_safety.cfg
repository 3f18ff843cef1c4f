SPECIFICATION Spec

CONSTANTS
    Flow = {f1, f2}
    AckFirst = {f1}
    AckOnly = {}
    Stoppable = {f1}
    Silent = {f2}
    Request = {r1}
    WebApp = {w1}
    Sender = {s1}
    Drain = {d1}
    Reconciler = {q1}
    Mortal = {s1, d1, q1}
    Redeliverable = {f1}
    MarkedAs = {"sent", "cancelled"}
    MaxAttempts = 2
    Parts = 2
    PartTime = 1
    Lease = 4
    LateTurns = FALSE
    RecoverLimit = 1
    MaxTime = 6
    MaxBegun = 1
    MaxTexts = 2
    MaxMarks = 1
    MaxFaults = 0
    MaxCrashes = 1
    MaxMishaps = 1

INVARIANTS
    TypeOK
    OneSender
    SentMeansPosted
    TelegramSentMeansAnswered
    NoticeIsLast

CHECK_DEADLOCK FALSE
