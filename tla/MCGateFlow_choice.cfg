SPECIFICATION Spec

CONSTANTS
    A = A
    B = B
    P = P
    T = T
    g1 = g1
    h1 = h1
    h2 = h2
    StageGate = g0
    FreshGates <- OneFresh
    Buttons <- ABPT
    Decision <- Decides
    Requester = {q1}
    Human = {h1, h2}
    Ticker = {}
    Trader = {t1}
    Core = {c1}
    Key = {i1}
    Receipts = {"accepted", "filled"}
    Verdicts = {"approved"}
    Mortal = {}
    Delivered = {}
    Bridged = {}
    Kinds = {"stage", "replace"}
    MayExpire = {}
    Storing = {TRUE}
    AskLimit = 0
    MaxRequests = 2
    MaxClicks = 2
    MaxMishaps = 1

INVARIANTS
    TypeOK
    OneChoice
    IntentsAreAudited

SYMMETRY Humans

CHECK_DEADLOCK FALSE
