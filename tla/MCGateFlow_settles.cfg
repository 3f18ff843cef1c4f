SPECIFICATION FairSpec

CONSTANTS
    A = A
    B = B
    P = P
    T = T
    g1 = g1
    h1 = h1
    h2 = h2
    StageGate = g0
    FreshGates <- NoFresh
    Buttons <- AB
    Decision <- DecidesAB
    Requester = {q1}
    Human = {h1}
    Ticker = {k1}
    Trader = {}
    Core = {}
    Key = {}
    Receipts = {}
    Verdicts = {}
    Mortal = {q1, k1, h1}
    Delivered = {g0}
    Bridged = {A}
    Kinds = {"named"}
    MayExpire = {g0}
    Storing = {TRUE, FALSE}
    AskLimit = 1
    MaxRequests = 1
    MaxClicks = 1
    MaxMishaps = 1

PROPERTIES
    SelectionIsFinal
    GatesAreAsked
    ChoicesAreDispatched

CHECK_DEADLOCK FALSE
