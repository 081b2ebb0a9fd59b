SPECIFICATION Spec
CONSTANTS
    w1 = w1  w2 = w2  w3 = w3
    s1 = s1  s2 = s2
    None = None
    Workers = {w1, w2, w3}
    Senders = {s1, s2}
    GlobalLimit = 2
    SenderLimits <- MCSenderLimits
    Failover = TRUE
    RefundOnFailure = TRUE
    LateFailures = TRUE
    RollMidReserve = FALSE
    MaxWindow = 2
    DataLoss = FALSE
SYMMETRY WorkerSymmetry
INVARIANTS
    TypeOK
    NeverOversubscribed
    ClockOverrunBounded
    DeliveriesWithinQuota
    NoLeak
CHECK_DEADLOCK FALSE
