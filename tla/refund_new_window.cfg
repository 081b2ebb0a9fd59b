SPECIFICATION Spec
CONSTANTS
    w1 = w1  w2 = w2  w3 = w3
    s1 = s1  s2 = s2
    None = None
    Workers = {w1, w2}
    Senders = {s1}
    GlobalLimit = 2
    SenderLimits <- OneSenderLimits
    Failover = FALSE
    RefundOnFailure = TRUE
    LateFailures = FALSE
    RollMidReserve = TRUE
    MaxWindow = 2
    DataLoss = FALSE
PROPERTY RefundsOwnWindow
CHECK_DEADLOCK FALSE
