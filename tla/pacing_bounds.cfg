SPECIFICATION Spec
CONSTANTS
    k1 = k1  k2 = k2
    s1 = s1  s2 = s2
    Never = Never
    HOUR_MS = 3
    Campaigns = {k1, k2}
    Senders = {s1, s2}
    Sizes = {1, 2, 3}
    Starts = {1}
    Delays = {0}
    HourlyLimits = {0, 1}
    SenderMaxes = {2}
    GlobalLimit = 2
    Failovers = {TRUE, FALSE}
    MinDelay = 1
    MaxReschedules = 2
    Punctual = FALSE
    MaxClock = 8
SYMMETRY Symmetry
INVARIANTS
    TypeOK
    DeferralsBounded
    FailedOnlyAfterHours
    NotBeforeProjected
CHECK_DEADLOCK FALSE
