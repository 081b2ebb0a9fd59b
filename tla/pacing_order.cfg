SPECIFICATION Spec
CONSTANTS
    k1 = k1  k2 = k2
    s1 = s1  s2 = s2
    Never = Never
    HOUR_MS = 6
    Campaigns = {k1}
    Senders = {s1, s2}
    Sizes = {4, 5, 6}
    Starts = {0}
    Delays = {1}
    HourlyLimits = {0, 1, 2}
    SenderMaxes = {1, 3}
    GlobalLimit = 4
    Failovers = {TRUE, FALSE}
    MinDelay = 1
    MaxReschedules = 6
    Punctual = TRUE
    MaxClock = 50
SYMMETRY Symmetry
INVARIANT SentInOrder
CHECK_DEADLOCK FALSE
