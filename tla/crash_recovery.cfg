SPECIFICATION Spec
CONSTANTS
    e1 = e1
    p1 = p1  p2 = p2
    r1 = r1  r2 = r2  r3 = r3
    c1 = c1  c2 = c2
    None = None
    Emails = {e1}
    Procs = {p1, p2}
    Runs = {r1, r3}
    Sweeps = {c1, c2}
    HostOf <- MCHostOf
    MaxAttempts = 2
    MaxReschedules = 1
    MaxStalledCount = 1
    ResendModes = {FALSE}
    SmtpOutcomes = {"accepted", "rejected", "error"}
    StoreFaults = {"reserve", "reject", "catch", "defer", "count", "delay", "sweep"}
    Cancellable = {e1}
    Mortal = {p1}
    SlowRuns = FALSE
    LiveStalls = FALSE
    MaxFlushes = 0
INVARIANT BudgetsHold
PROPERTIES
    SentIsFinal
    ImplementsOutbox
CHECK_DEADLOCK FALSE
