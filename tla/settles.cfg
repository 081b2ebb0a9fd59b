SPECIFICATION FairSpec
CONSTANTS
    e1 = e1
    p1 = p1  p2 = p2
    r1 = r1  r2 = r2  r3 = r3
    c1 = c1  c2 = c2
    None = None
    Emails = {e1}
    Procs = {p1, p2}
    Runs = {r1, r3}
    Sweeps = {c1}
    HostOf <- MCHostOf
    MaxAttempts = 2
    MaxReschedules = 1
    MaxStalledCount = 1
    ResendModes = {TRUE, FALSE}
    SmtpOutcomes = {"accepted", "rejected", "error"}
    StoreFaults = {"reserve", "delay"}
    Cancellable = {}
    Mortal = {p2}
    SlowRuns = FALSE
    LiveStalls = FALSE
    MaxFlushes = 1
INVARIANTS
    BudgetsHold
    DuplicatesNeedACrash
PROPERTY EventuallySettled
