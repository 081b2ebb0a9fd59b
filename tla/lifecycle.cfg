SPECIFICATION Spec
CONSTANTS
    api = api
    s1 = s1  s2 = s2
    r1 = r1  r2 = r2
    t1 = t1  t2 = t2  t3 = t3
    g = g  demo = demo
    None = None
    Serving = {api}
    Working = {api}
    Slots = {s1, s2}
    ProcOf <- MCProcOf
    Rows = {r1, r2}
    Transports = {t1, t2, t3}
    Ways = {g, demo}
    Google = {g}
    MaxRotations = 1
    MaxRequests = 2
    MaxFaults = 1
SYMMETRY Symmetry
INVARIANTS
    TypeOK
    NothingUnplugged
    NoStrayTransport
    RefusedOnlyInARace
PROPERTIES
    BacklogFirst
CHECK_DEADLOCK FALSE
