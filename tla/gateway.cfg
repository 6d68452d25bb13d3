\* the middleware: two requests at a time of one user, one fault, markers and counters that end;
\* the proxy: two requests racing for the breaker and through it, with an outage and users who leave
CONSTANTS
    Nil = Nil
    Slots = {r1, r2}
    Users = {u1}
    Bodies = {b1}
    Paths = {"api", "ai"}
    Limit <- MCLimit
    Window = 2
    Day = 2
    Quota = 1
    AIQuota = 1
    Operations <- MCOperations
    Tries = 2
    MaxTime = 2
    MaxRequests = 3
    MaxFaults = 1
    Callers = {c1, c2}
    None = None
    Threshold = 2
    Timeout = 1
    MaxOutages = 1
    MaxCancels = 2
SPECIFICATION MCSpec
INVARIANTS
    LimitsHold
    RepeatsHandled
PROPERTIES
    ImplementsProtocol
    CutOffOnlyWhileDown
CHECK_DEADLOCK FALSE
