\* two requests with retries sharing the breaker, with an outage and cancelled requests
CONSTANTS
    c1 = c1
    c2 = c2
    Callers = {c1, c2}
    MaxFailures = 2
    Timeout = 1
    MaxRetries = 1
    MaxOutages = 1
    MaxCancels = 2
SPECIFICATION FairClientSpec
PROPERTIES
    ProtocolUnlessStale
    CutOffOnlyWhileDown
