\* one subscriber at work, and the dead-letter XADD may be answered with an error: what the documentation of Subscribe promises
CONSTANTS
    k1 = k1
    c1 = c1
    c2 = c2
    Keys = {k1}
    Malformed = Malformed
    Consumers = {c1, c2}
    NoConsumer = NoConsumer
    Named = TRUE
    MaxMsgs = 2
    MaxRetries = 2
    ReadCount = 2
    FaultyCalls = {"dlq"}
    MaxFaults = 1
    MaxStops = 0
    MaxLapses = 0
SPECIFICATION Spec
INVARIANTS
    EventsAreSettled
CHECK_DEADLOCK FALSE
