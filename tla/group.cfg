\* two subscribers with a stop, a restart and an error answer of any command, and a retry counter that expires
CONSTANTS
    k1 = k1
    c1 = c1
    c2 = c2
    Keys = {k1}
    Malformed = Malformed
    Consumers = {c1, c2}
    NoConsumer = NoConsumer
    Named = TRUE
    MaxMsgs = 2
    MaxRetries = 2
    ReadCount = 2
    FaultyCalls = {"read", "incr", "dlq", "ack", "clear"}
    MaxFaults = 1
    MaxStops = 1
    MaxLapses = 1
SPECIFICATION FairSpec
INVARIANTS
    LossesPaidFor
    ExclusiveDelivery
    TriesAccountedFor
PROPERTIES
    ImplementsPromise
    EventuallyAcked
CHECK_DEADLOCK FALSE
