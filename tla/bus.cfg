\* two publishers racing on one event, a foreign writer and a subscriber, with a stop and error answers
CONSTANTS
    p1 = p1  p2 = p2  k1 = k1  kPlain = kPlain  kInvalid = kInvalid  c1 = c1
    Keys = {k1, kPlain, kInvalid}
    Malformed = Malformed
    MaxMsgs = 2
    Publishers = {p1, p2}
    PlainKeys = {kPlain}
    InvalidKeys = {kInvalid}
    PublishFaults = {"setnx", "xadd", "del"}
    MaxPublishFaults = 2
    MaxEnds = 1
    MaxExpiries = 1
    Consumers = {c1}
    NoConsumer = NoConsumer
    Named = TRUE
    MaxRetries = 2
    ReadCount = 2
    FaultyCalls = {"dlq", "ack"}
    MaxFaults = 1
    MaxStops = 1
    MaxLapses = 0
SPECIFICATION MCSpec
INVARIANTS
    EffectivelyOnce
    DuplicatesAreTrue
PROPERTIES
    WholeBusSettles
CHECK_DEADLOCK FALSE
