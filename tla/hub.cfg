\* two connections of a user, with buffers of one message and a failed statement
CONSTANTS
    c1 = c1
    c2 = c2
    Conns = {c1, c2}
    None = None
    Buffer = 1
    MaxFaults = 1
SPECIFICATION FairSpec
INVARIANTS
    HubNeverPanics
    Bookkeeping
    OfflineWhenGone
PROPERTIES
    ConnectionsEnd
CHECK_DEADLOCK FALSE
