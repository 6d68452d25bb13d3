\* one request at a time under a limit of two, with nothing failing
CONSTANTS
    Nil = Nil
    Slots = {r1}
    Users = {u1}
    Bodies = {b1}
    Paths = {"api"}
    Limit <- MCTwo
    Window = 3
    Day = 2
    Quota = 1
    AIQuota = 1
    Operations <- MCOperations
    Tries = 2
    MaxTime = 3
    MaxRequests = 4
    MaxFaults = 0
SPECIFICATION Spec
INVARIANTS
    RequestsLimited
CHECK_DEADLOCK FALSE
