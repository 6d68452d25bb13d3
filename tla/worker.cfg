\* a reminder of two days, or of one and a notification, or two notifications, a failed statement and a crash;
\* two jobs with two failed calls and a restart
CONSTANTS
    LastDay = 2
    MaxRetries = 2
    MaxLoad = 2
    MaxFaults = 1
    MaxCrashes = 1
    Jobs = {j1, j2}
    NoJob = NoJob
    MaxErrors = 2
    MaxRestarts = 1
SPECIFICATION MCSpec
INVARIANTS
    DuplicatesPaidFor
    JobsAccountedFor
    StatusTold
PROPERTIES
    CancelSticks
    NothingForgotten
CHECK_DEADLOCK FALSE
