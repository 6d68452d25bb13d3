\* two calls at a time, one institution, a lost answer or caller gone and a change by others
CONSTANTS
    small = small
    large = large
    chat = chat
    Unset = Unset
    Global = Global
    Calls = {c1, c2}
    Users = {u1}
    Institutions = {i1}
    Tasks = {quiz}
    Prompts = {p1}
    Routes <- MCRoutes
    DefaultTask = chat
    SpareRoute <- MCSpareRoute
    DefaultModel = small
    TokenCost <- MCTokenCost
    Reported = {0}
    Room = 1
    MaxLines = 2
    MaxTime = 2
    MaxFaults = 1
    Ceilings <- MCCeilings
    DefaultCeiling <- MCDefaultCeiling
    Windows = {1}
    Estimate = 1
    KeyLife = 1
    MaxCalls = 2
    MaxChanges = 1
SPECIFICATION Spec
INVARIANTS
    QuietEndIsComplete
    BooksBalance
PROPERTIES
    SpendUpToOverlap
    CancelEndsStream
CHECK_DEADLOCK FALSE
