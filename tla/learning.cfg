\* two requests of any kind, one failing statement and one processing callback
SPECIFICATION Spec
CONSTANTS
    u1 = u1  u2 = u2  r1 = r1  r2 = r2
    Nil = Nil
    Users = {u1, u2}
    Slots = {r1, r2}
    MaxRequests = 2
    MaxFaults = 1
    Courses = {c1, c2}
    Materials = {m1, m2}
    Quizzes = {q1, q2}
    Questions = {i1, i2}
    Decks = {d1}
    Cards = {k1}
    Attempts = {a1, a2}
    Answers = {x1, x2}
    Goals = {g1}
    Target = 1
    Statuses = {"pending", "completed"}
    Given = {c1, m1, q1, i1, a1, x1, g1}
    MaxBatch = 1
    MaxCallbacks = 1
SYMMETRY MCSymmetry
INVARIANTS
    ShowsOnlyOwn
    LossesPaidFor
PROPERTIES
    UndoesOnlyByRace
    CompletedIsFinal
CHECK_DEADLOCK FALSE
