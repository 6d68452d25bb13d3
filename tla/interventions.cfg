\* a student or two, two requests at a time, a class and a deadline over two days
CONSTANTS
    c = c
    Students = {s1, s2}
    Courses = {c}
    Workers = {w1, w2}
    Slots <- MCSlots
    Deadlines <- MCDeadlines
    Moments <- MCMoments
    CoolOff = 4
    MaxDaily = 1
    Fatigue = 2
    MaxRequests = 3
SPECIFICATION Spec
SYMMETRY Interchangeable
INVARIANTS
    GovernedUpToOverlap
    AnsweredIsRecorded
    DismissalIsPersonal
CHECK_DEADLOCK FALSE
