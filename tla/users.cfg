\* two requests or starts of every kind at once, with failures
CONSTANTS
    r1 = r1  r2 = r2  c1 = c1  c2 = c2  i1 = i1  i2 = i2
    Requests = {r1, r2}
    Ops = {"login", "refresh", "logout", "change", "reset", "revoke", "switch"}
    MaxTokens = 2
    MaxPasswords = 2
    MaxResets = 1
    MaxFaults = 1
    Callers = {c1, c2}
    MaxCodes = 3
    MaxLapses = 2
    Instances = {i1, i2}
    MaxPairs = 3
SPECIFICATION MCSpec
SYMMETRY MCSymmetry
INVARIANTS
    LineLives
    PairsAccountedFor
    StaleOnlyByRace
    PasswordsHold
    CodesMatchMail
    TokensVerify
CHECK_DEADLOCK FALSE
