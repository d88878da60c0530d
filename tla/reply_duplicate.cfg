\* One turn whose worker dies once.
CONSTANTS
    t1 = t1
    t2 = t2
    w1 = w1
    w2 = w2
    Turns <- OneTurn
    Workers = {w1}
    Parts = 1
    MaxAttempts = 3
    MaxStalls = 1
    FaultKinds = {"crash"}
    MaxFaults = 1
    HumanKinds = {}
    MaxHumans = 0
SPECIFICATION Spec
CHECK_DEADLOCK FALSE
PROPERTY DuplicateWasAnswered
