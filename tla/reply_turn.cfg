\* Two turns and two workers; people step in, one thing goes wrong.
CONSTANTS
    t1 = t1
    t2 = t2
    w1 = w1
    w2 = w2
    Turns <- TwoTurns
    Workers = {w1, w2}
    Parts = 1
    MaxAttempts = 2
    MaxStalls = 1
    FaultKinds = {"crash", "rate", "answer", "dependency"}
    MaxFaults = 1
    HumanKinds = {"takeover", "resume", "optout"}
    MaxHumans = 2
SPECIFICATION Spec
CHECK_DEADLOCK FALSE
SYMMETRY TurnsAndWorkers
INVARIANTS OneSenderAtATime RowTellsTheTruth
PROPERTIES NoSendBehindPeople KeepsPromise
