\* One turn, a stalled or dead worker and its successor; every intervention.
CONSTANTS
    t1 = t1
    t2 = t2
    w1 = w1
    w2 = w2
    Turns <- OneTurn
    Workers = {w1, w2}
    Parts = 1
    MaxAttempts = 2
    MaxStalls = 1
    FaultKinds = {"stall", "lease", "crash", "rate", "answer", "redis", "auth"}
    MaxFaults = 2
    HumanKinds = {"reply", "archive", "pause", "mode", "takeover", "resume", "close", "optout"}
    MaxHumans = 1
SPECIFICATION FairSpec
CHECK_DEADLOCK FALSE
INVARIANTS TypeOK SingleReply
PROPERTIES JobsSettle SettledRowsStay OutcomeShown
