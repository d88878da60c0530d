\* One message, delivered twice, two disturbances of any kind.
CONSTANTS
    m1 = m1
    m2 = m2
    m3 = m3
    Events = {m1}
    Kind <- Messages
    Handlers = {h1}
    Reconcilers = {r1}
    Null = Null
    Expired = Expired
    AnyJob = AnyJob
    MaxStoreRetries = 1
    MaxIdentityRetries = 1
    MaxAttempts = 2
    MaxDeliveries = 2
    FaultKinds = {"database", "redis", "job", "crash", "week", "channel"}
    MaxFaults = 2
SPECIFICATION FairSpec
CHECK_DEADLOCK FALSE
INVARIANTS
    TypeOK
    PayloadRetained
    OwnedWhileProcessing
PROPERTIES
    SettledForGood
    FencedOut
    EventuallySettled
