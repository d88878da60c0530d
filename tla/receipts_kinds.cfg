\* A message, a STOP and an opt-in, with a failing database or Redis, or a lost Page.
CONSTANTS
    m1 = m1
    m2 = m2
    m3 = m3
    Events = {m1, m2, m3}
    Kind <- Mixed
    Handlers = {h1}
    Reconcilers = {r1}
    Null = Null
    Expired = Expired
    AnyJob = AnyJob
    MaxStoreRetries = 1
    MaxIdentityRetries = 0
    MaxAttempts = 1
    MaxDeliveries = 1
    FaultKinds = {"database", "channel", "redis"}
    MaxFaults = 1
SPECIFICATION Spec
CHECK_DEADLOCK FALSE
PROPERTIES
    InboxImplemented
