\* A dead process, a failed database call or a Redis failure, at any point.
CONSTANTS
    m1 = m1
    m2 = m2
    m3 = m3
    Events = {m1, m2}
    Kind <- Messages
    Handlers = {h1}
    Reconcilers = {r1}
    Null = Null
    Expired = Expired
    AnyJob = AnyJob
    MaxStoreRetries = 1
    MaxIdentityRetries = 0
    MaxAttempts = 1
    MaxDeliveries = 1
    FaultKinds = {"crash", "database", "redis"}
    MaxFaults = 1
SPECIFICATION Spec
SYMMETRY Symmetric
CHECK_DEADLOCK FALSE
INVARIANTS
    ServedAccounting
    SettledWasServed
