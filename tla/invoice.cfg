\* Two requests, three payments and one run of the job at a time.
CONSTANTS
    r1 = r1
    r2 = r2
    p1 = p1
    p2 = p2
    p3 = p3
    j1 = j1
    Requests = {r1, r2}
    Payments = {p1, p2, p3}
    Jobs = {j1}
    NoPayment = NoPayment
    NoRequest = NoRequest
SPECIFICATION Spec
SYMMETRY Everyone
CHECK_DEADLOCK FALSE
INVARIANTS TypeOK OneOpenCheckout PaidIsCaptured
PROPERTIES SettledByItsCheckout BillImplemented ClosedUnlessDunned
