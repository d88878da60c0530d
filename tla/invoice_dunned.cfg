\* One request, one payment and one run of the job.
CONSTANTS
    r1 = r1
    p1 = p1
    j1 = j1
    Requests = {r1}
    Payments = {p1}
    Jobs = {j1}
    NoPayment = NoPayment
    NoRequest = NoRequest
SPECIFICATION Spec
CHECK_DEADLOCK FALSE
PROPERTY OnlyUnpaidAreDunned
