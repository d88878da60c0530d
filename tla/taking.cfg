\* Two turns over two sessions, six messages, one change of the product.
CONSTANTS
    t1 = t1
    t2 = t2
    s1 = s1
    s2 = s2
    o1 = o1
    o2 = o2
    Turns = {t1, t2}
    Sessions = {s1, s2}
    Orders = {o1, o2}
    MaxQuantity = 2
    MaxStock = 2
    Prices = {1, 2}
    MaxEdits = 1
    MaxMessages = 6
    NoOrder = NoOrder
    NoLine = NoLine
    NoSession = NoSession
SPECIFICATION Spec
SYMMETRY Everyone
CHECK_DEADLOCK FALSE
INVARIANTS TypeOK OrderedAsConfirmed CompletedIsOrdered
PROPERTIES ClosedStaysClosed SalesImplemented
