\* One turn at a time, one session.
CONSTANTS
    t1 = t1
    s1 = s1
    o1 = o1
    o2 = o2
    Turns = {t1}
    Sessions = {s1}
    Orders = {o1, o2}
    MaxQuantity = 2
    MaxStock = 2
    Prices = {1, 2}
    MaxEdits = 1
    MaxMessages = 6
    NoOrder = NoOrder
    NoLine = NoLine
    NoSession = NoSession
SPECIFICATION NotingSpec
CHECK_DEADLOCK FALSE
PROPERTY RefusedOnce
