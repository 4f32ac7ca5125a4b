SPECIFICATION Spec
CONSTANTS
    s1 = s1
    s2 = s2
    Sessions <- TwoSessions
    Wanted <- Growing
    RootCategories = 1
    MaxOrders = 1
INVARIANTS
    TypeOK
    IngestsOnWholeReference
    NoCircularWait
    NoOrderIsDropped
CHECK_DEADLOCK FALSE
