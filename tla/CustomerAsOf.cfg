SPECIFICATION Spec
CONSTANTS
    NoValue = NoValue
    c1 = c1
    Customers <- OneCustomer
    Segments <- TwoSegments
    Cities <- TwoCities
    MaxTime = 3
    MaxOrders = 1
INVARIANTS
    SegmentsAsOfAnyDate
CHECK_DEADLOCK FALSE
