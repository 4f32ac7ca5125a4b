SPECIFICATION Spec
CONSTANTS
    NoValue = NoValue
    c1 = c1
    Customers <- OneCustomer
    Segments <- TwoSegments
    Cities <- TwoCities
    MaxTime = 3
    MaxOrders = 2
INVARIANTS
    MartHasOneRowPerCustomer
CHECK_DEADLOCK FALSE
