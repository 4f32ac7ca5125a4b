SPECIFICATION Spec
CONSTANTS
    NoValue = NoValue
    c1 = c1
    Customers <- OneCustomer
    Segments <- TwoSegments
    Cities <- TwoCities
    MaxTime = 4
    MaxOrders = 2
INVARIANTS
    TypeOK
    VersionsAreAChain
    VersionsWereTrue
    FactsFollowVersions
PROPERTIES
    PastIsKept
    BuildIsCurrent
CHECK_DEADLOCK FALSE
