SPECIFICATION FairSpec
CONSTANTS
    NoWrite = NoWrite
    a1 = a1
    a2 = a2
    Builders <- TwoBuilders
    MaxOrders = 2
    DateOf <- TwoDates
    NumMarts = 2
    StageAttempts = 2
INVARIANTS
    TypeOK
    WatermarksAreCovered
    MartsHaveWholeOrders
PROPERTIES
    WatermarksNeverRegress
    BuildIsComplete
    BuildsEnd
CHECK_DEADLOCK FALSE
