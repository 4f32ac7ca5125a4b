SPECIFICATION Spec
CONSTANTS
    NoWrite = NoWrite
    a1 = a1
    a2 = a2
    Builders <- TwoBuilders
    MaxOrders = 3
    DateOf <- SomeDates
    NumMarts = 2
    StageAttempts = 2
SYMMETRY Symmetry
INVARIANTS
    TypeOK
    WatermarksAreCovered
    WatermarksAgree
    MartsHaveWholeOrders
PROPERTIES
    WatermarksNeverRegress
    BuildIsComplete
CHECK_DEADLOCK FALSE
