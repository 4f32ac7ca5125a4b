SPECIFICATION ItemSpec
CONSTANTS
    NoWrite = NoWrite
    NoBatch = NoBatch
    b1 = b1
    b2 = b2
    s1 = s1
    s2 = s2
    Batches <- TwoBatches
    Sessions <- TwoSessions
    Orders = 3
    BatchSize = 2
    ItemsOf <- ItemCount
    MaxAttempts = 2
    CallerInTx <- TxCaller
SYMMETRY Symmetry
INVARIANTS
    TypeOK
    NoHoles
    NeverLoadedTwice
    PinnedWithData
    CompletedPartIsLoaded
    CompletedBatchIsWhole
    ItemsFollowOrders
    VerdictComesWithCompletion
PROPERTIES
    CommitsAscend
    CompletedIsFinal
    AbandonedStaysStarted
    AppendsWholeParts
