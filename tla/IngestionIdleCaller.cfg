SPECIFICATION Spec
CONSTANTS
    NoWrite = NoWrite
    NoBatch = NoBatch
    b1 = b1
    b2 = b2
    s1 = s1
    s2 = s2
    Batches <- TwoBatches
    Sessions <- TwoSessions
    Orders = 3
    BatchSize = 2
    ItemsOf <- ItemCount
    MaxAttempts = 2
    CallerInTx <- IdleCaller
SYMMETRY Symmetry
INVARIANTS
    TypeOK
    NoHoles
    NeverLoadedTwice
    PinnedWithData
    CompletedPartIsLoaded
    CompletedBatchIsWhole
PROPERTIES
    CommitsAscend
    CompletedIsFinal
