SPECIFICATION FairItemSpec
CONSTANTS
    NoWrite = NoWrite
    NoBatch = NoBatch
    b1 = b1
    b2 = b2
    s1 = s1
    s2 = s2
    Batches <- TwoBatches
    Sessions <- TwoSessions
    Orders = 2
    BatchSize = 1
    ItemsOf <- ItemCount
    MaxAttempts = 1
    CallerInTx <- TxCaller
PROPERTIES
    CallsEnd
