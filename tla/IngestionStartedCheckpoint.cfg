SPECIFICATION Spec
CONSTANTS
    NoWrite = NoWrite
    NoBatch = NoBatch
    b1 = b1
    b2 = b2
    s1 = s1
    s2 = s2
    Batches <- OneBatch
    Sessions <- OneSession
    Orders = 2
    BatchSize = 1
    ItemsOf <- ItemCount
    MaxAttempts = 2
    CallerInTx <- IdleCaller
SYMMETRY Symmetry
INVARIANTS
    StartedCheckpointIsDurable
