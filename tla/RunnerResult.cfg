SPECIFICATION Spec
CONSTANTS
    NoWrite = NoWrite
    NoRun = NoRun
    l1 = l1
    s1 = s1
    s2 = s2
    Runs <- OneRun
    Sessions <- OneSession
    NumParts = 2
    StageAttempts = 2
    BatchAttempts = 2
    MaxCalls = 2
    OneAtATime = TRUE
SYMMETRY Symmetry
PROPERTIES
    ResultIsPersisted
CHECK_DEADLOCK FALSE
