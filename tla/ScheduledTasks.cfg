SPECIFICATION FairScheduleSpec
CONSTANTS
    NoWrite = NoWrite
    NoRun = NoRun
    l1 = l1
    s1 = s1
    s2 = s2
    Runs <- OneRun
    Sessions <- TwoSessions
    NumParts = 2
    StageAttempts = 2
    BatchAttempts = 2
    MaxCalls = 4
    TaskAttempts = 2
    OneAtATime = TRUE
INVARIANTS
    TaskTypeOK
    GreenHasARun
PROPERTIES
    StoredRunIsLeftAlone
    TasksEnd
CHECK_DEADLOCK FALSE
