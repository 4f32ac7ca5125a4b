SPECIFICATION ScheduleSpec
CONSTANTS
    NoWrite = NoWrite
    NoRun = NoRun
    l1 = l1
    s1 = s1
    s2 = s2
    Runs <- OneRun
    Sessions <- TwoSessions
    NumParts = 1
    StageAttempts = 2
    BatchAttempts = 2
    MaxCalls = 3
    TaskAttempts = 2
    OneAtATime = TRUE
INVARIANTS
    GreenMeansSuccess
CHECK_DEADLOCK FALSE
