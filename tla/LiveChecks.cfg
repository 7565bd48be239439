SPECIFICATION Spec
CONSTANTS
    AttemptsGiven <- SomeAttempts
    DelaysGiven <- SomeDelays
    DefaultAttempts = 3
    DefaultDelay = 1
    ProbeTimeout = 2
    BootTime = 3
    Duration = 5
    Pause = 1
    RequestTimeout = 1
    Waits = 2
    Burst = 3
    Percentile = 60
    SlowLimit = 2
    FailurePercent = 25
    Horizon = 16
CHECK_DEADLOCK FALSE
INVARIANTS
    GivesUpOnTheUnfit
    ExitCodeTellsTheRuns
    StopsInTime
PROPERTIES
    JobEnds
