SPECIFICATION Spec
CONSTANTS
    j1 = j1
    j2 = j2
    j3 = j3
    Jobs <- TwoJobs
    MaxAttempts = 0
    MaxRetries = 0
    Deletable <- NoJobs
    MaxCrashes = 1
    MaxLosses = 0
INVARIANT BlockedAfterRestart
CHECK_DEADLOCK FALSE
