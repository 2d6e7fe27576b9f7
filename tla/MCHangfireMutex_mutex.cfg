SPECIFICATION FairSpec
CONSTANTS
    j1 = j1
    j2 = j2
    j3 = j3
    Jobs <- ThreeJobs
    MaxAttempts = 0
    MaxRetries = 1
    Deletable <- ThreeJobs
    MaxCrashes = 1
    MaxLosses = 1
INVARIANT TypeOK
INVARIANT OneOwner
INVARIANT ProcessingExcludes
INVARIANT OwnerIsAlive
PROPERTIES
    PermitIsKept
    ImplementsExclusiveExecution
    EveryJobEnds
CHECK_DEADLOCK FALSE
