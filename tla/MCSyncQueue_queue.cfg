SPECIFICATION MCSpec
CONSTANTS
    daughter = daughter
    parent = parent
    r1 = r1
    r2 = r2
    c1 = c1
    NoProject = NoProject
    NoRequest = NoRequest
    Projects <- BothProjects
    Requests <- TwoRequests
    Cancels <- OneCancel
    CancelPlan <- CancelBoth
    TargetOf <- PairTarget
    SourceOf <- PairSource
    ParentOf <- NoParents
    MaxRetries = 1
    MaxCrashes = 1
    MaxRequestFaults = 1
    MaxRunFaults = 1
INVARIANTS
    TypeOK
    CountIsPending
    IdsArePending
    MetricIdsArePending
    TargetAfterSource
PROPERTY SpinnerEnds
CHECK_DEADLOCK FALSE
