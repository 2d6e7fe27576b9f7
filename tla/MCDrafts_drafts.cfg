SPECIFICATION MCSpec
CONSTANTS
    r1 = r1
    r2 = r2
    NoOne = NoOne
    Requests <- TwoRequests
    MaxFaults = 2
    MaxBuilds = 3
    MaxRequestFaults = 1
INVARIANTS
    TypesOK
    BuildHasClaim
PROPERTIES
    ClaimIsGivenBack
    DraftsArrive
CHECK_DEADLOCK FALSE
