SPECIFICATION MCSpec
CONSTANTS
    r1 = r1
    r2 = r2
    NoOne = NoOne
    Requests <- TwoRequests
    MaxFaults = 0
    MaxBuilds = 0
    MaxRequestFaults = 0
INVARIANT NoInvisibleBuild
CHECK_DEADLOCK FALSE
