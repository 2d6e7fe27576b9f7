SPECIFICATION Spec
CONSTANTS
    f1 = f1
    f2 = f2
    s1 = s1
    s2 = s2
    Files <- OneFile
    Syncs <- OneSync
    MaxRecordings = 1
    MaxMishaps = 1
INVARIANT OfflineIsUploaded
CHECK_DEADLOCK FALSE
