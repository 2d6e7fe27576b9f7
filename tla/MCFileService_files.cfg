SPECIFICATION FairSpec
CONSTANTS
    f1 = f1
    f2 = f2
    s1 = s1
    s2 = s2
    Files <- OneFile
    Syncs <- TwoSyncs
    MaxRecordings = 2
    MaxMishaps = 1
INVARIANTS
    TypeOK
    LocalIsStored
    ServerHasFile
    NothingResurrected
PROPERTIES
    UploadsArrive
    DeletionsArrive
CHECK_DEADLOCK FALSE
