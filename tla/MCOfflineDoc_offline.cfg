SPECIFICATION FairSpec
CONSTANTS
    o1 = o1
    MaxEdits = 2
    RemoteEdits = {o1}
    MaxPages = 2
    MaxMishaps = 1
INVARIANTS
    TypeOK
    AppliedOnce
    DataIsVersionAndPending
    NoEditForgotten
PROPERTIES
    EditsArrive
CHECK_DEADLOCK FALSE
