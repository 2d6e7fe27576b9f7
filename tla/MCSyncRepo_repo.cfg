SPECIFICATION FairSpec
CONSTANTS
    p1 = p1
    p2 = p2
    f1 = f1
    mat = mat
    mrk = mrk
    ParatextEdits = {p1, p2}
    ForgeEdits = {f1}
    Texts = {mat, mrk}
    TextOf <- EditedTexts
    MaxMishaps = 2
INVARIANTS
    TypeOK
    SyncedIsRestorable
    InSyncMeansImported
PROPERTIES
    NoEditReverted
    EditsArrive
CHECK_DEADLOCK FALSE
