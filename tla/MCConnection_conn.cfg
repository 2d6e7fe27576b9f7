SPECIFICATION Spec
CONSTANTS
    d1 = d1
    MaxQueued = 2
    Absent = Absent
    Docs <- OneDoc
    Data <- Records
    Ops <- OpLists
    Apply <- Set
    Diff <- Changes
    Paths <- PathsOf
INVARIANTS
    TypeOK
    CopyPredicts
    NothingLeft
CHECK_DEADLOCK FALSE
