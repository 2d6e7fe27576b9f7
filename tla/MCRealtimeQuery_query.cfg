SPECIFICATION Spec
CONSTANTS
    q1 = q1
    q2 = q2
    d1 = d1
    d2 = d2
    Queries = {q1, q2}
    Docs = {d1, d2}
    MaxChanges = 4
SYMMETRY Symmetry
INVARIANTS
    TypeOK
    CountIsHeld
    ShowsResults
    HearsWhatItShows
CHECK_DEADLOCK FALSE
