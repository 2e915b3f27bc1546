SPECIFICATION Spec
CONSTANTS
    v1 = v1
    v2 = v2
    p1 = p1
    q1 = q1
    q2 = q2
    q3 = q3
    Maps = {v1, v2}
    Pages = {p1}
    Qsos = {q1, q2, q3}
    Located = {q1}
    Entity <- MCEntity
    Band <- MCBand
    Mode <- MCMode
    NoEntity = 0
    ModeGroup <- MCGroup
    Limit = 3
    PageSize = 2
    MaxRows = 4
    MaxBatch = 1
    MaxTime = 2
    MaxFixes = 1
INVARIANTS
    TypeOk
    MapIsComplete
    NewOnce
PROPERTIES
    PageShowsRecent
CONSTRAINT
    OneAtATime
SYMMETRY
    Viewers
