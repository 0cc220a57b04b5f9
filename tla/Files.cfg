SPECIFICATION Spec
CONSTANTS
    Requests = {q1, q2}
    Tools = {t1, t2}
    Previews = {b1}
    Seed = seed
    None = none
SYMMETRY CallSymmetry
INVARIANTS
    TypeOK
    HistoryCurrent
    PreviewCurrent
    CacheCoherent
PROPERTY KeepsHistory
CHECK_DEADLOCK FALSE
