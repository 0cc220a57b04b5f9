SPECIFICATION Spec
CONSTANTS
    a = a
    b = b
    Tasks = {t1, t2}
    Paths = {a, b}
    Outputs <- SmallOutputs
    User = user
    None = none
SYMMETRY TaskSymmetry
INVARIANTS
    TypeOK
    StepsAgree
    CancelHonoured
    Attributed
PROPERTY KeepsLife
CHECK_DEADLOCK FALSE
