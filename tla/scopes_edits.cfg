SPECIFICATION Spec
CONSTANTS
    v = v
    w = w
    Version = {v, w}
    Path <- Family
    State <- FileIn1
    Excluded <- Nothing
    Invalid <- Nothing
    AnyDest = FALSE
    MaxBatch = 2
    MaxEdits = 3
SYMMETRY Symmetry
INVARIANTS NothingForgotten
