SPECIFICATION Spec
CONSTANTS
    v = v
    w = w
    Version = {v, w}
    Path <- Deep
    State <- Nothing
    Excluded <- FileIn1
    Invalid <- Leaf
    AnyDest = TRUE
    MaxBatch = 2
    MaxEdits = 0
SYMMETRY Symmetry
INVARIANTS TypeOK ScopesAreExact ReplacementsConverge
PROPERTIES SyncedPathsAgree DeletionsOnlyDelete NoCollateral
