SPECIFICATION Spec
CONSTANTS
    h1 = h1
    h2 = h2
    f1 = f1
    f2 = f2
    Host = {h1, h2}
    Name = {f1, f2}
    Value = {0, 1}
    MaxGen = 2
    MaxId = 3
    MaxWipes = 1
    None = None
SYMMETRY Symmetry
INVARIANTS TypeOK CleanSkipIsSound TrackedWhileRunning NoStaleOverwrite KnownEditsSurvive
PROPERTY PayloadChangesAreMarked
CHECK_DEADLOCK FALSE
