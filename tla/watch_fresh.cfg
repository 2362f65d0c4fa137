SPECIFICATION Spec
CONSTANTS
    r = r
    x = x
    y = y
    Dir = {r, x, y}
    Root = r
    Name = {1, 2}
    MaxDepth = 2
    QueueSize = 6
    MaxOps = 3
    Renames = {"settled", "fresh", "over"}
    Faults = FALSE
SYMMETRY Symmetry
INVARIANT NothingMissed
CHECK_DEADLOCK FALSE
