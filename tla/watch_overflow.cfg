SPECIFICATION FairSpec
CONSTANTS
    r = r
    x = x
    y = y
    Dir = {r, x, y}
    Root = r
    Name = {1, 2}
    MaxDepth = 2
    QueueSize = 2
    MaxOps = 3
    Renames = {"settled"}
    Faults = TRUE
INVARIANTS TypeOK NothingMissed WatchesAreExact
PROPERTY CloseEnds
CHECK_DEADLOCK FALSE
