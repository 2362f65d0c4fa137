SPECIFICATION FairSpec
CONSTANTS
    Name = {a}
    MaxSignals = 3
INVARIANTS TypeOK CleanExitIsComplete NoChangeForgotten LastChangesAreTried TimerNeverLost
PROPERTIES NoSyncAfterLockLoss LockLossEnds TwoSignalsEnd SignalEndsWait
CHECK_DEADLOCK FALSE
