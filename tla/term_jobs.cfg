SPECIFICATION FairSpec
INVARIANTS TypeOK StopIsHandled
PROPERTIES HandedBackInTurn StopIsMirrored ContinueIsMirrored TerminalComesBack
CHECK_DEADLOCK FALSE
