SPECIFICATION FairSpec
CONSTANTS
    s1 = s1
    s2 = s2
    s3 = s3
    Session = {s1, s2, s3}
    Owner <- SharedOwner
    Foreign = Foreign
    Persistent = {s1, s2}
    TTL <- MixedTTL
    WaitMode <- MixedWait
    Window = 1
    Latency = 0
    Conditional = TRUE
    Data = {0}
    MaxStamp = 3
    MaxStray = 1
    NoFile = NoFile
    NoLock = NoLock
PROPERTIES ImplementsLease WaitEnds LeaseOverStops
