SPECIFICATION Spec
CONSTANTS
    s1 = s1
    s2 = s2
    s3 = s3
    Session = {s1}
    Owner <- UniqueOwner
    Foreign = Foreign
    Persistent = {}
    TTL <- MixedTTL
    WaitMode <- MixedWait
    Window = 1
    Latency = 0
    Conditional = TRUE
    Data = {0}
    MaxStamp = 3
    MaxStray = 0
    NoFile = NoFile
    NoLock = NoLock
PROPERTY LossIsReal
