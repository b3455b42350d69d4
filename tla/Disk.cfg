SPECIFICATION DiskSpec
CONSTANTS
    t1 = t1
    t2 = t2
    a = a
    BadId = BadId
    Caller <- TwoCallers
    Chain <- OneChain
    QueueSize = 4
    Capacity = 1
    Timeout = 1
    MaxFaults = 1
    Size = 5
    ChainLen = 2
    IdxMod = 10
INVARIANTS
    RingIntact
PROPERTIES
    RequestReturns
    RingIsPool
