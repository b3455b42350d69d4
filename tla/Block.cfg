SPECIFICATION Spec
CONSTANTS
    t1 = t1
    t2 = t2
    a = a
    b = b
    BadId = BadId
    Caller <- TwoCallers
    Chain <- TwoChains
    QueueSize = 4
    Capacity = 2
    Timeout = 1
    MaxFaults = 1
SYMMETRY Symmetry
INVARIANTS
    ChainsAccounted
    DeviceOwnsChain
    ParkedHasWaker
