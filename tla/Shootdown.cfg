SPECIFICATION TlbSpec
CONSTANTS
    CPUs = {0, 1}
    Started = {0}
    Threads <- SomeThreads
    Leaf <- SomeLeaf
    Table <- SomeTable
    Holders <- SomeHolders
    NoEntry = "none"
    Idle = "idle"
    NoCpu = 99
    MaxPreempts = 1
INVARIANTS
    NoStaleOutsideWindows
PROPERTIES
    EveryoneReturns
