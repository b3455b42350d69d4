SPECIFICATION FairSpec
CONSTANTS
    NumCpus = 2
    MaxThreads = 5
    Prio <- SamePrio
    Parkers <- LastThread
    Mortal <- NoThreads
INVARIANTS
    OneCpuPerStack
    QueuedIsDispatchable
    NoneStranded
PROPERTIES
    WakeReturns
    QueuedRuns
