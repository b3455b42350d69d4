SPECIFICATION FairSpec
CONSTANTS
    NumCpus = 1
    MaxThreads = 3
    Prio <- SamePrio
    Parkers <- AllThreads
    Mortal <- Ordinary
INVARIANTS
    ScheduleAsserts
PROPERTIES
    ExitedIsReaped
