SPECIFICATION Spec
CONSTANTS
    CPUs = {0, 1, 2}
    Bsp = 0
    MAX_CPUS = 3
    Firmwares <- MCFirmwares
    Budget = 2
    MaxNaps = 2
    Devices <- MCDevices
    Structures = {"common", "notify"}
    Offsets = {1, 2, 3}
    Unaligned = 9
    Frames = {1, 2, 3}
    MaxInits = 2
    MaxFaults = 1
    RESET_SPIN_LIMIT = 2
INVARIANTS
    UsesAreReady
    OnlineCanAcknowledge
    RingsAreOwned
    LiveDiskAnswers
PROPERTY
    BootCompletes
CHECK_DEADLOCK FALSE
