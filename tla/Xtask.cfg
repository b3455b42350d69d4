CONSTANTS
    NTests = 2
    Sticky = {"interrupts"}
    Kernels = {"debug", "test"}
    MaxHistory = 2
    mm = mm
    elf = elf
    Crates <- TwoCrates
    MaxFloor = 2
    TOLERANCE_PP = 2
    HalvesDown = {1, 3}
    Sessions = {"suite", "staging", "attest", "coverage"}
    MaxCommands = 3
SPECIFICATION Spec
SYMMETRY Symmetry
INVARIANTS
    SuccessIsEarned
    StagedIsRequested
    GreenIsClean
    FloorsHold
CHECK_DEADLOCK FALSE
