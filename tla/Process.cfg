SPECIFICATION Spec
SYMMETRY CpuSymmetry
CONSTANTS
    p = p
    q = q
    Idle = Idle
    KernelRoot = KernelRoot
    Procs = {p, q}
    CPUs = {c0, c1}
    c0 = c0
    c1 = c1
    MaxPreempts = 1
    Files <- MCFiles
    Writes <- MCWrites
    FrameCounts = {8, 10}
    Wrap = 32
    PageSize = 4
    USER_MIN = 4
    USER_MAX = 24
    EhdrSize = 2
    PhdrSize = 2
    TablePages = 16
    USER_STACK_TOP = 20
    USER_STACK_PAGES = 1
    MAX_WRITE = 8
    MaxCalls = 1
INVARIANTS FramesAccounted ImageFaithful Ring3IsItsOwn WriteIsExact
PROPERTY StackSurvivesCall
