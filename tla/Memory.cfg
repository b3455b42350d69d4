SPECIFICATION Spec
CONSTANTS
    PageSize = 32
    MaxOrder = 2
    MaxRegions = 3
    AddrMax = 511
    Pages <- PhysPages
    NumClasses = 4
    LargeLists = 1
    UsizeMax = 511
    MemoryMaps <- Maps
    EbdaWords <- Ebdas
    LowUsableStart = 32
    LowUsableEnd = 96
    OneMib = 128
    HeapBase = 384
    HeapPages = 3
    HugeOrder = 1
    Layouts <- SomeLayouts
    MaxForeign = 1
INVARIANTS
    PagesAccounted
    PanicsOnlyWhenEmpty
    HeapSound
PROPERTIES
    ImplementsPool
