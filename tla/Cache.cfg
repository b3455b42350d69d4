SPECIFICATION Spec
CONSTANTS
    t1 = t1
    t2 = t2
    t3 = t3
    k1 = k1
    k2 = k2
    k3 = k3
    v1 = v1
    v2 = v2
    Thread <- ThreeThreads
    Key <- TwoKeys
    Val <- Vals
    NumSlots = 1
    MayTimeOut = FALSE
SYMMETRY Symmetry
INVARIANTS
    CleanMatchesDevice
    SyncIsDurable
PROPERTIES
    ImplementsStore
