SPECIFICATION Spec
SYMMETRY MCSymmetry
CHECK_DEADLOCK FALSE
CONSTANTS
    client = client
    t1 = t1
    t2 = t2
    b1 = b1
    b2 = b2
    Kernel = Kernel
    Clients <- MCClients
    Threads <- MCThreads
    Owner <- MCOwner
    InitialCapacity = 1
    BindCapacity = 1
    MaxContexts = 4
    MaxSurfaces = 4
    MaxDeviceContexts = 5
    MaxCalls = 4
INVARIANTS
    PoolsKept
    LeftoversExplained
    OwnDeviceContext
    GivenSurfaceLives
    
