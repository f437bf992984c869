SPECIFICATION Spec
CONSTANTS
    t1 = t1
    t2 = t2
    c1 = c1
    c2 = c2
    Slots <- MCSlots
    Clients <- MCClients
    NoSlot = NoSlot
    NoClient = NoClient
    Mixes <- OneGroup
    Command <- MCCommand
    NoCommand = NoCommand
    MaxBacklog = 1
    FirstUserCtx = 3
    ProbeCtx = 9
    SurfaceBit = 2
    PoolSize = 2
    MaxCtx = 4
    MaxCalls = 3
    MaxTimeouts = 1
VIEW LiveState
SYMMETRY CallSymmetry
INVARIANTS
    ContextsKept
    ContextLeaksExplained
    ProbePagesAccounted
    ProbeDanglingExplained
    SurfaceOneHolder
