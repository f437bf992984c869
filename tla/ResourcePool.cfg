SPECIFICATION Spec
CONSTANTS
    i1 = i1
    i2 = i2
    i3 = i3
    Ids <- MCIds
    NoId = NoId
    Command <- MCCommand
    NoCommand = NoCommand
    MaxBacklog = 2
    PoolSize = 2
    MaxOps = 4
SYMMETRY IdSymmetry
INVARIANTS
    PoolUnique
    BackingAccounted
    HostAgrees
    OrphansExplained
PROPERTY LiveSlotsKept
