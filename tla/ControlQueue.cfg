SPECIFICATION Spec
CONSTANTS
    t1 = t1
    t2 = t2
    NoThread = NoThread
    Threads <- MCThreads
    Sizes <- AnySize
    Size = 2
    IdxMod = 4
    MaxSubmits = 4
    MaxOutstanding = 2
SYMMETRY ThreadSymmetry
INVARIANTS
    FreeListIntact
    IdCheckBlind
    OwnResponseWhenQuiet
    QuietExactlyOnce
    FreedReadNeedsAbandoned
