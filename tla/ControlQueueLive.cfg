SPECIFICATION FairSpec
CONSTANTS
    t1 = t1
    t2 = t2
    NoThread = NoThread
    Threads <- MCThreads
    Sizes <- SmallOnly
    Size = 2
    IdxMod = 4
    MaxSubmits = 3
    MaxOutstanding = 3
PROPERTIES
    LockReleased
    ImplementsChannel
