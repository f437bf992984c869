SPECIFICATION Spec
CONSTANTS
    f1 = f1
    f2 = f2
    MaxId = 2
    MaxCreates = 3
    MaxOps = 6
    Formats <- MCFormats
    Bytes <- MCBytes
    Total = 4
    AllocMod = 16
    CacheSize = 2
    PropSize = 2
    MaxRecycled = 2
    MaxClient = 2
    MaxShares = 2
INVARIANTS
    AccountsKept
    MemoryStaysMapped
    LookupsCurrent
    SharesExplained
