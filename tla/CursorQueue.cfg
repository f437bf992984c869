SPECIFICATION CursorSpec
CONSTANTS
    t1 = t1
    t2 = t2
    NoCaller = NoCaller
    Callers <- MCCallers
    Size = 2
    IdxMod = 4
    MaxCommands = 5
INVARIANTS
    CursorRingKept
    LostOnlyAfterTimeout
PROPERTIES
    CursorLockReleased
