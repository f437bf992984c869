SPECIFICATION Spec
CONSTANTS
    Callers = {t1, t2}
    t1 = t1
    t2 = t2
    NoCaller = NoCaller
    MaxCalls = 3
SYMMETRY CallerSymmetry
CHECK_DEADLOCK FALSE
INVARIANTS
    ReadyStateTrue
    FaultsExplained
    DeviceStateExplained
    MemoryExplained
