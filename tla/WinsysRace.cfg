SPECIFICATION Spec
CONSTANTS
    t1 = t1
    t2 = t2
    c1 = c1
    c2 = c2
    Threads <- MCThreads
    Clients <- OneClient
    ClientOf <- SameClient
    Serial = FALSE
    Command <- MCCommand
    NoCommand = NoCommand
    MaxBacklog = 2
    MaxBackings = 2
    MaxIds = 2
    MaxCalls = 4
INVARIANT NoWiredAfterFree
