SPECIFICATION Spec
VIEW LiveState
CONSTANTS
    Modes <- MCModes
    BufferSize = 6
    ProbeStep = 1
    RefreshInterval = 2
    Res3D = 5
    BadRes = 9
    Command <- MCCommand
    NoCommand = NoCommand
    MaxBacklog = 1
    MaxCtl = 3
    MaxApp = 1
    MaxLate = 0
INVARIANTS
    DisplayResourceTrue
    TakeoverAgrees
    OneStrayCallback
