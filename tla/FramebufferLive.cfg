SPECIFICATION FairSpec
CONSTANTS
    Modes <- MCModes
    BufferSize = 6
    ProbeStep = 1
    RefreshInterval = 2
    Res3D = 5
    BadRes = 9
    Command <- MCCommand
    NoCommand = NoCommand
    MaxBacklog = 1
    MaxCtl = 2
    MaxApp = 0
    MaxLate = 1
PROPERTIES
    RefreshGoesOn
    CallsReturn
