SPECIFICATION Spec
CONSTANTS
    Configs <- JustService
    MaxGen = 0
    RestartCap = 2
    NoCmd = NoCmd
    c1 = c1
    c2 = c2
    Callers <- Solo
    Ops <- StopOnly
    Free = Free
PROPERTIES ManualStopIsNotCrash
