SPECIFICATION Spec
CONSTANTS
    c1 = c1
    c2 = c2
    c3 = c3
    d1 = d1
    d2 = d2
    d3 = d3
    app = app
    Clis <- ThreeClis
    Daemons <- ThreeDaemons
    Apps <- OneApp
    Commands <- EveryCommand
    MaxCrashes = 0
    NoDaemon = NoDaemon
INVARIANTS OneDaemonPerApp
CHECK_DEADLOCK FALSE
