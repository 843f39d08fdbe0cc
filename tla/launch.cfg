SPECIFICATION Spec
CONSTANTS
    c1 = c1
    c2 = c2
    c3 = c3
    d1 = d1
    d2 = d2
    d3 = d3
    app = app
    Clis <- ThreeClis
    Daemons <- ThreeDaemons
    Apps <- OneApp
    Commands <- EveryCommand
    MaxCrashes = 1
    NoDaemon = NoDaemon
INVARIANTS SparesStartNothing
PROPERTIES SpawnedServes
CHECK_DEADLOCK FALSE
