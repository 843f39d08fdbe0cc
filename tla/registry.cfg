SPECIFICATION Spec
CONSTANTS
    web = web
    api = api
    k1 = k1
    k2 = k2
    c1 = c1
    c2 = c2
    Apps <- TwoApps
    Configs <- TwoConfigs
    Clients <- Pair
    Main = Main
    Absent = Absent
    Mixed = Mixed
    MaxProcs = 3
    MaxCrashes = 1
    MaxCalls = 4
    RestoreCrash = TRUE
    DiskFails = TRUE
INVARIANTS DiskNamesOneMoment RegistryInv IdleDiskNamesApps OrderlyAckedIsDurable OnlyRegisteredAlive
SYMMETRY Symmetry
CHECK_DEADLOCK FALSE
