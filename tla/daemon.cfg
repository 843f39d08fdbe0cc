SPECIFICATION FairSpec
CONSTANTS
    c1 = c1
    c2 = c2
    Clients <- Pair
    Restored <- Nobody
    Requests <- AllRequests
INVARIANTS DaemonTypeOK ShutdownIsAnswered StopBeforeCtx
PROPERTIES DaemonExits
